------------------------- MODULE SessionCloseProofs -------------------------
(***************************************************************************)
(* What SessionClose promises for any number of operators, hooks and       *)
(* streams.  Type correctness is inductive, and so are NoLostWakeup and    *)
(* OneCloseAccepted on top of it.  That a served close is the one that is  *)
(* sent needs to know where the session can be while its command channel   *)
(* still holds a close, which CloseInv adds.                               *)
(***************************************************************************)
EXTENDS SessionClose, FiniteSetTheorems, TLAPS

(* The token, the notification, the deadline and the mode of teardown stay *)
(* Boolean, the gauge and the queues natural, and no caller leaves its     *)
(* protocol: a queue never credits more than it holds (PendingQueue).      *)
THEOREM TypeCorrect == Spec => []TypeOK
<1>1. Init => TypeOK
  <2> SUFFICES ASSUME Init PROVE TypeOK
    OBVIOUS
  <2>1. {cancelled, notified, expired, discarding} \subseteq BOOLEAN
    BY Zenon DEF Init
  <2>2. /\ phase \in {"dial", "forward", "ending", "over", "gone"}
        /\ request \in Callers \union {Nobody}
        /\ sentClose \in Callers \union {Nobody, "none"}
        /\ at \in [Callers -> Answers]
        /\ inbox \in {"open", "full", "shut"}
        /\ waiter \in {"idle", "first", "arm", "second", "asleep", "drained", "done"}
        /\ gauge \in Nat /\ queue \in [Streams -> 0..MaxQueued]
        /\ live \subseteq Streams /\ notifying \subseteq Streams
    BY CloseAssumption DEF Init, Answers
  <2> QED
    BY <2>1, <2>2 DEF TypeOK
<1>2. TypeOK /\ [Next]_vars => TypeOK'
  <2> SUFFICES ASSUME TypeOK, [Next]_vars PROVE TypeOK'
    OBVIOUS
  <2> USE CloseAssumption DEF TypeOK
  <2>1. ASSUME NEW o \in Operators, Reach(o) \/ Record(o) \/ SendCommand(o) PROVE TypeOK'
    BY <2>1 DEF Reach, Record, SendCommand, RecordClose, Step, Callers, Answers,
                mainVars, waitVars, gaugeVars
  <2>2. ASSUME NEW h \in Hooks, HookRequest(h) \/ HookCancel(h) PROVE TypeOK'
    BY <2>2, ZenonT(30) DEF HookRequest, HookCancel, RecordClose, Step, Callers, Answers,
                mainVars, waitVars, gaugeVars
  <2>3. CASE MainTask \/ ProxyCancels
    BY <2>3 DEF MainTask, ProxyCancels, DialDone, DialAbandoned, FirstTaskEnds, CloseLegs,
                Unregister, CloseArgs, closerVars, mainVars, waitVars, gaugeVars
  <2>4. CASE Waiting \/ Expire
    BY <2>4, ZenonT(30) DEF Waiting, Expire, TakeCommand, LeaveEarly, FirstLook, Arm, SecondLook, WakeUp,
                WindowOver, EndSession, CommandTask, closerVars, mainVars, gaugeVars
  <2>5. ASSUME NEW s \in Streams, Queue(s) \/ ReleaseUnit(s) \/ NotifyWaiters(s) \/ StreamEnds(s)
        PROVE  TypeOK'
    <3>0. CASE Queue(s)
      BY <3>0 DEF Queue, Running, StreamStep, closerVars, mainVars, waitVars
    <3>1. CASE NotifyWaiters(s)
      <4>1. notified' \in BOOLEAN
        BY <3>1, Zenon DEF NotifyWaiters
      <4> QED
        BY <3>1, <4>1 DEF NotifyWaiters, StreamStep, closerVars, mainVars, waitVars
    <3>2. ASSUME NEW n \in Nat, n <= queue[s], Credit(s, n)
          PROVE  /\ gauge' \in Nat /\ queue' \in [Streams -> 0..MaxQueued]
                 /\ notifying' \subseteq Streams
      BY <3>2 DEF Credit
    <3>3. CASE ReleaseUnit(s)
      <4>1. /\ gauge' \in Nat /\ queue' \in [Streams -> 0..MaxQueued]
            /\ notifying' \subseteq Streams
        BY <3>2, <3>3 DEF ReleaseUnit
      <4> QED
        BY <4>1, <3>3 DEF ReleaseUnit, Running, StreamStep, closerVars, mainVars, waitVars
    <3>4. CASE StreamEnds(s)
      <4>1. queue[s] \in Nat /\ queue[s] <= queue[s]
        OBVIOUS
      <4>2. /\ gauge' \in Nat /\ queue' \in [Streams -> 0..MaxQueued]
            /\ notifying' \subseteq Streams
        BY <3>2, <3>4, <4>1 DEF StreamEnds
      <4> QED
        BY <4>2, <3>4 DEF StreamEnds, Running, StreamStep, closerVars, mainVars, waitVars
    <3> QED
      BY <2>5, <3>0, <3>1, <3>3, <3>4
  <2>6. CASE UNCHANGED vars
    BY <2>6 DEF vars, closerVars, mainVars, waitVars, gaugeVars
  <2> QED
    BY <2>1, <2>2, <2>3, <2>4, <2>5, <2>6 DEF Next, Closing, Forwarding
<1> QED
  BY <1>1, <1>2, PTL DEF Spec

(* A drain never sleeps over an empty gauge without a wake on its way,     *)
(* for any number of streams that empty, fill and notify concurrently:     *)
(* wait_idle looks again after it has registered (EgressGauge).            *)
THEOREM NoWakeupLost == Spec => []NoLostWakeup
<1>1. Init => NoLostWakeup
  BY DEF Init, NoLostWakeup
<1>2. TypeOK /\ NoLostWakeup /\ [Next]_vars => NoLostWakeup'
  <2> SUFFICES ASSUME TypeOK, NoLostWakeup, [Next]_vars, waiter' = "asleep", gauge' = 0
               PROVE  notified' \/ notifying' # {}
    BY DEF NoLostWakeup
  <2>1. CASE UNCHANGED <<waiter, gauge, notified, notifying>>
    BY <2>1 DEF NoLostWakeup
  <2>2. CASE Closing \/ MainTask \/ ProxyCancels \/ Expire \/ UNCHANGED vars
    <3> UNCHANGED <<waiter, gauge, notified, notifying>>
      BY <2>2 DEF Closing, MainTask, ProxyCancels, Expire, Reach, Record, SendCommand,
                  HookRequest, HookCancel, DialDone, DialAbandoned, FirstTaskEnds, CloseLegs,
                  Unregister, waitVars, gaugeVars, vars
    <3> QED
      BY <2>1
  <2>3. CASE Waiting
    BY <2>3 DEF Waiting, TakeCommand, LeaveEarly, FirstLook, Arm, SecondLook, WakeUp, WindowOver,
                EndSession, CommandTask, gaugeVars
  <2>4. ASSUME NEW s \in Streams, Queue(s) PROVE FALSE
    BY <2>4 DEF Queue, TypeOK
  <2>5. ASSUME NEW s \in Streams, NotifyWaiters(s) PROVE notified'
    BY <2>5 DEF NotifyWaiters, StreamStep, waitVars, Armed
  <2>6. ASSUME NEW s \in Streams, NEW n \in Nat, Credit(s, n), n <= queue[s],
               UNCHANGED <<waiter, notified>>
        PROVE  notified' \/ notifying' # {}
    BY <2>6 DEF Credit, TypeOK, NoLostWakeup
  <2>7. ASSUME NEW s \in Streams, ReleaseUnit(s) \/ StreamEnds(s)
        PROVE  notified' \/ notifying' # {}
    BY <2>6, <2>7 DEF ReleaseUnit, StreamEnds, StreamStep, waitVars, TypeOK
  <2> QED
    BY <2>2, <2>3, <2>4, <2>5, <2>7 DEF Next, Forwarding
<1> QED
  BY <1>1, <1>2, TypeCorrect, PTL DEF Spec

(* However many operators and hooks race, the recorded close is that of    *)
(* every caller that was not refused, so there is one (SessionCloser).     *)
THEOREM OneCloseHolds == Spec => []OneCloseAccepted
<1>1. Init => OneCloseAccepted
  BY DEF Init, OneCloseAccepted
<1>2. TypeOK /\ OneCloseAccepted /\ [Next]_vars => OneCloseAccepted'
  <2> SUFFICES ASSUME TypeOK, OneCloseAccepted, [Next]_vars PROVE OneCloseAccepted'
    OBVIOUS
  <2>1. CASE UNCHANGED <<request, at>>
    BY <2>1 DEF OneCloseAccepted
  <2>2. ASSUME NEW c \in Callers, NEW lost \in {"refused", "beaten"}, RecordClose(c, lost)
        PROVE  OneCloseAccepted'
    BY <2>2, CloseAssumption DEF RecordClose, Step, OneCloseAccepted, TypeOK, Callers
  <2>3. ASSUME NEW c \in Callers, NEW a \in Answers, UNCHANGED request, Step(c, a),
               a \in {"ok", "late"} => at[c] = "recorded", a # "recorded"
        PROVE  OneCloseAccepted'
    BY <2>3 DEF Step, OneCloseAccepted, TypeOK, Answers
  <2>4. ASSUME NEW o \in Operators, Reach(o) \/ Record(o) \/ SendCommand(o)
        PROVE  OneCloseAccepted'
    BY <2>2, <2>3, <2>4 DEF Reach, Record, SendCommand, Callers, Answers
  <2>5. ASSUME NEW h \in Hooks, HookRequest(h) \/ HookCancel(h) PROVE OneCloseAccepted'
    BY <2>2, <2>3, <2>5 DEF HookRequest, HookCancel, Callers, Answers
  <2>6. CASE MainTask \/ ProxyCancels \/ Waiting \/ Expire \/ Forwarding \/ UNCHANGED vars
    <3> UNCHANGED <<request, at>>
      BY <2>6 DEF MainTask, ProxyCancels, Waiting, Expire, Forwarding, DialDone, DialAbandoned,
                  FirstTaskEnds, CloseLegs, Unregister, TakeCommand, LeaveEarly, FirstLook, Arm,
                  SecondLook, WakeUp, WindowOver, EndSession, CommandTask, Queue, ReleaseUnit,
                  NotifyWaiters, StreamEnds, StreamStep, closerVars, vars
    <3> QED
      BY <2>1
  <2> QED
    BY <2>4, <2>5, <2>6 DEF Next, Closing
<1> QED
  BY <1>1, <1>2, TypeCorrect, PTL DEF Spec

(* Where the session can be while a close is on its way to the drain.      *)
CloseInv ==
    /\ inbox = "full" => request \in Operators
    /\ cancelled \/ phase \in {"dial", "forward"} \/ inbox = "shut"
    /\ phase \in {"dial", "forward", "ending"} => sentClose = "none"
    /\ phase = "dial" => waiter = "idle" /\ ~discarding
    /\ ServedCloseIsSent

LEMMA CloseInvHolds == Spec => []CloseInv
<1>1. Init => CloseInv
  BY DEF Init, CloseInv, ServedCloseIsSent, Draining
<1>2. TypeOK /\ OneCloseAccepted /\ CloseInv /\ [Next]_vars => CloseInv'
  <2> SUFFICES ASSUME TypeOK, OneCloseAccepted, CloseInv, [Next]_vars PROVE CloseInv'
    OBVIOUS
  <2> USE DEF CloseInv, ServedCloseIsSent, Draining
  <2>1. ASSUME NEW o \in Operators, SendCommand(o) PROVE CloseInv'
    BY <2>1 DEF SendCommand, OneCloseAccepted, Callers, mainVars, gaugeVars
  <2>2. ASSUME NEW c \in Callers, NEW lost \in {"refused", "beaten"}, RecordClose(c, lost),
               UNCHANGED <<mainVars, waitVars>>, UNCHANGED <<cancelled, discarding>>
        PROVE  CloseInv'
    BY <2>2, CloseAssumption DEF RecordClose, Callers, mainVars, waitVars
  <2>3. ASSUME NEW o \in Operators, Reach(o) \/ Record(o) PROVE CloseInv'
    BY <2>2, <2>3 DEF Reach, Record, Callers, mainVars, waitVars
  <2>4. ASSUME NEW h \in Hooks, HookRequest(h) \/ HookCancel(h) PROVE CloseInv'
    BY <2>2, <2>4 DEF HookRequest, HookCancel, Callers, mainVars, waitVars
  <2>5. CASE MainTask \/ ProxyCancels
    BY <2>5 DEF MainTask, ProxyCancels, DialDone, DialAbandoned, FirstTaskEnds, CloseLegs,
                Unregister, CloseArgs, closerVars, mainVars, waitVars
  <2>6. CASE TakeCommand
    BY <2>6 DEF TakeCommand, CommandTask, closerVars, mainVars
  <2>7. CASE Expire \/ LeaveEarly \/ FirstLook \/ Arm \/ SecondLook \/ WakeUp \/ WindowOver
             \/ EndSession
    BY <2>7 DEF Expire, LeaveEarly, FirstLook, Arm, SecondLook, WakeUp, WindowOver, EndSession,
                CommandTask, closerVars, mainVars, TypeOK
  <2>8. CASE Forwarding \/ UNCHANGED vars
    <3> UNCHANGED <<closerVars, mainVars, waitVars, cancelled, discarding>>
      BY <2>8 DEF Forwarding, Queue, ReleaseUnit, NotifyWaiters, StreamEnds, StreamStep, vars
    <3> QED
      BY DEF closerVars, mainVars, waitVars
  <2> QED
    BY <2>1, <2>3, <2>4, <2>5, <2>6, <2>7, <2>8 DEF Next, Closing, Waiting
<1> QED
  BY <1>1, <1>2, TypeCorrect, OneCloseHolds, PTL DEF Spec

(* Once close_after_draining runs, nothing but its own close is sent to    *)
(* the two legs, whichever task ends the session first (close_args).       *)
THEOREM ServedCloseSent == Spec => []ServedCloseIsSent
<1>1. CloseInv => ServedCloseIsSent
  BY DEF CloseInv
<1> QED
  BY <1>1, CloseInvHolds, PTL

-----------------------------------------------------------------------------
(* The gauge.  A queued byte is a pair of its stream and its place in the  *)
(* queue, so a sum over the streams is the size of a set.                  *)

LEMMA QueuedFinite ==
  ASSUME TypeOK
  PROVE  IsFiniteSet(QueuedBytes) /\ Cardinality(QueuedBytes) \in Nat
<1>1. IsFiniteSet(1..MaxQueued) /\ IsFiniteSet(Streams)
  BY CloseAssumption, FS_Interval
<1>2. IsFiniteSet(Streams \X (1..MaxQueued))
  BY <1>1, FS_Product
<1>3. IsFiniteSet(QueuedBytes)
  BY <1>2, FS_Subset DEF QueuedBytes
<1> QED
  BY <1>3, FS_CardinalityType

(* The bytes of one stream are as many as its queue says. *)
LEMMA BytesOfStream ==
  ASSUME TypeOK, NEW s \in Streams
  PROVE  Cardinality({b \in QueuedBytes : b[1] = s}) = queue[s]
<1> DEFINE T == {b \in QueuedBytes : b[1] = s}
           f == [k \in 1..queue[s] |-> <<s, k>>]
<1>1. queue[s] \in 0..MaxQueued /\ MaxQueued \in Nat
  BY CloseAssumption DEF TypeOK
<1>2. IsFiniteSet(1..queue[s]) /\ Cardinality(1..queue[s]) = queue[s]
  <2> DEFINE n == queue[s]
  <2>1. 1 \in Int /\ n \in Int /\ n \in Nat
    BY <1>1
  <2> HIDE DEF n
  <2>2. IsFiniteSet(1..n) /\ Cardinality(1..n) = IF 1 > n THEN 0 ELSE n - 1 + 1
    BY ONLY <2>1, FS_Interval
  <2>3. IsFiniteSet(1..n) /\ Cardinality(1..n) = n
    BY <2>1, <2>2
  <2> QED
    BY <2>3 DEF n
<1>3. f \in Bijection(1..queue[s], T)
  <2>1. \A k \in 1..queue[s] : f[k] \in T
    BY <1>1 DEF QueuedBytes
  <2>2. \A j, k \in 1..queue[s] : f[j] = f[k] => j = k
    OBVIOUS
  <2>3. \A b \in T : b[2] \in 1..queue[s] /\ f[b[2]] = b
    BY <1>1 DEF QueuedBytes
  <2>4. f = [k \in 1..queue[s] |-> f[k]]
    OBVIOUS
  <2> HIDE DEF T, f
  <2>5. f \in [1..queue[s] -> T]
    BY <2>1, <2>4
  <2> QED
    BY <2>2, <2>3, <2>5 DEF Bijection, Injection, Surjection, IsInjective
<1> QED
  BY <1>2, <1>3, FS_Bijection DEF ExistsBijection

(* Whatever charges and credits interleave, and however a stream drops its *)
(* queue, the gauge is the number of queued bytes (charge, credit, Drop):  *)
(* saturating_sub in credit never saturates.                               *)
THEOREM GaugeExactHolds == Spec => []GaugeExact
<1>1. Init => GaugeExact
  <2> SUFFICES ASSUME Init PROVE GaugeExact
    OBVIOUS
  <2>1. QueuedBytes = {}
    BY DEF Init, QueuedBytes
  <2> QED
    BY <2>1, FS_EmptySet DEF Init, GaugeExact
<1>2. TypeOK /\ GaugeExact /\ [Next]_vars => GaugeExact'
  <2> SUFFICES ASSUME TypeOK, GaugeExact, [Next]_vars PROVE GaugeExact'
    OBVIOUS
  <2>0. IsFiniteSet(QueuedBytes) /\ Cardinality(QueuedBytes) \in Nat
        /\ gauge = Cardinality(QueuedBytes) /\ MaxQueued \in Nat
        /\ queue \in [Streams -> 0..MaxQueued]
    BY QueuedFinite, CloseAssumption DEF GaugeExact, TypeOK
  <2>1. CASE UNCHANGED <<gauge, queue>>
    BY <2>1 DEF GaugeExact, QueuedBytes
  <2>2. ASSUME NEW s \in Streams, Queue(s)
        PROVE  GaugeExact'
    <3> DEFINE x == <<s, queue[s] + 1>>
    <3>1. queue[s] < MaxQueued /\ queue' = [queue EXCEPT ![s] = @ + 1] /\ gauge' = gauge + 1
      BY <2>2 DEF Queue
    <3>2. QueuedBytes' = QueuedBytes \cup {x} /\ x \notin QueuedBytes
      <4>1. x \in Streams \X (1..MaxQueued) /\ x \notin QueuedBytes
        BY <2>0, <3>1 DEF QueuedBytes
      <4>2. ASSUME NEW b \in Streams \X (1..MaxQueued)
            PROVE  b[2] <= queue'[b[1]] <=> b[2] <= queue[b[1]] \/ b = x
        <5>1. CASE b[1] = s
          BY <2>0, <3>1, <5>1
        <5>2. CASE b[1] # s
          BY <2>0, <3>1, <5>2
        <5> QED
          BY <5>1, <5>2
      <4> QED
        BY <4>1, <4>2 DEF QueuedBytes
    <3> QED
      BY <2>0, <3>1, <3>2, FS_AddElement DEF GaugeExact
  <2>3. ASSUME NEW s \in Streams, ReleaseUnit(s)
        PROVE  GaugeExact'
    <3> DEFINE x == <<s, queue[s]>>
    <3>1. queue[s] > 0 /\ queue' = [queue EXCEPT ![s] = @ - 1]
          /\ gauge' = (IF 1 <= gauge THEN gauge - 1 ELSE 0)
      BY <2>3 DEF ReleaseUnit, Credit
    <3>2. QueuedBytes' = QueuedBytes \ {x} /\ x \in QueuedBytes
      <4>1. x \in Streams \X (1..MaxQueued) /\ x \in QueuedBytes
        BY <2>0, <3>1 DEF QueuedBytes
      <4>2. ASSUME NEW b \in Streams \X (1..MaxQueued)
            PROVE  b[2] <= queue'[b[1]] <=> b[2] <= queue[b[1]] /\ b # x
        <5>1. CASE b[1] = s
          BY <2>0, <3>1, <5>1
        <5>2. CASE b[1] # s
          BY <2>0, <3>1, <5>2
        <5> QED
          BY <5>1, <5>2
      <4> QED
        BY <4>1, <4>2 DEF QueuedBytes
    <3>3. gauge # 0
      BY <2>0, <3>2, FS_EmptySet
    <3> HIDE DEF x
    <3>4. Cardinality(QueuedBytes') = Cardinality(QueuedBytes) - 1
      BY <2>0, <3>2, FS_RemoveElement
    <3> QED
      BY <2>0, <3>1, <3>3, <3>4 DEF GaugeExact
  <2>4. ASSUME NEW s \in Streams, StreamEnds(s)
        PROVE  GaugeExact'
    <3> DEFINE T == {b \in QueuedBytes : b[1] = s}
    <3>1. queue' = [queue EXCEPT ![s] = @ - queue[s]]
          /\ gauge' = (IF queue[s] <= gauge THEN gauge - queue[s] ELSE 0)
      BY <2>4 DEF StreamEnds, Credit
    <3>2. QueuedBytes' = QueuedBytes \ T
      <4>1. ASSUME NEW b \in Streams \X (1..MaxQueued)
            PROVE  b[2] <= queue'[b[1]] <=> b[2] <= queue[b[1]] /\ b[1] # s
        <5>1. CASE b[1] = s
          BY <2>0, <3>1, <5>1
        <5>2. CASE b[1] # s
          BY <2>0, <3>1, <5>2
        <5> QED
          BY <5>1, <5>2
      <4> QED
        BY <4>1 DEF QueuedBytes
    <3>3. Cardinality(T) = queue[s] /\ QueuedBytes \cap T = T /\ T \subseteq QueuedBytes
      BY BytesOfStream
    <3> HIDE DEF T
    <3>4. Cardinality(T) <= Cardinality(QueuedBytes)
      BY <2>0, <3>3, FS_Subset
    <3>5. Cardinality(QueuedBytes \ T) = Cardinality(QueuedBytes) - queue[s]
      <4>1. Cardinality(QueuedBytes \ T) = Cardinality(QueuedBytes) - Cardinality(QueuedBytes \cap T)
        BY ONLY <2>0, FS_Difference
      <4> QED
        BY <3>3, <4>1
    <3> QED
      BY <2>0, <3>1, <3>2, <3>3, <3>4, <3>5 DEF GaugeExact
  <2>5. CASE Closing \/ MainTask \/ ProxyCancels \/ Waiting \/ Expire
    <3>1. UNCHANGED <<gauge, queue>>
      BY <2>5 DEF Closing, Reach, Record, SendCommand, HookRequest, HookCancel, MainTask,
                  DialDone, DialAbandoned, FirstTaskEnds, CloseLegs, Unregister, ProxyCancels,
                  Waiting, TakeCommand, LeaveEarly, FirstLook, Arm, SecondLook, WakeUp,
                  WindowOver, EndSession, CommandTask, Expire, gaugeVars
    <3> QED
      BY <2>1, <3>1
  <2>6. ASSUME NEW s \in Streams, NotifyWaiters(s)
        PROVE  GaugeExact'
    BY <2>1, <2>6 DEF NotifyWaiters
  <2>7. CASE UNCHANGED vars
    BY <2>1, <2>7 DEF vars, gaugeVars
  <2> QED
    BY <2>2, <2>3, <2>4, <2>5, <2>6, <2>7 DEF Next, Forwarding
<1> QED
  BY <1>1, <1>2, TypeCorrect, PTL DEF Spec
=============================================================================
