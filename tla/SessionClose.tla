---------------------------- MODULE SessionClose ----------------------------
(***************************************************************************)
(* How one session ends: the close that the control plane or a hook asks   *)
(* for (SessionCloser in egress.rs, close_session in control.rs), the      *)
(* bounded window in which the streams' queues may drain (EgressGauge,     *)
(* close_after_draining), and the teardown of run_with_transport.          *)
(*                                                                         *)
(* The actors are threads: operators calling close_session, hooks closing  *)
(* from inside a stream, the session's main task, its command task, and    *)
(* the tasks of the streams, which outlive the main task.  Queued bytes    *)
(* are counted and nothing else of them is kept.                           *)
(***************************************************************************)
EXTENDS Integers, FiniteSets

CONSTANTS Operators,  \* callers of close_session
          Hooks,      \* hook sites that may answer CloseSession
          Streams,    \* forwarded streams of the session
          MaxQueued,  \* bound: bytes in one queue
          Nobody      \* an empty OnceLock; DEFAULT_CLOSE on the wire

ASSUME CloseAssumption ==
    /\ IsFiniteSet(Streams)
    /\ Operators \cap Hooks = {}
    /\ Nobody \notin Operators \union Hooks
    /\ MaxQueued \in Nat

VARIABLES
  phase,       \* of the main task: "dial", "forward", "ending", "over", "gone"
  cancelled,   \* the session's cancellation token
  request,     \* SessionCloser.request: whose close was recorded first
  sentClose,   \* whose pair the two legs were closed with: "none" before
  at,          \* at[c]: how far caller c has got, and its answer
  inbox,       \* the command channel: "open", "full" (a Close in it) or "shut"
  waiter,      \* the command task: where it stands in close_after_draining
  notified,    \* whether the waiter's Notified future has been notified
  expired,     \* whether the drain window has run out
  discarding,  \* EgressGauge.discarding
  gauge,       \* EgressGauge.queued
  queue,       \* queued bytes of each stream
  live,        \* streams whose task is still running
  notifying    \* streams between their decrement to zero and notify_waiters

closerVars == <<request, at>>
mainVars   == <<phase, sentClose>>
waitVars   == <<inbox, waiter, expired>>
gaugeVars  == <<gauge, queue, live, notifying>>
vars == <<closerVars, mainVars, waitVars, gaugeVars, cancelled, notified, discarding>>

Callers == Operators \union Hooks
Answers == {"idle", "reached", "recorded", "beaten", "ok", "refused", "late"}
Armed   == {"second", "asleep"}       \* the Notified future exists

-----------------------------------------------------------------------------
(* close_session, in its three steps: the registry lookup, the OnceLock    *)
(* and the command channel.                                                *)

Step(c, to) == at' = [at EXCEPT ![c] = to]

(* reach: a session that is not registered or already cancelled is refused.*)
Reach(o) ==
    /\ at[o] = "idle"
    /\ Step(o, IF phase # "gone" /\ ~cancelled THEN "reached" ELSE "refused")
    /\ UNCHANGED <<request, mainVars, waitVars, gaugeVars, cancelled, notified, discarding>>

(* A faulty variant, which OneCloseAccepted must catch: the last one wins. *)
OverwriteClose(c, lost) == request' = c /\ Step(c, "recorded")

(* SessionCloser::record and ::request: the first caller wins. *)
RecordClose(c, lost) ==
    IF request = Nobody THEN request' = c /\ Step(c, "recorded")
                        ELSE UNCHANGED request /\ Step(c, lost)

Record(o) ==
    /\ at[o] = "reached" /\ RecordClose(o, "refused")
    /\ UNCHANGED <<mainVars, waitVars, gaugeVars, cancelled, notified, discarding>>

(* SessionHandle::request: "late" is the refusal that keeps the pair. *)
SendCommand(o) ==
    /\ at[o] = "recorded" /\ o \in Operators
    /\ Step(o, IF inbox = "shut" THEN "late" ELSE "ok")
    /\ inbox' = IF inbox = "shut" THEN "shut" ELSE "full"
    /\ UNCHANGED <<request, mainVars, waiter, expired, gaugeVars, cancelled, notified, discarding>>

(* A hook's CloseSession records, reports, and only then cancels: a close  *)
(* that another one has beaten cancels too, as a hook does not ask to wait *)
(* out the drain window of the other.                                      *)
HookRequest(h) ==
    /\ at[h] = "idle" /\ phase # "dial" /\ live # {}
    /\ RecordClose(h, "beaten")
    /\ UNCHANGED <<mainVars, waitVars, gaugeVars, cancelled, notified, discarding>>

HookCancel(h) ==
    /\ at[h] \in {"recorded", "beaten"} /\ h \in Hooks
    /\ Step(h, IF at[h] = "recorded" THEN "ok" ELSE "refused") /\ cancelled' = TRUE
    /\ UNCHANGED <<request, mainVars, waitVars, gaugeVars, notified, discarding>>

-----------------------------------------------------------------------------
(* The main task: run, dial and the tail of run_with_transport.            *)

(* The dial's select! is biased: cancellation, then a close, then the relay.*)
DialDone ==
    /\ phase = "dial" /\ ~cancelled /\ inbox # "full"
    /\ phase' = "forward"
    /\ UNCHANGED <<sentClose, closerVars, waitVars, gaugeVars, cancelled, notified, discarding>>

(* cancelled_while_dialling and upstream_failed: the client is left to its *)
(* owner, and nobody is told a code.                                       *)
DialAbandoned ==
    /\ phase = "dial"
    /\ phase' = "over" /\ inbox' = "shut" /\ sentClose' = Nobody
    /\ UNCHANGED <<closerVars, waiter, expired, gaugeVars, cancelled, notified, discarding>>

(* The first forwarding task to finish, or to notice the cancellation.     *)
FirstTaskEnds ==
    /\ phase = "forward" /\ phase' = "ending" /\ cancelled' = TRUE
    /\ UNCHANGED <<sentClose, closerVars, waitVars, gaugeVars, notified, discarding>>

(* A faulty variant, which ServedCloseIsSent must catch: an unread pair.   *)
DefaultArgs == Nobody

CloseArgs == request                  \* SessionCloser::close_args

CloseLegs ==
    /\ phase = "ending" /\ phase' = "over" /\ sentClose' = CloseArgs
    /\ UNCHANGED <<closerVars, waitVars, gaugeVars, cancelled, notified, discarding>>

(* The frame is dropped and with it the guard of the registration.  The    *)
(* command task is aborted, which takes effect where it next awaits.       *)
Unregister ==
    /\ phase = "over" /\ phase' = "gone"
    /\ UNCHANGED <<sentClose, closerVars, waitVars, gaugeVars, cancelled, notified, discarding>>

(* Somebody outside cancels the session's token: the proxy shuts down.     *)
ProxyCancels ==
    /\ ~cancelled /\ cancelled' = TRUE
    /\ UNCHANGED <<closerVars, mainVars, waitVars, gaugeVars, notified, discarding>>

-----------------------------------------------------------------------------
(* The command task: serve_session_commands and close_after_draining.      *)

CommandTask(from, to) == /\ waiter = from /\ waiter' = to
                         /\ UNCHANGED <<closerVars, mainVars, gaugeVars, expired>>

TakeCommand ==
    /\ phase # "dial" /\ ~cancelled /\ inbox = "full"
    /\ CommandTask("idle", "first") /\ inbox' = "open"
    /\ UNCHANGED <<cancelled, notified, discarding>>

(* Both selects are biased to the cancellation, which leaves the queues to *)
(* the ordinary teardown; an abort takes effect at the same two awaits.    *)
LeaveEarly ==
    /\ phase # "dial" /\ (cancelled \/ phase = "gone")
    /\ \E from \in {"idle", "first", "asleep"} : CommandTask(from, "done")
    /\ inbox' = "shut"
    /\ UNCHANGED <<cancelled, notified, discarding>>

(* wait_idle looks, registers with the Notify, looks again and sleeps. *)
FirstLook ==
    /\ CommandTask("first", IF gauge = 0 THEN "drained" ELSE "arm")
    /\ UNCHANGED <<inbox, cancelled, notified, discarding>>

Arm ==
    /\ CommandTask("arm", "second")
    /\ notified' = FALSE
    /\ UNCHANGED <<inbox, cancelled, discarding>>

(* A faulty variant, which NoLostWakeup must catch: no second look. *)
SkipSecondLook ==
    /\ CommandTask("second", "asleep")
    /\ UNCHANGED <<inbox, cancelled, notified, discarding>>

SecondLook ==
    /\ CommandTask("second", IF gauge = 0 THEN "drained" ELSE "asleep")
    /\ UNCHANGED <<inbox, cancelled, notified, discarding>>

WakeUp ==
    /\ notified /\ CommandTask("asleep", "first")
    /\ UNCHANGED <<inbox, cancelled, notified, discarding>>

Expire ==
    /\ waiter \in {"first", "arm", "second", "asleep"} /\ ~expired /\ expired' = TRUE
    /\ UNCHANGED <<closerVars, mainVars, gaugeVars, inbox, waiter, cancelled, notified, discarding>>

(* A faulty variant, which ServedCloseEnds must catch: no deadline. *)
NoDeadline == FALSE /\ UNCHANGED vars

(* The deadline wins: what is still queued is going to be abandoned. *)
WindowOver ==
    /\ expired /\ CommandTask("asleep", "drained")
    /\ discarding' = (discarding \/ gauge > 0)
    /\ UNCHANGED <<inbox, cancelled, notified>>

(* The cancellation is unconditional and comes last. *)
EndSession ==
    /\ CommandTask("drained", "done") /\ cancelled' = TRUE /\ inbox' = "shut"
    /\ UNCHANGED <<notified, discarding>>

-----------------------------------------------------------------------------
(* The streams.  A credit that brings the gauge to zero is followed by     *)
(* notify_waiters, and other threads may run between the two.              *)

Running(s) == s \in live /\ s \notin notifying

StreamStep == UNCHANGED <<closerVars, mainVars, waitVars, cancelled, discarding>>

Queue(s) ==
    /\ phase # "dial" /\ Running(s) /\ queue[s] < MaxQueued
    /\ queue' = [queue EXCEPT ![s] = @ + 1] /\ gauge' = gauge + 1
    /\ StreamStep /\ UNCHANGED <<live, notifying, notified>>

(* A faulty variant, which GaugeExact must catch: a queue that is dropped  *)
(* without its credit.                                                     *)
LeakyCredit(s, n) ==
    /\ queue' = [queue EXCEPT ![s] = @ - n]
    /\ gauge' = IF n = queue[s] /\ n > 1 THEN gauge ELSE gauge - n
    /\ notifying' = IF n > 0 /\ gauge' = 0 THEN notifying \union {s} ELSE notifying

Credit(s, n) ==
    /\ queue' = [queue EXCEPT ![s] = @ - n]
    /\ gauge' = IF n <= gauge THEN gauge - n ELSE 0
    /\ notifying' = IF n > 0 /\ gauge' = 0 THEN notifying \union {s} ELSE notifying

(* A unit leaves the queue. *)
ReleaseUnit(s) ==
    /\ Running(s) /\ queue[s] > 0 /\ Credit(s, 1)
    /\ StreamStep /\ UNCHANGED <<live, notified>>

NotifyWaiters(s) ==
    /\ s \in notifying /\ notifying' = notifying \ {s}
    /\ notified' = (notified \/ waiter \in Armed)
    /\ StreamStep /\ UNCHANGED <<gauge, queue, live>>

(* The stream ends, by itself or in its cancel branch, and drops its queue.*)
StreamEnds(s) ==
    /\ phase # "dial" /\ Running(s)
    /\ Credit(s, queue[s]) /\ live' = live \ {s}
    /\ StreamStep /\ UNCHANGED notified

-----------------------------------------------------------------------------
Init ==
    /\ phase = "dial" /\ cancelled = FALSE /\ request = Nobody /\ sentClose = "none"
    /\ at = [c \in Callers |-> "idle"]
    /\ inbox = "open" /\ waiter = "idle" /\ notified = FALSE /\ expired = FALSE
    /\ discarding = FALSE /\ gauge = 0 /\ queue = [s \in Streams |-> 0]
    /\ live = Streams /\ notifying = {}

Closing == \/ \E o \in Operators : Reach(o) \/ Record(o) \/ SendCommand(o)
           \/ \E h \in Hooks : HookRequest(h) \/ HookCancel(h)
MainTask == DialDone \/ DialAbandoned \/ FirstTaskEnds \/ CloseLegs \/ Unregister
Waiting == \/ TakeCommand \/ LeaveEarly \/ FirstLook \/ Arm \/ SecondLook \/ WakeUp
           \/ WindowOver \/ EndSession
Forwarding == \E s \in Streams :
    Queue(s) \/ ReleaseUnit(s) \/ NotifyWaiters(s) \/ StreamEnds(s)

Next == Closing \/ MainTask \/ ProxyCancels \/ Waiting \/ Expire \/ Forwarding

Spec == Init /\ [][Next]_vars

(* The command task and the thread of a notification keep running, and a   *)
(* cancelled session is taken down: every forwarding task watches the      *)
(* token.  wait_idle's select! picks at random, so a deadline that is past *)
(* each time is once picked.  Nothing is assumed of the streams, the       *)
(* callers or time.                                                        *)
FairSpec == /\ Spec /\ WF_vars(Waiting) /\ SF_vars(WindowOver)
            /\ WF_vars(cancelled /\ FirstTaskEnds) /\ WF_vars(CloseLegs) /\ WF_vars(Unregister)
            /\ \A s \in Streams : WF_vars(NotifyWaiters(s))

-----------------------------------------------------------------------------
TypeOK ==
    /\ phase \in {"dial", "forward", "ending", "over", "gone"}
    /\ {cancelled, notified, expired, discarding} \subseteq BOOLEAN
    /\ request \in Callers \union {Nobody}
    /\ sentClose \in Callers \union {Nobody, "none"}
    /\ at \in [Callers -> Answers]
    /\ inbox \in {"open", "full", "shut"}
    /\ waiter \in {"idle", "first", "arm", "second", "asleep", "drained", "done"}
    /\ gauge \in Nat /\ queue \in [Streams -> 0..MaxQueued]
    /\ live \subseteq Streams /\ notifying \subseteq Streams

(* A queued byte: its stream and its place in the queue. *)
QueuedBytes == {b \in Streams \X (1..MaxQueued) : b[2] <= queue[b[1]]}

(* The gauge counts the queued bytes at every moment, also those that      *)
(* streams dropped: a drift upwards makes every later close wait out its   *)
(* window, one downwards ends a drain too early (charge, credit, Drop).    *)
GaugeExact == gauge = Cardinality(QueuedBytes)

(* A drain that sleeps although everything has drained is about to be      *)
(* woken: the emptying that falls between wait_idle's two looks is not a   *)
(* lost wakeup that costs the caller its whole window.                     *)
NoLostWakeup == waiter = "asleep" /\ gauge = 0 => notified \/ notifying # {}

(* Of all the operators and hooks that race to close a session one is      *)
(* accepted, and its pair stays the recorded one (SessionCloser).          *)
OneCloseAccepted ==
    \A c \in Callers : at[c] \in {"recorded", "ok", "late"} => request = c

(* A close whose window was opened is the one both legs are closed with,   *)
(* however the session comes to its end meanwhile (close_args).            *)
Draining == waiter \in {"first", "arm", "second", "asleep", "drained"} \/ discarding
ServedCloseIsSent ==
    Draining => /\ request \in Operators
                /\ sentClose \in {"none", request}

(* What close_session documents: a call that was accepted closes both legs *)
(* with its code and its reason.                                           *)
AcceptedCloseIsSent ==
    \A o \in Operators : at[o] = "ok" /\ phase = "gone" => sentClose = o

(* A close that was taken up ends the session, if time passes, even if the *)
(* queues never drain (close_after_draining).                              *)
ServedCloseEnds == WF_vars(Expire) => (waiter = "first" ~> phase = "gone")

(* It ends without the help of its deadline once the queues stay empty.    *)
DrainedCloseEnds == <>[](gauge = 0) => (waiter = "first" ~> phase = "gone")
=============================================================================
