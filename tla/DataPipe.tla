------------------------------ MODULE DataPipe ------------------------------
(***************************************************************************)
(* One forwarded data stream of moqtap-proxy: the loop pipe_data_framed    *)
(* (session.rs), its PendingQueue (egress.rs) and the ledger of effects    *)
(* the hook is still owed (exec.rs DeferredEffects).                       *)
(*                                                                         *)
(* The source sends units 1, 2, 3, ...; the loop reads them in chunks and  *)
(* shows each to the hook, which decides what becomes of it.  The loop is  *)
(* one task: `pc' says which await it stands at, and between two awaits    *)
(* the clock, the two peers, the gates and the rest of the session move.   *)
(* The arm bodies of select! watch nothing but what they await, which is   *)
(* why a drain has control points of its own.  Payload bytes are reduced   *)
(* to the unit they belong to: a unit is one byte long, an elided slot and *)
(* a reset are empty.  What the shaper answers is left open.               *)
(***************************************************************************)
EXTENDS Integers, Sequences, FiniteSets

CONSTANTS
  Units,      \* bound: units the source sends
  MaxChunk,   \* bound: units one read returns
  SrcEnds,    \* how the source may end: {"fin", "reset"} or fewer
  Partials,   \* whether the source's last object may be cut short
  Actions,    \* what the hook may do with a unit
  EndActions, \* what the hook may do at the stream's end
  Faults,     \* of {"cancel", "discard", "lost", "stop", "operator"}
  Delays,     \* the delays a hook asks for
  MaxHold,    \* EgressConfig::max_hold
  MaxBytes,   \* EgressConfig::max_pending_bytes
  MaxUnits,   \* MAX_PENDING_UNITS
  Shaped,     \* whether the stream has a scheduler
  Overflow,   \* "Block", "DropTail" or "ResetStream"
  Depth,      \* depth_bytes and depth_objects of the profile
  OnExpiry,   \* "Deliver" or "ResetStream"
  MaxClock    \* bound: the last instant

ASSUME PipeAssumption ==
    /\ Units \in Nat /\ MaxChunk \in Nat \ {0}
    /\ SrcEnds \subseteq {"fin", "reset"} /\ Partials \subseteq BOOLEAN /\ FALSE \in Partials
    /\ Actions \subseteq {"Pass", "Drop", "Delay", "DelayDrop", "Hold", "Truncate",
                          "Reset", "Close", "Unshown", "Reject", "FixupLost"}
    /\ EndActions \subseteq {"Pass", "Reset", "Close"}
    /\ Faults \subseteq {"cancel", "discard", "lost", "stop", "operator"}
    /\ Delays \subseteq Nat /\ MaxHold \in Nat \ {0}
    /\ MaxBytes \in Nat \ {0} /\ MaxUnits \in Nat \ {0} /\ Depth \in Nat \ {0}
    /\ Shaped \in BOOLEAN /\ MaxClock \in Nat
    /\ Overflow \in {"Block", "DropTail", "ResetStream"}
    /\ OnExpiry \in {"Deliver", "ResetStream"}

VARIABLES
  clock, sent, srcEnd,         \* time, and what the source has done
  holdGate, shapeGate,         \* the hook's gate, the discipline's gate
  cancelled, discarding, lost, \* the session going down
  stopped, closing,            \* the destination's STOP_SENDING, the closer
  pc, after, now,              \* where the task is, what follows its drain
  fed, seen, partial,          \* the framer: units fed, units polled, a tail
  queue, ledger, deadline,     \* PendingQueue, DeferredEffects, head_deadline
  parked, observable,          \* shape_parked, reset_observable
  wire, dest, srcStop,         \* what both peers can see
  dropped, reported, late,     \* elided units, QueuedBytesAtTeardown, and
                               \* what teardown handed to the transport
  exit                         \* why the loop returned

env    == <<clock, sent, srcEnd, holdGate, cancelled, discarding, lost, stopped>>
framer == <<fed, seen, partial>>
queued == <<queue, ledger, deadline, parked, shapeGate>>
ends   == <<wire, dest, srcStop, dropped, reported, late>>
task   == <<pc, after, now, exit>>
vars   == <<env, closing, task, framer, queued, observable, ends>>

Never == -1                       \* head_deadline = None
Slots == [id : 1..Units + 1, kind : {"bytes", "raw", "elided", "cut", "reset"},
          due : Nat, gated : BOOLEAN, expires : Nat]

Unit(id, kind, due, gated) ==
    [id |-> id, kind |-> kind, due |-> due, gated |-> gated, expires |-> clock + MaxHold]

Terminal(u) == u.kind \in {"cut", "reset"}
Loaded(u)   == u.kind \in {"bytes", "raw", "cut"}
IdsOf(q)    == {q[i].id : i \in {j \in DOMAIN q : Loaded(q[j])}}
Bytes(q)    == Cardinality({j \in DOMAIN q : Loaded(q[j])})

(* A faulty variant, which QueueBounded must catch: the read is never shut. *)
NeverShut == TRUE

(* accepts_more: the engine's budget and, under Block, the profile's depth. *)
AcceptsMore ==
    /\ Bytes(queue) < MaxBytes /\ Len(queue) < MaxUnits
    /\ Shaped /\ Overflow = "Block" => Bytes(queue) < Depth /\ Len(queue) < Depth

(* admit, for a unit that has arrived. *)
Fits == Len(queue) < Depth /\ Bytes(queue) + 1 <= Depth

(* A faulty variant, which WireOrder must catch: the queue is not looked at. *)
NeverBusy == Shaped

Busy == queue # <<>> \/ Shaped             \* Engine::queue_is_busy

(* head_release: while the shaper holds the head only its gate counts, as  *)
(* the unit's own gate may have fired long ago.                            *)
OwnGate == Head(queue).gated /\ holdGate

(* A faulty variant, which RefusalIsAWait must catch: the unit's own gate. *)
AlwaysOwnGate == OwnGate

WakeGate == IF parked THEN shapeGate = "open" ELSE OwnGate
Ready    == queue # <<>> /\ (deadline <= clock \/ WakeGate)

WriteFails == stopped \/ lost

(* What a failed write reports: a closed connection answers with its loss  *)
(* before it looks at the stream, so a STOP_SENDING that came first is not *)
(* seen by a write any more.                                               *)
WriteError == IF lost THEN "lost" ELSE "stopped"

-----------------------------------------------------------------------------
(* Steps of the queue.                                                     *)

(* Faulty variants, which HeadArmed, LedgerMatches and StopAccounted must  *)
(* catch: no deadline for the next head, a ledger entry only where one is  *)
(* owed, and a stop that reports nothing.                                  *)
LazyArm(q) == Never
SparsePush(u, owed) ==
    /\ queue'  = Append(queue, u)
    /\ ledger' = IF owed THEN Append(ledger, u.id) ELSE ledger
    /\ deadline' = IF queue = <<>> THEN u.due ELSE deadline
    /\ UNCHANGED <<parked, shapeGate>>
NoneStranded(rest) == {}

ArmFor(q) == IF q = <<>> THEN Never ELSE Head(q).due

(* push, and the ledger entry that goes with it. *)
Push(u, owed) ==
    /\ queue'  = Append(queue, u)
    /\ ledger' = Append(ledger, IF owed THEN u.id ELSE 0)
    /\ deadline' = IF queue = <<>> THEN u.due ELSE deadline
    /\ UNCHANGED <<parked, shapeGate>>

PopHead ==
    /\ queue' = Tail(queue)
    /\ deadline' = ArmFor(Tail(queue))
    /\ parked' = FALSE /\ shapeGate' = "none"

Clear ==
    /\ queue' = <<>> /\ ledger' = <<>> /\ deadline' = Never
    /\ parked' = FALSE /\ shapeGate' = "none"

(* The loop returns: a SendStream that is dropped open sends a FIN, and a  *)
(* dropped RecvStream stops the source with code 0.                        *)
Return(why, d, stop) ==
    /\ pc' = "over" /\ exit' = why
    /\ dest' = IF d = "open" THEN "fin" ELSE d
    /\ srcStop' = stop
    /\ UNCHANGED <<after, now>>

Stranded(rest) == IdsOf(rest)

(* propagate_stop mirrors a STOP_SENDING and reports what was queued; any  *)
(* other failure is left to the default teardown, and nothing is reported. *)
(* (The hook also hears of the stop; whatever it answers can only end a    *)
(* session whose stream is over here.)                                     *)
PropagateStop(err, rest) ==
    /\ reported' = IF err = "stopped" THEN reported \union Stranded(rest) ELSE reported
    /\ Return(err, dest, IF err = "stopped" THEN "mirrored" ELSE "zero")
    /\ Clear
    /\ UNCHANGED <<wire, dropped, late>>

Write(id) == wire' = Append(wire, id)

-----------------------------------------------------------------------------
(* The world around the task.                                              *)

Pipe == <<closing, task, framer, queued, observable, ends>>

(* The clock stops at MaxClock, or later for a unit that still waits. *)
Tick == /\ clock < MaxClock \/ clock < deadline
        /\ clock' = clock + 1
        /\ UNCHANGED <<sent, srcEnd, holdGate, cancelled, discarding, lost, stopped, Pipe>>

SrcSend == /\ sent < Units /\ srcEnd = "open" /\ sent' = sent + 1
           /\ UNCHANGED <<clock, srcEnd, holdGate, cancelled, discarding, lost, stopped, Pipe>>

SrcFinish == /\ srcEnd = "open" /\ srcEnd' \in SrcEnds
             /\ UNCHANGED <<clock, sent, holdGate, cancelled, discarding, lost, stopped, Pipe>>

OpenHoldGate == /\ ~holdGate /\ holdGate' = TRUE
                /\ UNCHANGED <<clock, sent, srcEnd, cancelled, discarding, lost, stopped, Pipe>>

(* A wake of the scheduler: whoever makes this class eligible. *)
OpenShapeGate == /\ shapeGate = "shut" /\ shapeGate' = "open"
                 /\ UNCHANGED <<env, closing, task, framer, queue, ledger, deadline,
                                parked, observable, ends>>

(* The session ends: at once, or after a close spent its drain window.     *)
Cancel == /\ ~cancelled /\ cancelled' = TRUE
          /\ \/ "cancel" \in Faults /\ UNCHANGED discarding
             \/ "discard" \in Faults /\ discarding' = TRUE
          /\ UNCHANGED <<clock, sent, srcEnd, holdGate, lost, stopped, Pipe>>

(* run_with_transport closes both legs without waiting for this task.      *)
LoseTransport == /\ "lost" \in Faults /\ cancelled /\ ~lost /\ lost' = TRUE
                 /\ UNCHANGED <<clock, sent, srcEnd, holdGate, cancelled, discarding,
                                stopped, Pipe>>

(* A closed connection takes in no STOP_SENDING. *)
StopSending == /\ "stop" \in Faults /\ ~stopped /\ ~lost /\ stopped' = TRUE
               /\ UNCHANGED <<clock, sent, srcEnd, holdGate, cancelled, discarding,
                              lost, Pipe>>

(* Nothing more can be observed of a loop that has returned. *)
World == /\ pc # "over"
         /\ \/ Tick \/ SrcSend \/ SrcFinish \/ OpenHoldGate \/ OpenShapeGate
            \/ Cancel \/ LoseTransport \/ StopSending

-----------------------------------------------------------------------------
(* select!: the read branch.                                               *)

(* Some bytes: whole units, and perhaps the beginning of one more. *)
ReadChunk ==
    /\ pc = "select" /\ AcceptsMore /\ srcEnd # "reset"
    /\ \E n \in 1..MaxChunk, p \in Partials :
          /\ fed + n <= sent
          /\ fed' = fed + n /\ partial' = p
    /\ pc' = "frame"
    /\ UNCHANGED <<env, closing, after, now, exit, seen, queued, observable, ends>>

(* The framer wants more: back to select!. *)
EndChunk ==
    /\ pc = "frame" /\ seen = fed /\ pc' = "select"
    /\ UNCHANGED <<env, closing, after, now, exit, framer, queued, observable, ends>>

Id == seen + 1

(* A faulty variant, which TypeOK must catch: polled without anything fed. *)
GreedyPoll(as) == /\ pc = "frame" /\ as \cap Actions # {} /\ seen' = seen + 1
                  /\ UNCHANGED <<fed, partial, observable>>

Polled(as) == /\ pc = "frame" /\ seen < fed /\ as \cap Actions # {} /\ seen' = seen + 1
              /\ UNCHANGED <<fed, partial, observable>>

(* The profile's admission lets an object through to the hook.  DropTail   *)
(* admits one that the framer cannot elide, so it never rules one out.     *)
Admitted == ~Shaped \/ Fits \/ Overflow # "ResetStream"

(* A unit written in the read arm. *)
WriteInline ==
    \/ /\ ~WriteFails /\ Write(Id)
       /\ UNCHANGED <<queued, task, dest, srcStop, dropped, reported, late>>
    \/ WriteFails /\ PropagateStop(WriteError, queue)

(* Pass, Replace and every refused action: commit_now writes at once only  *)
(* when nothing is queued and nothing is paced.                            *)
PassUnit ==
    /\ Polled({"Pass"}) /\ Admitted
    /\ IF Busy THEN Push(Unit(Id, "bytes", clock, FALSE), FALSE) /\ UNCHANGED <<ends, task>>
               ELSE WriteInline
    /\ UNCHANGED <<env, closing>>

(* Drop: the unit leaves an ordering slot if anything is queued. *)
DropUnit ==
    /\ Polled({"Drop"}) /\ Admitted
    /\ dropped' = dropped \union {Id}
    /\ IF Busy THEN Push(Unit(Id, "elided", clock, FALSE), FALSE) ELSE UNCHANGED queued
    /\ UNCHANGED <<env, closing, task, wire, dest, srcStop, reported, late>>

(* Delay { by, then: Pass | Drop }, clamped at max_hold. *)
DelayUnit ==
    /\ Polled({"Delay", "DelayDrop"}) /\ Admitted
    /\ \E by \in Delays, then \in {"Delay", "DelayDrop"} \cap Actions :
          LET due == clock + (IF by <= MaxHold THEN by ELSE MaxHold)
          IN  /\ Push(Unit(Id, IF then = "Delay" THEN "bytes" ELSE "elided", due, FALSE), TRUE)
              /\ dropped' = IF then = "Delay" THEN dropped ELSE dropped \union {Id}
    /\ UNCHANGED <<env, closing, task, wire, dest, srcStop, reported, late>>

(* Hold { gate, then: Pass }: its deadline is the max_hold ceiling. *)
HoldUnit ==
    /\ Polled({"Hold"}) /\ Admitted
    /\ Push(Unit(Id, "bytes", clock + MaxHold, TRUE), TRUE)
    /\ UNCHANGED <<env, closing, task, ends>>

(* Truncate and ResetStream queue a terminal, then drain up to it. *)
TerminateUnit ==
    /\ Polled({"Truncate", "Reset"}) /\ Admitted
    /\ \E k \in {"cut", "reset"} :
          /\ k = "cut" => "Truncate" \in Actions
          /\ k = "reset" => "Reset" \in Actions
          /\ Push(Unit(Id, k, clock, FALSE), FALSE)
    /\ pc' = "drain" /\ after' = "terminal"
    /\ UNCHANGED <<env, closing, now, exit, ends>>

(* CloseSession cancels the session.  The first close ends the loop where  *)
(* it stands; a later one is refused and its unit is passed.               *)
CloseUnit ==
    /\ Polled({"Close"}) /\ Admitted
    /\ cancelled' = TRUE /\ closing' = TRUE
    /\ IF ~closing
       THEN /\ Return("hookClose", dest, "zero")
            /\ Clear /\ UNCHANGED <<wire, dropped, reported, late>>
       ELSE IF Busy THEN Push(Unit(Id, "bytes", clock, FALSE), FALSE) /\ UNCHANGED <<ends, task>>
                    ELSE WriteInline
    /\ UNCHANGED <<clock, sent, srcEnd, holdGate, discarding, lost, stopped>>

(* A faulty variant, which WireOrder must catch: the bytes the hook is not *)
(* shown are written past the queue.                                       *)
InlineUnshown == Polled({"Unshown"}) /\ WriteInline /\ UNCHANGED <<env, closing>>

(* A header, an oversized object or a bypassed stream's bytes.  A shaped   *)
(* stream queues them (enqueue_unshown), another drains what is queued and *)
(* then writes them (write_in_order).                                      *)
UnshownUnit ==
    /\ Polled({"Unshown"})
    /\ \/ /\ Shaped /\ Push(Unit(Id, "raw", clock, FALSE), FALSE) /\ UNCHANGED <<ends, task>>
       \/ /\ ~Shaped /\ queue = <<>> /\ WriteInline
       \/ /\ ~Shaped /\ queue # <<>>
          /\ pc' = "drain" /\ after' = "unit"
          /\ UNCHANGED <<now, exit, queued, ends>>
    /\ UNCHANGED <<env, closing>>

(* The stream is given up: the hook rejects its header, the framer loses   *)
(* an elision's fixup, or an object overflows a ResetStream profile.       *)
GiveUp(why, stop) ==
    /\ Clear /\ Return(why, "reset", stop)
    /\ UNCHANGED <<env, closing, wire, dropped, reported, late>>

RejectHeader  == Polled({"Reject"}) /\ Id = 1 /\ GiveUp("rejected", "rejected")
FixupLost     == Polled({"FixupLost"}) /\ dropped # {} /\ GiveUp("fixupLost", "zero")
OverflowReset == /\ Polled(Actions) /\ Shaped /\ ~Fits /\ Overflow = "ResetStream"
                 /\ GiveUp("overflow", "zero")

(* An object that overflows a DropTail profile is elided before the hook   *)
(* sees it.                                                                *)
OverflowDrop ==
    /\ Polled(Actions) /\ Shaped /\ ~Fits /\ Overflow = "DropTail"
    /\ dropped' = dropped \union {Id}
    /\ UNCHANGED <<env, closing, task, queued, wire, dest, srcStop, reported, late>>

HandleUnit == \/ PassUnit \/ DropUnit \/ DelayUnit \/ HoldUnit \/ TerminateUnit
              \/ CloseUnit \/ UnshownUnit \/ RejectHeader \/ FixupLost
              \/ OverflowReset \/ OverflowDrop

-----------------------------------------------------------------------------
(* select!: the release branch, and the batches of a drain.                *)

(* wait_release resolves on the deadline, the gate or the cancellation.    *)
WakeRelease ==
    /\ pc = "select" /\ queue # <<>> /\ (Ready \/ cancelled)
    /\ pc' = "release" /\ now' = clock
    /\ UNCHANGED <<env, closing, after, exit, framer, queued, observable, ends>>

(* A faulty variant, which CancelEnds must catch: a drain that does not    *)
(* watch for the cancellation.                                             *)
DeafDrain == FALSE

DrainCancelled == cancelled

(* drain_honouring_release_times: its select! is biased to cancellation.   *)
WakeDrain ==
    /\ pc = "drain" /\ Ready /\ ~DrainCancelled
    /\ pc' = "drainBatch" /\ now' = clock
    /\ UNCHANGED <<env, closing, after, exit, framer, queued, observable, ends>>

InBatch == pc \in {"release", "drainBatch"}
BatchOver == /\ pc' = IF pc = "release" THEN "select" ELSE "drain"
             /\ UNCHANGED <<after, now, exit>>

(* A faulty variant, which FinEnds must catch: a hold without its ceiling. *)
UnboundedHold == queue # <<>> /\ (IF Head(queue).gated THEN holdGate
                                                       ELSE Head(queue).due <= now)

HeadDue == queue # <<>> /\ (Head(queue).due <= now \/ OwnGate)
Overdue == Shaped /\ ~Terminal(Head(queue)) /\ now >= Head(queue).expires

EndBatch ==
    /\ InBatch /\ ~HeadDue /\ BatchOver
    /\ UNCHANGED <<env, closing, framer, queued, observable, ends>>

(* The scheduler refuses the head: the bucket names an instant, or the     *)
(* discipline a gate, with the clamp as the last resort.  Bytes no rule    *)
(* can see are never refused, and an empty slot never by a bucket.         *)
RefuseHead ==
    LET u == Head(queue)
    IN  /\ InBatch /\ HeadDue /\ Shaped /\ ~Overdue /\ u.kind \in {"bytes", "elided"}
        /\ \/ /\ u.kind = "bytes" /\ deadline' \in now + 1 .. u.expires
              /\ shapeGate' = "none"
           \/ deadline' = u.expires /\ shapeGate' = "shut"
        /\ parked' = TRUE
        /\ BatchOver
        /\ UNCHANGED <<env, closing, framer, queue, ledger, observable, ends>>

(* A write failed with a unit in hand.  Only the two drains of the FIN     *)
(* path return without telling propagate_stop.                             *)
WriteFailed ==
    IF pc = "drainBatch" /\ after \in {"fin", "finTerminal"}
    THEN /\ Return("finFailed", dest, "zero") /\ Clear
         /\ UNCHANGED <<wire, dropped, reported, late>>
    ELSE PropagateStop(WriteError, Tail(queue))

(* pop_next_due yields the head and write_unit writes it.  The ledger pays *)
(* one entry back per released unit; a drain settles it as a whole.        *)
ReleaseHead ==
    LET u == Head(queue)
    IN  /\ InBatch /\ HeadDue /\ (Overdue => OnExpiry = "Deliver")
        /\ \/ /\ Loaded(u) /\ WriteFails /\ WriteFailed
           \/ /\ Loaded(u) => ~WriteFails
              /\ wire' = IF Loaded(u) THEN Append(wire, u.id) ELSE wire
              /\ IF Terminal(u)
                 THEN Clear /\ Return("terminated", "reset", "zero")
                 ELSE /\ PopHead
                      /\ ledger' = IF pc = "release" THEN Tail(ledger) ELSE ledger
                      /\ UNCHANGED <<task, dest, srcStop>>
              /\ UNCHANGED <<dropped, reported, late>>
        /\ UNCHANGED <<env, closing, framer, observable>>

(* expire_head under ResetStream: the queue becomes one reset, and with it *)
(* the stream is over.                                                     *)
ExpireHead ==
    /\ InBatch /\ HeadDue /\ Overdue /\ OnExpiry = "ResetStream"
    /\ GiveUp("expired", "zero")
    /\ UNCHANGED <<framer, observable>>

-----------------------------------------------------------------------------
(* drain_ignoring_release_times: the front is written until a terminal, an *)
(* error or the end, unless a spent drain window has given the bytes up.   *)
(* The teardown flush of a queue q is n units long.                        *)

FlushEnd(q) ==
    LET t == {i \in DOMAIN q : Terminal(q[i])}
    IN  IF t = {} THEN Len(q) ELSE CHOOSE i \in t : \A j \in t : i <= j

FlushLengths(q) ==
    IF discarding THEN {0}
    ELSE {n \in 0..FlushEnd(q) :
             /\ n < FlushEnd(q) => Loaded(q[n + 1]) /\ Faults \cap {"stop", "lost"} # {}
             /\ WriteFails => \A i \in 1..n : ~Loaded(q[i])}

(* What is written of them: the k-th payload is the k-th loaded slot. *)
Rank(q, i) == Cardinality({j \in 1..i : Loaded(q[j])})
Written(q, n) ==
    [k \in 1..Rank(q, n) |-> q[CHOOSE i \in 1..n : Loaded(q[i]) /\ Rank(q, i) = k].id]
Terminated(q, n) == n > 0 /\ Terminal(q[n])
Broken(q, n)     == ~discarding /\ n < FlushEnd(q)       \* a write of it failed

(* Faulty variants, which TeardownCountsAll and NeverSilentlyGone must     *)
(* catch: only what is still queued, and only what was handed over.        *)
ResidueOnly(q, n) == IF Terminated(q, n) THEN {} ELSE IdsOf(SubSeq(q, n + 1, Len(q)))
FlushedOnly(q, n) == IdsOf(SubSeq(q, 1, n))

(* unconfirmed_bytes: what was handed over and what is still queued. *)
Unconfirmed(q, n) == IF Terminated(q, n) THEN IdsOf(SubSeq(q, 1, n)) ELSE IdsOf(q)

(* drain_pending is cancelled while it waits for a release time. *)
CancelDrain ==
    /\ pc = "drain" /\ queue # <<>> /\ DrainCancelled
    /\ \E n \in FlushLengths(queue) :
          /\ wire' = wire \o Written(queue, n)
          /\ late' = late \union IdsOf(SubSeq(queue, 1, n))
          /\ IF Terminated(queue, n)
             THEN Return("terminated", "reset", "zero") /\ UNCHANGED reported
             ELSE /\ Return("drainCancelled", dest, "zero")
                  /\ reported' = reported \union Unconfirmed(queue, n)
    /\ Clear
    /\ UNCHANGED <<env, closing, framer, observable, dropped>>

(* A faulty variant, which FinIsComplete must catch: the tail is lost. *)
ForgottenTail == <<>>

(* ObjectFramer::finish: what is buffered of an object that was cut short. *)
FramerTail == IF partial THEN <<fed + 1>> ELSE <<>>

(* The cancel branch of select!: flush, report, then what the framer holds.*)
CancelBranch ==
    /\ pc = "select" /\ cancelled
    /\ \E n \in FlushLengths(queue) :
          LET ended == Terminated(queue, n)
              tail  == IF ended \/ WriteFails \/ Broken(queue, n)
                       THEN <<>> ELSE FramerTail
          IN  /\ wire' = wire \o Written(queue, n) \o tail
              /\ late' = late \union IdsOf(SubSeq(queue, 1, n)) \union {tail[i] : i \in DOMAIN tail}
              /\ reported' = reported \union Unconfirmed(queue, n)
              /\ Return("cancelled", IF ended THEN "reset" ELSE dest, "zero")
    /\ Clear
    /\ UNCHANGED <<env, closing, framer, observable, dropped>>

(* Faulty variants, which ResetEnds and ResetIsMirrored must catch: the    *)
(* source is watched only while it is read, and only a terminal resets.    *)
ReadOnly == AcceptsMore
TerminalOnly(end, q, n) == Terminated(q, n)

(* observe_source: a shut read watches for the reset alone. *)
SourceWatched == AcceptsMore \/ observable
DestReset(end, q, n) == end # "Reset" \/ Terminated(q, n)

(* propagate_reset: the hook hears of it, what is queued goes out, and the *)
(* destination is reset.  A terminal of the hook takes the reset's place.  *)
(* A read that fails because the transport is lost takes the same path,    *)
(* with a code of the proxy's own.                                         *)
MirrorReset ==
    /\ pc = "select" /\ (srcEnd = "reset" \/ lost) /\ SourceWatched
    /\ \E end \in EndActions :
          LET q == IF end = "Reset" THEN Append(queue, Unit(Id, "reset", clock, FALSE))
                                    ELSE queue
          IN  /\ \E n \in FlushLengths(q) :
                    /\ wire' = wire \o Written(q, n)
                    /\ late' = late \union IdsOf(SubSeq(q, 1, n))
                    /\ reported' = reported \union Unconfirmed(q, n)
                    /\ Return(IF Broken(q, n) THEN "mirrorFailed" ELSE "mirrored",
                              IF DestReset(end, q, n) THEN "reset" ELSE dest, "zero")
              /\ cancelled' = (cancelled \/ end = "Close")
              /\ closing' = (closing \/ end = "Close")
    /\ Clear
    /\ UNCHANGED <<clock, sent, srcEnd, holdGate, discarding, lost, stopped, framer,
                   observable, dropped>>

(* received_reset answers None: the source can no longer be reset. *)
ResetUnobservable ==
    /\ pc = "select" /\ ~AcceptsMore /\ observable /\ srcEnd = "fin"
    /\ observable' = FALSE
    /\ UNCHANGED <<env, closing, task, framer, queued, ends>>

-----------------------------------------------------------------------------
(* The end of the source, and the other branches of select!.               *)

(* A faulty variant, which FinIsComplete must catch: no drain. *)
HastyFin ==
    /\ pc = "select" /\ AcceptsMore /\ srcEnd = "fin" /\ fed = sent
    /\ pc' = "finish" /\ after' = "fin"
    /\ UNCHANGED <<env, closing, now, exit, framer, queued, observable, ends>>

ReadFin ==
    /\ pc = "select" /\ AcceptsMore /\ srcEnd = "fin" /\ fed = sent
    /\ pc' = "drain" /\ after' = "fin"
    /\ UNCHANGED <<env, closing, now, exit, framer, queued, observable, ends>>

(* A drain that completed settles the ledger and goes on with what it was  *)
(* run for: the unit it had to stay behind, or the end of the stream.      *)
DrainDone ==
    /\ pc = "drain" /\ queue = <<>>
    /\ \/ /\ after = "unit" /\ ~WriteFails
          /\ Write(seen) /\ pc' = "frame" /\ after' = "none" /\ ledger' = <<>>
          /\ UNCHANGED <<now, exit, dest, srcStop, dropped, reported, late,
                         queue, deadline, parked, shapeGate>>
       \/ after = "unit" /\ WriteFails /\ PropagateStop(WriteError, <<>>)
       \/ /\ after = "fin" /\ pc' = "finish" /\ ledger' = <<>>
          /\ UNCHANGED <<after, now, exit, queue, deadline, parked, shapeGate, ends>>
    /\ UNCHANGED <<env, closing, framer, observable>>

(* The framer's tail, the hook's word on the end, and then the FIN. *)
FinishStream ==
    /\ pc = "finish"
    /\ \/ /\ partial /\ WriteFails /\ PropagateStop(WriteError, <<>>)
          /\ UNCHANGED <<cancelled, closing>>
       \/ /\ partial => ~WriteFails
          /\ wire' = wire \o FramerTail
          /\ \E end \in EndActions :
                /\ \/ /\ end = "Pass" /\ Return("finished", "fin", "none")
                      /\ UNCHANGED queued
                   \/ /\ end = "Close" /\ Return("hookClose", dest, "none")
                      /\ UNCHANGED queued
                   \/ /\ end = "Reset" /\ Push(Unit(Id, "reset", clock, FALSE), FALSE)
                      /\ pc' = "drain" /\ after' = "finTerminal"
                      /\ UNCHANGED <<now, exit, dest, srcStop>>
                /\ cancelled' = (cancelled \/ end = "Close")
                /\ closing' = (closing \/ end = "Close")
          /\ UNCHANGED <<dropped, reported, late>>
    /\ UNCHANGED <<clock, sent, srcEnd, holdGate, discarding, lost, stopped, framer,
                   observable>>

(* StopWatcher: the destination stopped us while nothing was being written.*)
(* It hands the stop over even where the transport is lost by now.         *)
StopWatch ==
    /\ pc = "select" /\ stopped /\ PropagateStop("stopped", queue)
    /\ UNCHANGED <<env, closing, framer, observable>>

(* reset_stream through the control plane. *)
OperatorReset ==
    /\ pc = "select" /\ "operator" \in Faults
    /\ GiveUp("operator", "operator")
    /\ UNCHANGED <<framer, observable>>

-----------------------------------------------------------------------------
Init ==
    /\ clock = 0 /\ sent = 0 /\ srcEnd = "open"
    /\ holdGate = FALSE /\ shapeGate = "none"
    /\ cancelled = FALSE /\ discarding = FALSE /\ lost = FALSE
    /\ stopped = FALSE /\ closing = FALSE
    /\ pc = "select" /\ after = "none" /\ now = 0 /\ exit = "none"
    /\ fed = 0 /\ seen = 0 /\ partial = FALSE
    /\ queue = <<>> /\ ledger = <<>> /\ deadline = Never
    /\ parked = FALSE /\ observable = TRUE
    /\ wire = <<>> /\ dest = "open" /\ srcStop = "none"
    /\ dropped = {} /\ reported = {} /\ late = {}

Branch == \/ ReadChunk \/ ReadFin \/ MirrorReset \/ ResetUnobservable
          \/ WakeRelease \/ StopWatch \/ CancelBranch
Body   == \/ HandleUnit \/ EndChunk \/ EndBatch \/ RefuseHead \/ ReleaseHead
          \/ ExpireHead \/ WakeDrain \/ CancelDrain \/ DrainDone \/ FinishStream

Next == World \/ Branch \/ Body \/ OperatorReset

Spec == Init /\ [][Next]_vars

(* The task is polled whenever it can run, and select! picks its branch at *)
(* random, so a branch that is ready again and again is taken.  Nothing is *)
(* assumed of the peers, the gates or of time.                             *)
PromptSpec == /\ Spec /\ WF_vars(Body)
              /\ SF_vars(MirrorReset) /\ SF_vars(CancelBranch) /\ SF_vars(StopWatch)
              /\ SF_vars(ReadChunk) /\ SF_vars(ReadFin) /\ SF_vars(WakeRelease)

-----------------------------------------------------------------------------
TypeOK ==
    /\ clock \in Nat /\ now \in Nat /\ deadline \in Nat \union {Never}
    /\ seen <= fed /\ fed <= sent /\ sent \in 0..Units /\ seen \in Nat /\ fed \in Nat
    /\ srcEnd \in {"open", "fin", "reset"}
    /\ {holdGate, cancelled, discarding, lost, stopped, closing, partial, parked,
        observable} \subseteq BOOLEAN
    /\ shapeGate \in {"none", "shut", "open"}
    /\ pc \in {"select", "frame", "release", "drain", "drainBatch", "finish", "over"}
    /\ after \in {"none", "unit", "terminal", "fin", "finTerminal"}
    /\ \A i \in DOMAIN queue : queue[i] \in Slots
    /\ ledger \in Seq(0..Units) /\ wire \in Seq(1..Units + 1)
    /\ dest \in {"open", "fin", "reset"}
    /\ dropped \subseteq 1..Units /\ reported \subseteq 1..Units /\ late \subseteq 1..Units + 1

InOrder(j) ==
    \A i \in 1..wire[j] :
        Cardinality({k \in 1..j : wire[k] = i}) = 1 \/ (i # wire[j] /\ i \in dropped)

(* What reaches the destination is what the source sent, in its order and  *)
(* without a hole: a unit is written only after every earlier one was      *)
(* written or elided, whichever of the inline writes, the release branch   *)
(* and the drains wrote it (commit_now, write_in_order, pop_next_due).     *)
(* The one exception is the framer's tail, which the cancel branch writes  *)
(* after a spent drain window too, behind the units it withheld.           *)
WireOrder == \A j \in DOMAIN wire : wire[j] <= fed \/ ~discarding => InOrder(j)

(* A queue that holds something always has an armed head deadline, and an  *)
(* empty one has none: the debug_assert of head_release.                   *)
HeadArmed ==
    pc \in {"select", "drain"} => (queue = <<>> <=> deadline = Never)

(* The ledger and the queue move together, so a release reports the effect *)
(* of its own unit and no other (push_unit, release_due_units).            *)
LedgerMatches ==
    pc \in {"select", "frame", "release"} =>
        /\ Len(ledger) = Len(queue)
        /\ \A i \in DOMAIN queue : ledger[i] \in {0, queue[i].id}

(* A release batch that leaves its head behind leaves it waiting for       *)
(* something that has not happened yet, so the loop sleeps instead of      *)
(* spinning (arm_head_at, shape_parked).                                   *)
RefusalIsAWait ==
    [][InBatch /\ pc' \in {"select", "drain"} /\ queue' # <<>>
         => deadline' > now /\ ~WakeGate']_vars

(* The queue outgrows its budget by no more than the units that one read   *)
(* completes (accepts_more).                                               *)
QueueBounded == Bytes(queue) <= MaxBytes - 1 + MaxChunk

Settled(i) == i \in dropped \/ i \in reported \/ \E k \in DOMAIN wire : wire[k] = i

(* What teardown answers for: all that was read, except where the loop     *)
(* ended inside a drain that ran for one unit, which is still in hand.     *)
Owed == IF after \in {"unit", "terminal"} THEN seen - 1 ELSE fed

(* What the teardown paths promise: traffic is never silently gone.  Once  *)
(* the loop has returned, every unit it read is written, elided or named   *)
(* in QueuedBytesAtTeardown, unless the destination was reset or has asked *)
(* to be spared (unconfirmed_bytes, report_unconfirmed).                   *)
NeverSilentlyGone ==
    pc = "over" /\ dest # "reset" /\ ~stopped => \A i \in 1..Owed : Settled(i)

(* What the code keeps of that: the exits that drop the queue unreported   *)
(* are the hook's own close and a write that fails because the session has *)
(* already closed the transport, and no other.                             *)
AccountedFor ==
    exit \notin {"hookClose", "lost", "finFailed"} => NeverSilentlyGone

Unsettled == {i \in 1..(IF after \in {"unit", "terminal"} THEN seen - 1 ELSE seen) : ~Settled(i)}

(* What propagate_stop documents: after STOP_SENDING the queue is reported,*)
(* so all but the one unit whose write failed is accounted for.            *)
StopIsReported ==
    pc = "over" /\ dest # "reset" /\ stopped => Cardinality(Unsettled) <= 1

(* What the code keeps of that: every stop that is met outside the drain   *)
(* of a finished source is reported, whether a write or the watcher met it.*)
(* A write that met the loss of the transport instead has met no stop, and *)
(* what was queued behind it is dropped unreported (exit = "lost").        *)
StopAccounted == exit \notin {"finFailed", "hookClose", "lost"} => StopIsReported

(* Everything the flush of a queue handed to the dying transport is        *)
(* counted as unconfirmed; the framer's tail, id fed + 1, is written after *)
(* the count was taken (unconfirmed_bytes, report_unconfirmed).            *)
TeardownCountsAll ==
    exit \in {"cancelled", "drainCancelled", "mirrored", "mirrorFailed"} =>
        late \ {fed + 1} \subseteq reported

(* A clean FIN tells the destination that it has everything: all that the  *)
(* source sent before its own FIN was written or elided before it.         *)
FinIsComplete ==
    exit = "finished" =>
        /\ fed = sent
        /\ \A i \in 1..(IF partial THEN fed + 1 ELSE fed) :
              i \in dropped \/ \E k \in DOMAIN wire : wire[k] = i

(* A source that was reset never looks finished to the destination, unless *)
(* the session is being discarded or the flush failed (propagate_reset).   *)
ResetIsMirrored ==
    exit = "mirrored" /\ ~discarding => dest = "reset"

(* At select! a reset of the source ends the loop although the queue is    *)
(* full and time stands still: it is not seen only when the queue drains.  *)
(* (A drain that an arm body runs, as write_in_order does, comes first.)   *)
ResetEnds == srcEnd = "reset" /\ pc = "select" ~> pc = "over"

(* Cancellation ends the loop wherever it stands, without waiting for a    *)
(* release time or a gate (drain_honouring_release_times).                 *)
CancelEnds == cancelled ~> pc = "over"

(* If time passes, the loop ends after the source's FIN even if no gate is *)
(* ever opened: a held unit leaves at its ceiling (hold_ceiling).          *)
FinEnds == WF_vars(Tick) => (srcEnd = "fin" ~> pc = "over")
=============================================================================
