# A TLA+ verification of moqtap

moqtap is a Rust toolkit for Media over QUIC Transport (MoQT): a codec and a
client for many drafts, a trace format, a monitor, a network emulator below
QUIC, and an intercepting proxy. The proxy carries most of the program's own
concurrent logic. It stands between a client and a relay, shows every object
of every stream to a hook, lets the hook drop, delay, hold, truncate or reset
what passes, paces streams against token buckets, and must not lose, reorder
or silently forget a byte while doing so. The client carries the protocol: two
endpoints that must agree about every request although their messages cross.
This project models both cores, checks them with TLC and proves every safety
property the passing runs check with TLAPS.

## 1. Inventory

Paths are under `src/crates/moqtap-proxy/src/` unless said otherwise.

| Part | State | Operations | Modules |
|---|---|---|---|
| Token bucket, `shape/bucket.rs` | tokens in nano-bytes, the instant they are valid for | `charge` | `TokenBucket`, `TokenBucketClients`, `TokenBucketLemmas`, `TokenBucketProofs` |
| Shape scheduler, `shape/scheduler.rs` | buckets, demand, credits and parked gates per class, a proxy-wide pacing switch | `acquire`, `declare_demand`, `withdraw_demand`, `wake_bucket`, `discipline_holds` | `ShapeScheduler`, `ShapeSchedulerProofs` |
| Egress queue, `egress.rs` (`PendingQueue`) | units with release time, gate and clamp; the head's deadline; the shaper's answer; the declared demand | `push`, `pop_next_due`, `wait_release`, `expire_head`, `clear`, two drains, `Drop` | `ShapeScheduler` (its shaping half), `DataPipe`, `DataPipeProofs` (the rest) |
| Framed data stream, `session.rs` (`pipe_data_framed`), `exec.rs` (`Engine`, `DeferredEffects`) | where the task stands, the framer's progress, the ledger of effects the hook is owed | the branches of one `select!`, the hook's actions, `propagate_reset`, `propagate_stop` | `DataPipe`, `DataPipeProofs` |
| Session close, `egress.rs` (`EgressGauge`, `SessionCloser`), `control.rs` (`close_session`), `session.rs` (`close_after_draining`, tail of `run_with_transport`) | the recorded close, the command channel, the count of queued bytes, the drain window | `close_session`, a hook's `CloseSession`, `wait_idle`, `add`/`sub`, teardown | `SessionClose`, `SessionCloseProofs` |
| Release wheel, `release_timer.rs` | a heap of deadlines, the release thread, a stop flag | `arm`, `already_due`, dropping a `Deadline`, `run`, `Drop` | `ReleaseTimer`, `ReleaseTimerProofs` |
| Control, request and passthrough pipes, datagrams, `session.rs` | as the data stream, with message rewriting | read, rewrite, forward | planned |
| Object framer, `framer.rs` | buffered bytes, id fix-up after an elision | `feed`, `poll`, `finish`, `note_elided` | its outcomes are choices in `DataPipe` |
| Capability table, rule matcher, `capability.rs`, `shape/matcher.rs` | none | lookups | their outcomes are choices |
| Proxy, listener, registry, `proxy.rs`, `listener.rs`, `control.rs` | sessions, accept loops | accept, register, command | only `close_session` |
| Events, counters, qlog | reports | emit | only `QueuedBytesAtTeardown` |
| `crates/quinn-netem` | impairment models, a timed datagram queue | enqueue, poll | planned |
| `crates/moqtap-client/src/draft14` | per endpoint: the session's state, Request IDs and their ceilings, one state machine per request, the alias and namespace tables | a send and a receive operation per control message, the ends of fetch streams, withdrawal of a malformed track | `RequestFlows`, `Endpoint`, `ControlSession`, `RequestLife`, `ControlSessionProofs`, `ControlSessionAgreement` |
| the other drafts of `crates/moqtap-client`, `dispatch.rs` | the same shape with other message sets | | not modelled |
| `crates/moqtap-codec`, `crates/moqtap-trace`, `crates/moqtap-monitor`, `vendor/` | encoders, files, uploads, third-party code | | not modelled |

How the parts interact. A session runs one task per direction and stream, all
on a multi-threaded runtime. Each data-stream task owns its framer, its
`PendingQueue` and its ledger, and shares with the others of its session one
`Scheduler` (behind a mutex), one `EgressGauge` (an atomic count with a
`Notify`), one `SessionCloser` (a `OnceLock`) and one cancellation token. The
hook can open gates from any thread. The control plane reaches a session
through a channel that a command task serves. When the first forwarding task
ends, the session cancels the rest and closes both transports without waiting
for the stream tasks, which find out at their next await.

What is hard here:

- a loop that owns a queue, a ledger and a deadline, and has more than ten
  ways to return, each of which must account for what is still queued;
- scheduler calls that are atomic one by one but not together: a stream
  withdraws and declares its demand in two lock sections, and reads the clock
  before it takes the lock, so the bucket sees time run backwards;
- wakes: a stream that waits for a gate sleeps until its clamp if the actor
  that made it eligible forgets to release the gate;
- a drain inside an arm of `select!`, which watches only what it awaits;
- `wait_idle`, which must not miss the emptying that falls between its look
  and its registration;
- a close that is looked up, recorded and sent in three steps while the
  session may dial, drain, cancel and end between any two of them;
- the release thread, which decides how long to wait from a heap that changes
  while it cancels tokens without the lock, and whose wakers may arm again or
  drop the wheel from the very thread that `Drop` would join;
- two endpoints with a state machine per request each: answers cross cancels,
  fetch streams end before or after their answer, GOAWAY and Request ID
  ceilings cross new requests, and a future dropped before its write leaves
  one end ahead of the other.

`PROJECT.json` lists these hazards at their lines, each with the properties
that would catch it.

## 2. The modules

### TokenBucket, TokenBucketClients

`TokenBucket` holds `charge` as pure operators: `Refill` (a stale `now`
refills nothing), `WaitFor` (the rounded-up division) and `Charge` with its
four answers. `NANO` nano-bytes make a byte and a tick at rate *r* is worth
*r* nano-bytes, so the arithmetic is exact, as in the code. `MaxWait` is the
longest `Duration`. `TokenBucketClients` adds streams that charge one bucket
with clock readings up to `MaxStale` ticks old, and an observer who opens a
measuring window at any moment.

### ShapeScheduler

One session's scheduler and the streams that ask it. Each lock section of the
code is one action (`DeclareDemand`, `WithdrawDemand`, and `acquire` split by
its answer: `AcquireUnpaced`, `AcquireStarved`, `AcquireNow`, `AcquireDry`);
everything between two lock sections interleaves. A stream is the unit at the
head of its queue; what stands behind it is chosen when the head leaves, so
queues of every content are covered. A batch keeps the clock reading it
started with (`batch`), which is how stale instants arise. `ahead` is a
history variable for the fairness bound. A disabled pacing switch lets every
asker through and leaves the scheduler's state alone, as the code does.

### DataPipe

One `pipe_data_framed` task. `pc` names the await the task stands at:
`select` (all branches armed), `frame` (handing units to the hook), `release`
(a release batch), `drain` and `drainBatch` (a drain run by an arm, with
`after` saying what follows), `finish`, `over`. The world (source, destination,
clock, gates, session) moves between any two awaits. A unit is one byte long
and carries an id, so order, loss and duplication are visible. The hook's
actions are those of `Engine::execute`: pass (with replace and every refused
action), drop, delay, delay-then-drop, hold, truncate, reset, close; besides
them bytes the hook is not shown, a rejected header and a lost id fix-up.
The shaper's answer is open (`RefuseHead` may or may not happen), so what is
shown here holds whatever the scheduler decides. `reported` is the set of units
covered by `QueuedBytesAtTeardown`, `late` the units handed to a transport
that is already going down. A stop and a loss of the transport may both be
there: a write then answers with the loss (`WriteError`), which
`propagate_stop` leaves alone, while the watcher still hands over the stop. A
read that fails with the transport ends the loop as a reset of the source does
(`MirrorReset`).

### SessionClose

Operators, hooks, the main task, the command task and the stream tasks as
threads around one `SessionCloser`, one command channel and one gauge.
`close_session` is three steps (`Reach`, `Record`, `SendCommand`), a hook's
close two (`HookRequest`, `HookCancel`; one that was beaten to the record still
cancels), `wait_idle` four (`FirstLook`, `Arm`, `SecondLook`, `WakeUp`), and a credit that empties
the gauge is separate from the `notify_waiters` that follows it. In
`DataPipe` the outcome of all this is an input: `cancelled` and `discarding`.

### ReleaseTimer

The wheel, its thread, its registrars and its owner. `arm` is three steps, as
in the code: the look at the clock (`ArmCheck`), the push under the lock
(`ArmPush`) and the notification after it (`ArmNotify`). The thread is at
`lock` (about to scan), `cancel` (popped tokens in hand, lock released),
`plan` or `again` (lock held, about to wait or to scan again), or in one of
three waits: untimed, timed, or a sleep no notification reaches. The mutex is
not a variable: while the thread is at `plan` or `again` no other critical
section runs. `parker` is chosen at the start, since the environment selects
the backend. A waker that the cancellation runs may arm another deadline
(`CancelAndArm`) or drop the wheel (`CancelAndDrop`). `pushedAt` is a history
variable.

### RequestFlows, Endpoint, ControlSession, RequestLife

Draft 14 of the client. `RequestFlows` has the state machines as sets of moves
<<from, event, to>>; the machine of a request is the same at both ends.
`Endpoint` has one endpoint as a record (role, session state, Request ID
counters, one record per request, the reason it closed for) and one operator
per `receive_` handler, each with the code's order of checks: what closes the
session, what is ignored, what is refused, and what is kept. A handler that
searches a hash map yields the set of outcomes the map's order allows.
`ControlSession` puts a client and a server on an ordered control stream with
fetch streams beside it: one action per operation that sends, one for the next
message to arrive (`recv_and_dispatch`), the setup, MAX_REQUEST_ID,
REQUESTS_BLOCKED, GOAWAY, the two ends of a fetch stream, and the withdrawal of
a malformed track. `send_control` may also lose its message: the future that
was awaiting the write is dropped, and the endpoint has moved already. A
withdrawal moves all its requests and then writes one message for each, so a
drop loses the last ones. Two things are coarser than the code: a publisher's
FIN on a fetch stream and the endpoint's note of it are one step, which an
application may take apart; and an application announces a namespace again only
once its own record of the earlier announcement has ended, which the endpoint
does not enforce.

`RequestLife` is what all this promises, without messages: a request is asked,
arrives, is decided at most once, is learnt as it was decided, and may be
ended from either side; nothing that is over comes back. `ControlSession!Life`
instantiates it, mapping every machine's states to none, pending, active and
over at each end, and `ImplementsRequestLife` states that every session of
`ControlSession` is a behaviour of it. One step of the session may advance
several requests (the withdrawal of a track), which `RequestLife` allows.

Definitions called "faulty variant" are mutated forms of the definition that
follows them. No specification uses them; each shows that a property notices
a plausible mistake.

## 3. The runs

| Run | Instance | What it shows |
|---|---|---|
| `MCTokenBucket` | rates unlimited, 0, 2, 3; burst 3; units 0, 1, 2, 4; readings up to 2 ticks stale; 6 ticks | `RateBound`: any window grants at most rate × elapsed + burst. `LaterIsEarliest`: a `Later` answer names the first sufficient instant. `BucketClockForward`: no reading rewinds the bucket |
| `MCShapeRobin` | 2 streams, weights 2 and 1, delayed and aged units | `ShareBound`: no class is granted more than twice its weight while another waits. `NeverOversleeps`: a sleeping head is asked again by its clamp. `RefusalWaits`: a refusal arms a later instant |
| `MCShapeLiveness` | 2 streams, 2 classes, strict priority, one stream fair | `DemandExact`: demand is the number of queues that declared it. `NoMissedWake`: a live gate means that a higher class really has demand. `EveryHeadLeaves`, whatever the other stream does, even if it stops |
| `MCPipe` | unshaped, 3 units, chunks of 2, every action, end and fault | `WireOrder`, `QueueBounded`, `AccountedFor`, `StopAccounted`, `TeardownCountsAll`, `ResetIsMirrored`, `FinIsComplete` |
| `MCPipePaced` | shaped, DropTail, reset on expiry, depth 2 | `WireOrder` and `FinIsComplete` with refusals and elisions, `HeadArmed`, `LedgerMatches`, `RefusalIsAWait` |
| `MCPipeLive` | shaped, reset on overflow, read shut by one unit | `ResetEnds`, `CancelEnds`, `FinEnds` |
| `MCClose` | 2 operators, 1 hook, 2 streams of up to 2 bytes | `GaugeExact`, `NoLostWakeup`, `OneCloseAccepted`, `ServedCloseIsSent`, `ServedCloseEnds`, `DrainedCloseEnds` |
| `MCReleaseTimer` | 2 registrations, instants 0 to 3, both parkers, SLICE, sweep threshold and interval 1 | `NeverParkedPast`: no lost wake-up. `ReleasedInOrder`: nothing early, nothing overtaken. `EveryDeadlineFires`, `DropReturns` |
| `MCControlSession` | client and server, 7 workloads of 2 or 3 requests, 2 tracks, 2 aliases, a namespace and one inside it, 2 messages in flight each way | `ClosesExplained`: what two endpoints close on each other for. `SettledAgreement`: both have every request in the same state once nothing is on its way. `AliasNamesOneTrack`. `ImplementsRequestLife` |

Three runs are expected to violate a sentence the repository itself states;
`findings` in `PROJECT.json` quotes each one.

- `MCShapeRobinWake`: under weighted round robin a grant that spends a class's
  last credit makes parked rivals eligible and wakes nobody, and a next head
  of the same class withdraws no demand. All streams can then sleep while one
  of them is eligible; only a refill instant or the clamp wakes it. The
  comment on `SchedState.parked` says whoever makes a class eligible releases
  it. (Strict priority has no such state: `NoMissedWake`.)
- `MCPipeGone`: a hook that answers `CloseSession` makes the loop return with
  its queue neither written nor reported, against "never silently gone".
- `MCCloseSent`: a `close_session` that is accepted while the relay is being
  dialled never sends its code and reason, though the documentation calls
  that part unconditional.

Exceptions that the passing properties carry, each written into the property
where a reader sees it:

- `AccountedFor` excuses the hook's own close, a write that fails because the
  session has already closed the transport, and a failure in the drains of the
  FIN path;
- `Owed` leaves out the one unit in hand when a drain that runs for it
  (`write_in_order`) is cancelled: those bytes are in no queue and no count;
- `StopAccounted` excuses a STOP_SENDING met by the drain that follows the
  source's FIN: it leaves through `?`, past `propagate_stop`, and nothing is
  reported. It also excuses a write that met the loss of the transport, even
  where a STOP_SENDING had come before: quinn answers such a write with the
  loss, `propagate_stop` acts on `Stopped` alone, and the queue goes with the
  loop. The stop is reported only if the watcher's branch is taken first;
- `TeardownCountsAll` leaves out the framer's tail, written after the count;
- `WireOrder` leaves out the same tail when the drain window is spent, as it
  is then written behind units that were withheld;
- `ClosesExplained` names what makes one conforming endpoint close the session
  on another: the table of aliases holds both directions, so an alias the peer
  gives out is judged against those given out here; a draining endpoint keeps
  no record of what it refused, so a SUBSCRIBE_UPDATE sent meanwhile is about
  nothing it knows; and a send that was dropped leaves a hole in the Request
  IDs, in what existed, or in what has ended;
- `SettledAgreement` leaves out what a draining endpoint refused unanswered, a
  fetch whose stream the publisher reset (its endpoint has no operation for
  that), and a namespace announced a second time: `own_publish_namespace_id`
  does not skip the announcement that has ended, though it calls itself the
  mirror of `inbound_publish_namespace_id`, which does, so that a
  PUBLISH_NAMESPACE_CANCEL can hit the old record and be ignored.

### Bounds, and why they are enough

Each bound is a CONSTANT. Three units of one byte with chunks of two give a
queue with an earlier unit, one in hand and one to come, which is the most any
of the hazards involves; a budget of one byte makes the read shut and reopen,
a budget of two lets a FIN be read behind queued bytes. `MaxHold` 1 or 2 with
delays of 1 puts due times before, at and after the clamp. Two classes and two
streams give a parked stream and the rival it waits for; that a third stream
changes nothing is what the proofs of section 4 add. Two operators and a hook cover every pair of closers; two streams
are needed for an emptying gauge to be refilled by another stream before it
is notified. The clock bound never cuts off a wait: a unit is only pushed in
`ShapeScheduler` if its clamp lies within the bound, and in `DataPipe` the
clock runs on for a unit that still waits. Streams are symmetric and the
safety runs of `ShapeScheduler` use that symmetry; no liveness run does.
Deadlock checking is off where the system really stops: after a stream loop
or a session has returned, a wheel is dropped or a session has nothing left to
send.

Two registrations and instants 0 to 3 let a deadline be armed nearer than, at,
or after the one being waited for, in the middle of a sleep of more than one
SLICE, and be abandoned and swept; thresholds of 1 make the sweep run at once.
The proofs of section 4 cover any number.

A workload of `MCControlSession` fixes who asks, for what, how often, with
which ceilings, who may send GOAWAY and how many sends may be dropped. Each
groups the requests that can meet in a table: subscriptions and offers (the
aliases), a subscription with its updates and joining fetches, subscriptions
and fetches of one malformed track, prefixes that overlap, a namespace
announced again, ceilings that run out, and a dropped send. Two requests of
one end (three between both ends for prefixes) are enough for every pair; a
third request of the same end is not covered. Tracks and aliases are symmetric
and no property of the run tells them apart.

### Fairness

- `ShapeScheduler!FairSpec`: time passes and the tasks in `FairStreams` are
  polled and complete their writes. Nothing is assumed of other streams, of
  the pacing switch or of arrivals.
- `DataPipe!PromptSpec`: weak fairness of the running arm body (the runtime
  polls a ready task); strong fairness of each branch of `select!`, because
  tokio starts at a random branch and one that is ready again and again is
  picked. Time, peers and gates are free; `FinEnds` assumes time as its own
  hypothesis, `ResetEnds` and `CancelEnds` hold though time stands still.
- `SessionClose!FairSpec`: the command task, a thread inside a notification
  and a cancelled session's main task run on; strong fairness of the deadline
  branch of `wait_idle`, whose `select!` is not biased. Streams and callers
  may stop at any point. `ServedCloseEnds` assumes time as a hypothesis.
- `ReleaseTimer!FairSpec`: time passes, the release thread is scheduled, and a
  call to `arm` or a drop that has begun is carried to its end. Nobody has to
  arm, abandon, drop or wake anything, and no spurious wake-up is relied on.

## 4. The proofs

`TokenBucketProofs`, for every rate, burst, unit size and order of readings:
`TypeCorrect`, `RateBoundHolds`, `LaterIsEarliestHolds` and `ClockForward`.
`RateBound` is not inductive, since it forgets the tokens still held.
`BucketInv` counts them: tokens + spent ≤ rate × (last − mark) + burst, with
mark ≤ last ≤ clock. A refill adds at most rate × elapsed to both sides
(`RefillFacts`), a grant moves tokens to spent (`ChargeFacts`), and a new
window starts with tokens ≤ burst. `LaterIsEarliest` rests on the two sides
of the rounded-up division (`CeilFacts`); the nonlinear arithmetic is confined
to `Products`.

`ShapeSchedulerProofs`, for any number of streams, classes and buckets and for
any weights, rates, bursts, unit sizes and delays: `TypeCorrect`,
`DemandExactHolds`, `NoMissedWakeHolds`, `ShareBoundHolds`,
`NeverOversleepsHolds` and `RefusalWaitsHolds`, which is every safety property
the runs check of the scheduler. `SchedInv` adds to the types that no bucket
is overfull (the facts about `charge` take that as given) and that a head is
armed for no time before it is due and none after its clamp (`Arms`, from
which the two properties about waiting follow; the second also needs that a
`Later` answer lies after the clock reading, `ChargeKeepsBucket`). `DemandExact`
is inductive over that, by the cardinality of a set that gains or loses one
stream. `NoMissedWake` needs `Gates`: a live gate is one its bucket's next wake
will find. It is proved for strict priority, and does not hold under weighted
round robin (`MCShapeRobinWake`). `ShareBound` needs `Shares`: what a class has
been granted ahead of another plus what is left of its round stays within one
weight, or within two while the other has credit of its own. A new round
starts only when no rival with demand has credit (`RefillShares`), so the
second weight is never added twice.

`SessionCloseProofs`, for any number of operators, hooks and streams:
`TypeCorrect`, `GaugeExactHolds`, `NoWakeupLost`, `OneCloseHolds` and
`ServedCloseSent`. All but the last are inductive over the types; the gauge is
compared with the number of elements of the set of queued bytes, which a push
or a pop changes by one stream's share (`BytesOfStream`). The last needs `CloseInv`: a close in the
channel is an operator's recorded one, a session past forwarding is cancelled
or its channel is shut, and nothing has been sent before the legs are closed;
so a command cannot be taken up after the legs were closed with another pair.

`ReleaseTimerProofs`, for any number of registrations, any SLICE and any sweep
thresholds: `TypeCorrect`, `NeverParkedPastHolds` and `ReleasedInOrderHolds`.
Neither property is inductive. `ThreadInv` says what the thread may rely on
where it stands: it holds nothing popped outside `cancel`, it holds the lock
only while nobody is dropping the wheel, and a sleep ends within a SLICE of
any push it could not see. `Books` follows a registration: it has a slot from
its push on, in one place until it is cancelled; and whatever is popped is due,
while nothing registered before it and due no later is left in the heap. The
last clause is what a release made without the lock depends on.

`DataPipeProofs`, for any number of units, any budget, read size, depth, delay
and ceiling: `TypeCorrect` and one theorem for each of the ten safety
properties of the two runs (`WireOrderHolds`, `AccountedForHolds`,
`StopAccountedHolds`, `TeardownCountsAllHolds`, `ResetIsMirroredHolds`,
`FinIsCompleteHolds`, `QueueBoundedHolds`, `HeadArmedHolds`,
`LedgerMatchesHolds`, `RefusalIsAWaitHolds`). None but `LedgerMatches` is
inductive. `Inv` says where every unit is at each place the loop can stand.
`Places`: a branch of `select!` starts with the framer empty, and nothing is
reported and no end has heard anything before the loop returns. `Terminals`: a
reset or a cut is the last slot, and one is queued exactly while the loop
drains up to it; so a flush that runs to its end has written everything.
`Heads`: the armed deadline is the head's own unless the shaper holds the head,
which was due then (`RefusalIsAWait`). `Order`: the wire is increasing and
gapless, the queue is sorted and lies behind it, and every unit up to the last
one polled is on the wire, queued or elided, or it is the one in hand; each
pop, write, elision and push preserves the whole and none of its parts alone.
`Room` counts what was read and not yet polled against the budget. What
becomes of a unit is one of five things (`HandleShape`), whatever combination
of hook, framer and profile decided it, and the invariant is shown once for
each. The promises about a loop that returned follow from `Inv` at the step in
which it returns, with one lemma per exit.
The module starts with what a push, a pop and a flush do to a queue. A flush
writes the loaded slots of a prefix (`Written`), each at its `Rank`, a count:
that the ranks are consecutive and reached is shown from the least number of a
set (`LeastNumber`) and from cardinalities, in place of an induction over the
sequence.

`ControlSessionProofs`, for any tracks, aliases and namespaces, any finite set
of Request IDs, any workloads and any number of messages in flight:
`TypeCorrect`, `SessionImplementsRequestLife` and `AliasesNameOneTrack`.

The refinement is a statement about each step: every request's two records
move as `RequestLife` allows. That is not true of a step on its own, since an
endpoint believes what it reads; `Inv` says why it may. `Setup`: before the
handshake is over there is nothing else, on the wire or in a record.
`Counters`: an identifier not yet used, or not yet seen, has no record, so a
request arrives at most once. `Meaning`: a request on the wire was asked by its
sender, an answer agrees with the verdict of the endpoint that sent it, and a
FETCH_CANCEL is about a fetch its sender has ended. `Verdicts`: there is no
verdict while the answerer has not decided, so there is never a second. The
operations are first reduced to five shapes of step (`NextStep`): an endpoint
opens a request, decides one, reads a message, ends some requests, or takes
part in the handshake. `Inv` is shown once for each shape. What a step does to
one request is then one of three things (`RecordStep`): its record is kept, is
new, or makes one move of its machine; and `MoveFacts` says of all six machines
where a move can lead.

`AliasNamesOneTrack` is not inductive either, because `send_publish_ok`
accepts an offer without judging its alias again: what was checked when
the offer arrived must still be true when it is accepted. `AliasInv` says why
it is. The giver of an alias holds it from the offer to the end (`Held`), and
holds one track under it (`GivesOneTrack`); an offer its receiver has not
answered is one its giver still holds (`Heard`, with `Verdicts`); and so any
SUBSCRIBE_OK that travels behind it, or has been sent since, has the alias for
the same track (`Behind`). What was said is what both records say (`Said`,
`Agree`). TLC found `AliasInv` to hold on a larger instance, with three
messages in flight and with dropped sends, before it was proved.

`ControlSessionAgreement`, under the same assumptions: `ClosesAreExplained` and
`SessionsAgree`. Both are about what an endpoint may find when it reads the
next message, and so about everything that is still on its way to it; neither
is inductive. `Clean` is a session that is open and in which no send was
dropped.

`Conduct`, from which the first follows, is `AliasInv` with:

- `Rules`, true of every session, dropped sends and all: the ceiling an
  endpoint was granted is within what its peer advertised, and each
  MAX_REQUEST_ID on the wire raises it (`Greeting`, `Ceilings`); a GOAWAY is
  sent once (`GoAways`); an update is for an earlier subscription of its
  sender's (`Updates`); there is one answer at a time for a request, while the
  asker waits (`Replies`); the two records of a request are for one target and
  one alias (`SameTarget`, `AliasAgree`); and what is said to be over is over
  where it was said (`Told`). Each rules out one reason to close.
- `InOrder`, true of a clean one: the Request IDs one end has used and the
  other has not seen are on the wire, in order (`Sequence`), what has arrived
  is on record (`Noted`), an end is told behind the answer it follows
  (`Over`), and an alias that moves to another track travels behind the
  PUBLISH_DONE that frees it (`Freed`). These are what a dropped send breaks:
  the three reasons to close that `ClosesExplained` names are exactly the
  three checks that rest on them.
- `ClosesExplained` itself, for the sessions that have been closed: nothing
  happens after a close, so the reason it was given for stays true.

`Pact`, from which the second follows, adds what becomes of each request. Of
every session: a verdict comes before the answerer's record leaves its
undecided states (`Decided`), the data stream of a fetch and its two records
(`Fetches`), and no prefix asked for twice at once (`OwnPrefixes`). Of a clean
one: a verdict the asker has not heard is on its way (`Answered`), so is the
cancel of a fetch (`Cancelled`), and the namespace subscriptions of the two
ends differ by what is on the wire, where a prefix is asked for again only
behind the message that gives it up (`PeerPrefixes`, `Prefixes`,
`NamespaceStates`). When nothing is on its way, each of these leaves both
records of a request in one state (`RequestSettled`, `FetchSettled`).

The steps are sorted more finely than for the refinement: seven shapes
(`Shape`), which say what was written and what moved. From them come two
facts that every later lemma rests on: what a step does to each stream of
messages (`Flow`: it takes the first or none, and adds behind the last) and
what becomes of one record (`Fate`). Each part of the two invariants is then
preserved by a lemma of its own. TLC checked both invariants first, on an
instance of a million states and, in part, on larger ones with more requests
and with dropped sends.

Handlers whose checks can apply together are written as chains of IF in the
code's order: with a CASE whose guards overlap TLA+ does not say which arm is
taken, and nothing could be proved of it.

The assumptions are the named ASSUMEs of `TokenBucket`, `TokenBucketClients`,
`ShapeScheduler`, `DataPipe`, `SessionClose`, `ReleaseTimer`, `Endpoint` and
`ControlSession`, evaluated by TLC on every run: naturals, a positive `NANO`
and SLICE, disjoint names, a finite set of streams and of Request IDs, weights
above zero under weighted round robin.

Only model-checked: the liveness properties, since fairness and ENABLED are
beyond the prover. Every invariant and every action property of the passing
runs is a theorem.

## 5. Not modelled

- The other drafts of the client. Fifteen more draft directories repeat the
  shape of draft 14 with other messages, and the codec repeats its encoders per
  draft; the greater part of the repository's lines is of this kind. A module
  per draft would say the same again. What is found of draft 14 is a
  statement about draft 14 only.
- In draft 14: `Endpoint::close` (after it nothing happens), the delivery of
  objects and what finds a track malformed (the withdrawal that follows is
  modelled), codec errors, an explicit MAX_REQUEST_ID of zero in a setup.
- The control, request and passthrough pipes of the proxy, its listener and
  its registry; `quinn-netem`.
- Byte formats (codec, framer, trace): tested against vectors; their outcomes
  (a unit, a partial tail, a fix-up that is lost) are inputs here.
- Integer widths: `charge` multiplies 64-bit inputs in 128 bits, and a wait too
  long for a `Duration` becomes `Never` (`MaxWait`), so no width shows; the values
  elsewhere are far below theirs. `max_pending_bytes = 0`, which the code
  accepts and which shuts the read from the start, is excluded by assumption.
- Bytes that quinn has accepted and not yet acknowledged: `late` marks them at
  teardown, and nothing is claimed about their arrival.
- How late the platform's sleep returns: the wheel's instants are logical.
- Observers, counters and logs, except the teardown report.

## 6. Plan

Done: the token bucket, the scheduler, the data stream, the session's close,
the release wheel, and the client's draft-14 endpoints with their abstraction;
and a proof of every safety property of each.
Next, in this order:

1. An abstract stream (a prefix of the source without the elided units, then
   FIN or reset) and `DataPipe` shown to implement it; then the control and
   passthrough pipes against the same abstraction.
2. `quinn-netem`: the timed datagram queue and its rate model.
3. The session registry of the control plane.
