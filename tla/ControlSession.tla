-------------------------- MODULE ControlSession --------------------------
(***************************************************************************)
(* Two draft-14 endpoints, a client and a server, joined by the two        *)
(* directions of the control stream, which keep order and lose nothing.    *)
(* The applications call any operation the endpoint offers, at any time:   *)
(* an operation that returns an error changes nothing and is no step.      *)
(* They keep to what an endpoint does not check: they answer only what the *)
(* peer asked (pending_subscribe and its kind), unsubscribe only from what *)
(* they receive, and send one GOAWAY.                                      *)
(*                                                                         *)
(* A Connection method moves the endpoint first and then awaits the write. *)
(* A future dropped in between leaves a transition whose message was never *)
(* sent.                                                                   *)
(***************************************************************************)
EXTENDS Endpoint, FiniteSets

CONSTANTS Workloads,   \* what the applications of a session may do
          MaxInFlight  \* bound: messages in one direction

(* A workload: the ends that make requests, the kinds they make, the bound *)
(* on Request IDs spent by both ends together, the ceilings they grant,    *)
(* the ends that send a GOAWAY, and the bound on sends that are dropped    *)
(* before they are written.                                                *)
WorkloadType == [by       : SUBSET Roles,
                 asks     : SUBSET (Kinds \union {"update", "join"}),
                 budget   : Nat,
                 ceilings : SUBSET (Nat \ {0}),
                 goaway   : SUBSET Roles,
                 drops    : Nat]

ASSUME SessionAssumption ==
    /\ IsFiniteSet(Ids) /\ None \notin {"ok", "error"}
    /\ \A w \in Workloads : w \in WorkloadType
    /\ MaxInFlight \in Nat

VARIABLES load,     \* the workload of this session, fixed from the start
          ep,       \* ep[e]: the endpoint
          wire,     \* wire[e]: control messages on their way to e
          stream,   \* stream[id]: the data stream of fetch id
          goaway,   \* goaway[e]: e has sent its GOAWAY
          verdict,  \* history: the answer given to each request
          dropped   \* sends that were never written

vars == <<load, ep, wire, stream, goaway, verdict, dropped>>

Init ==
  /\ load \in Workloads
  /\ ep      = [e \in Roles |-> new(e)]
  /\ wire    = [e \in Roles |-> <<>>]
  /\ stream  = [id \in Ids |-> "none"]
  /\ goaway  = [e \in Roles |-> FALSE]
  /\ verdict = [id \in Ids |-> None]
  /\ dropped = 0

(* A close at either end closes the transport under both.                  *)
Open == \A e \in Roles : ep[e].session # "Closed"

Room(e) == Len(wire[Peer(e)]) < MaxInFlight

(* send_control, and the ways it may end.                                  *)
send_control(e, m) ==
  \/ wire' = [wire EXCEPT ![Peer(e)] = Append(@, m)] /\ UNCHANGED dropped
  \/ dropped < load.drops /\ dropped' = dropped + 1 /\ UNCHANGED wire

(* The endpoint moves to s and m is sent.                                  *)
Send(e, s, m) ==
  /\ Open /\ Room(e)
  /\ ep' = [ep EXCEPT ![e] = s]
  /\ send_control(e, m)

(* One transition of request id, and the message that goes with it.        *)
SendMove(e, id, event, m) ==
  /\ CanMove(ep[e], id, event)
  /\ Send(e, Moved(ep[e], id, event), m)
  /\ UNCHANGED <<load, stream, goaway, verdict>>

(* An answer to a request of the peer's.                                   *)
SendAnswer(e, id, event, m) ==
  /\ CanMove(ep[e], id, event)
  /\ Send(e, [Moved(ep[e], id, event) EXCEPT !.requests[id].alias =
                 IF m.alias = None THEN @ ELSE m.alias], m)
  /\ verdict' = [verdict EXCEPT ![id] = event]
  /\ UNCHANGED <<load, stream, goaway>>

Spent == ep["client"].next_id \div 2 + (ep["server"].next_id - 1) \div 2

(* A new request: the next Request ID, if the peer's ceiling allows one.   *)
NextId(e) == ep[e].next_id
allocate(e) == [ep[e] EXCEPT !.next_id = @ + 2]
MayAsk(e) == /\ require_active(ep[e]) /\ ~is_blocked(ep[e]) /\ NextId(e) \in Ids
             /\ e \in load.by /\ Spent < load.budget

Ask(e, kind, what, alias, m) ==
  /\ MayAsk(e)
  /\ Send(e, [allocate(e) EXCEPT !.requests[m.id] = Request(kind, what, alias, FALSE)],
             [m EXCEPT !.what = what, !.alias = alias])
  /\ UNCHANGED <<load, stream, goaway, verdict>>

-----------------------------------------------------------------------------
(* Setup *)

connect(s)                    == [s EXCEPT !.session = "SetupExchange"]
send_client_setup(s, ceiling) == IF ceiling = None THEN s
                                 ELSE [s EXCEPT !.advertised_max_id = ceiling]

(* The client's half of adopt_offering, up to the wait for SERVER_SETUP.   *)
adopt_offering ==
  /\ OnConnect(ep["client"].session)
  /\ \E ceiling \in load.ceilings \union {None} :
       /\ ep' = [ep EXCEPT !["client"] = send_client_setup(connect(@), ceiling)]
       /\ wire' = [wire EXCEPT !["server"] = Append(@, Msg("CLIENT_SETUP", ceiling))]
  /\ UNCHANGED <<load, stream, goaway, verdict, dropped>>

AcceptConnection ==
  /\ OnConnect(ep["server"].session)
  /\ ep' = [ep EXCEPT !["server"] = connect(@)]
  /\ UNCHANGED <<load, wire, stream, goaway, verdict, dropped>>

(* SERVER_SETUP carries no parameters, and is not built when the setup     *)
(* is refused.                                                             *)
AcceptSetup ==
  /\ ep["server"].session = "SetupExchange" /\ wire["server"] # <<>>
  /\ LET s == receive_client_setup_and_respond(ep["server"], Head(wire["server"]))
     IN  /\ ep' = [ep EXCEPT !["server"] = s]
         /\ wire' = [wire EXCEPT !["server"] = Tail(@),
                                !["client"] = IF s.session = "Active"
                                              THEN <<Msg("SERVER_SETUP", None)>> ELSE <<>>]
  /\ UNCHANGED <<load, stream, goaway, verdict, dropped>>

FinishSetup ==
  /\ ep["client"].session = "SetupExchange" /\ wire["client"] # <<>>
  /\ ep' = [ep EXCEPT !["client"] = receive_server_setup(@, Head(wire["client"]))]
  /\ wire' = [wire EXCEPT !["client"] = Tail(@)]
  /\ UNCHANGED <<load, stream, goaway, verdict, dropped>>

-----------------------------------------------------------------------------
(* Request budget and GOAWAY *)

send_max_request_id(e, ceiling) ==
  /\ ep[e].session \in {"Active", "Draining"}
  /\ ceiling > ep[e].advertised_max_id
  /\ Send(e, [ep[e] EXCEPT !.advertised_max_id = ceiling], Msg("MAX_REQUEST_ID", ceiling))
  /\ UNCHANGED <<load, stream, goaway, verdict>>

(* Called when a request was refused for want of an identifier.            *)
send_requests_blocked(e) ==
  /\ ep[e].session = "Active" /\ is_blocked(ep[e])
  /\ e \in load.by /\ wire[Peer(e)] = <<>>
  /\ Send(e, ep[e], Msg("REQUESTS_BLOCKED", ep[e].max_id))
  /\ UNCHANGED <<load, stream, goaway, verdict>>

(* No operation of the endpoint sends GOAWAY: the application writes it.   *)
(* Only a server names a URI.                                              *)
SendGoAway(e) ==
  /\ ep[e].session \in {"Active", "Draining"} /\ e \in load.goaway /\ ~goaway[e]
  /\ Send(e, ep[e], Msg("GOAWAY", IF e = "server" THEN 1 ELSE 0))
  /\ goaway' = [goaway EXCEPT ![e] = TRUE]
  /\ UNCHANGED <<load, stream, verdict>>

-----------------------------------------------------------------------------
(* Subscriptions and offers *)

subscribe(e, track) ==
  "subscribe" \in load.asks /\ Ask(e, "subscribe", track, None, Msg("SUBSCRIBE", NextId(e)))

subscribe_update(e, id) ==
  /\ "update" \in load.asks /\ MayAsk(e)
  /\ IsOwn(ep[e], id, "subscribe") /\ CanMove(ep[e], id, "update")
  /\ Send(e, allocate(e), [Msg("SUBSCRIBE_UPDATE", NextId(e)) EXCEPT !.ref = id])
  /\ UNCHANGED <<load, stream, goaway, verdict>>

send_subscribe_ok(e, id, alias) ==
  /\ IsPeers(ep[e], id, "subscribe")
  /\ ~alias_held_elsewhere(ep[e], alias, ep[e].requests[id].what)
  /\ SendAnswer(e, id, "ok", [Msg("SUBSCRIBE_OK", id) EXCEPT !.alias = alias])

send_subscribe_error(e, id) ==
  IsPeers(ep[e], id, "subscribe") /\ SendAnswer(e, id, "error", Msg("SUBSCRIBE_ERROR", id))

(* Of a subscription this end opened, or of an offer it accepted.          *)
unsubscribe(e, id) ==
  /\ IsOwn(ep[e], id, "subscribe") \/ IsPeers(ep[e], id, "publish")
  /\ SendMove(e, id, "unsubscribe", Msg("UNSUBSCRIBE", id))

(* Nothing keeps a publisher from ending a finished subscription again.    *)
send_publish_done(e, id) ==
  /\ IsPeers(ep[e], id, "subscribe") \/ IsOwn(ep[e], id, "publish")
  /\ SendMove(e, id, "done", Msg("PUBLISH_DONE", id))

publish(e, track, alias) ==
  /\ "publish" \in load.asks /\ ~alias_held_elsewhere(ep[e], alias, track)
  /\ Ask(e, "publish", track, alias, Msg("PUBLISH", NextId(e)))

send_publish_ok(e, id) ==
  IsPeers(ep[e], id, "publish") /\ SendAnswer(e, id, "ok", Msg("PUBLISH_OK", id))

send_publish_error(e, id) ==
  IsPeers(ep[e], id, "publish") /\ SendAnswer(e, id, "error", Msg("PUBLISH_ERROR", id))

-----------------------------------------------------------------------------
(* Fetches *)

fetch(e, track) ==
  "fetch" \in load.asks /\ Ask(e, "fetch", track, None, Msg("FETCH", NextId(e)))

(* The track of a request, where track_bindings holds one for it.          *)
JoinedTrack(r) == IF r.kind \in {"subscribe", "publish"} THEN r.what ELSE None

(* A Joining Fetch names no track on the wire; its own record has the      *)
(* track of the request it joins, if that has one.  Any Request ID may be  *)
(* named: whether it can be joined is the publisher's to say.              *)
joining_fetch_of_type(e, joined) ==
  /\ "join" \in load.asks /\ MayAsk(e)
  /\ Send(e, [allocate(e) EXCEPT !.requests[NextId(e)] =
                  Request("fetch", JoinedTrack(ep[e].requests[joined]), None, FALSE)],
             [Msg("FETCH", NextId(e)) EXCEPT !.ref = joined])
  /\ UNCHANGED <<load, stream, goaway, verdict>>

fetch_cancel(e, id) ==
  IsOwn(ep[e], id, "fetch") /\ SendMove(e, id, "cancel", Msg("FETCH_CANCEL", id))

send_fetch_ok(e, id) ==
  /\ IsPeers(ep[e], id, "fetch") /\ ~ep[e].requests[id].bad
  /\ SendAnswer(e, id, "ok", Msg("FETCH_OK", id))

(* With the code the draft requires where the fetch joins nothing.         *)
send_fetch_error(e, id) ==
  IsPeers(ep[e], id, "fetch") /\ SendAnswer(e, id, "error", Msg("FETCH_ERROR", id))

(* The publisher finishes the data stream, answered or not, or resets it,  *)
(* for which the endpoint has no operation.                                *)
FinishFetchStream(e, id) ==
  /\ Open /\ IsPeers(ep[e], id, "fetch") /\ stream[id] = "none"
  /\ ep[e].requests[id].state \in {"Pending", "Receiving"}
  /\ ep' = [ep EXCEPT ![e] = on_peer_fetch_stream_fin(@, id)]
  /\ stream' = [stream EXCEPT ![id] = "fin"]
  /\ UNCHANGED <<load, wire, goaway, verdict, dropped>>

ResetFetchStream(e, id) ==
  /\ Open /\ IsPeers(ep[e], id, "fetch") /\ stream[id] = "none"
  /\ stream' = [stream EXCEPT ![id] = "reset"]
  /\ UNCHANGED <<load, ep, wire, goaway, verdict, dropped>>

FetchStreamEnds(e, id) ==
  /\ Open /\ IsOwn(ep[e], id, "fetch")
  /\ \/ stream[id] = "fin"   /\ ep' = [ep EXCEPT ![e] = on_fetch_stream_fin(@, id)]
     \/ stream[id] = "reset" /\ ep' = [ep EXCEPT ![e] = on_fetch_stream_reset(@, id)]
  /\ stream' = [stream EXCEPT ![id] = IF @ = "fin" THEN "finished" ELSE "was_reset"]
  /\ UNCHANGED <<load, wire, goaway, verdict, dropped>>

-----------------------------------------------------------------------------
(* Namespaces and track status *)

subscribe_namespace(e, prefix) ==
  /\ "subscribe_namespace" \in load.asks /\ ~own_prefix_overlap(ep[e], prefix)
  /\ Ask(e, "subscribe_namespace", prefix, None, Msg("SUBSCRIBE_NAMESPACE", NextId(e)))

unsubscribe_namespace(e, id) ==
  /\ IsOwn(ep[e], id, "subscribe_namespace")
  /\ SendMove(e, id, "unsubscribe", About("UNSUBSCRIBE_NAMESPACE", ep[e].requests[id].what))

send_subscribe_namespace_ok(e, id) ==
  /\ IsPeers(ep[e], id, "subscribe_namespace") /\ ~ep[e].requests[id].bad
  /\ SendAnswer(e, id, "ok", Msg("SUBSCRIBE_NAMESPACE_OK", id))

(* With NAMESPACE_PREFIX_OVERLAP where the prefix overlaps.                *)
send_subscribe_namespace_error(e, id) ==
  /\ IsPeers(ep[e], id, "subscribe_namespace")
  /\ SendAnswer(e, id, "error", Msg("SUBSCRIBE_NAMESPACE_ERROR", id))

(* The application announces a namespace again only once its own record of *)
(* the earlier announcement has ended.                                     *)
publish_namespace(e, ns) ==
  /\ "publish_namespace" \in load.asks
  /\ \A id \in own_publish_namespace_ids(ep[e], ns) : ep[e].requests[id].state = "Done"
  /\ Ask(e, "publish_namespace", ns, None, Msg("PUBLISH_NAMESPACE", NextId(e)))

send_publish_namespace_ok(e, id) ==
  /\ IsPeers(ep[e], id, "publish_namespace")
  /\ SendAnswer(e, id, "ok", Msg("PUBLISH_NAMESPACE_OK", id))

send_publish_namespace_error(e, id) ==
  /\ IsPeers(ep[e], id, "publish_namespace")
  /\ SendAnswer(e, id, "error", Msg("PUBLISH_NAMESPACE_ERROR", id))

publish_namespace_done(e, ns) ==
  \E id \in own_publish_namespace_ids(ep[e], ns) :
    SendMove(e, id, "done", About("PUBLISH_NAMESPACE_DONE", ns))

publish_namespace_cancel(e, ns) ==
  \E id \in inbound_publish_namespace_ids(ep[e], ns) :
    SendMove(e, id, "cancel", About("PUBLISH_NAMESPACE_CANCEL", ns))

track_status(e, track) ==
  "track_status" \in load.asks /\ Ask(e, "track_status", track, None, Msg("TRACK_STATUS", NextId(e)))

send_track_status_ok(e, id) ==
  IsPeers(ep[e], id, "track_status") /\ SendAnswer(e, id, "ok", Msg("TRACK_STATUS_OK", id))

send_track_status_error(e, id) ==
  IsPeers(ep[e], id, "track_status") /\ SendAnswer(e, id, "error", Msg("TRACK_STATUS_ERROR", id))

-----------------------------------------------------------------------------
(* A track found malformed: every request this end receives it through     *)
(* ends.  What found it (an object past the final one, a mixed forwarding  *)
(* preference) is not modelled.                                            *)

InUse(s, id, track) ==
  LET r == s.requests[id]
  IN  r.what = track /\ (binding_is_in_use(r) \/ (IsOwn(s, id, "fetch") /\ r.state # "Done"))

withdraw_one(s, id) ==
  CASE IsOwn(s, id, "fetch")       -> Move(s, id, "cancel")
    [] IsOwn(s, id, "subscribe")   -> Move(s, id, "unsubscribe")
    [] IsPeers(s, id, "publish")   -> Move(s, id, "unsubscribe")
    [] OTHER                       -> s

WithdrawnIds(s, track) == { id \in Ids : InUse(s, id, track) /\ withdraw_one(s, id) # s }

(* The messages, by Request ID.                                            *)
Sorted(ids) ==
  { order \in [1..Cardinality(ids) -> ids] :
      \A m, n \in DOMAIN order : m < n => order[m] < order[n] }
Withdrawals(s, order) ==
  [n \in DOMAIN order |->
     Msg(IF s.requests[order[n]].kind = "fetch" THEN "FETCH_CANCEL" ELSE "UNSUBSCRIBE",
         order[n])]

(* All of them have ended before the first message is written, and a       *)
(* future that is dropped between two writes leaves the rest unsent.       *)
withdraw_malformed_track(e, alias) ==
  \E track \in track_for_alias(ep[e], alias) :
    LET ids == WithdrawnIds(ep[e], track)
    IN  /\ Open /\ ids # {} /\ Len(wire[Peer(e)]) + Cardinality(ids) <= MaxInFlight
        /\ ep' = [ep EXCEPT ![e].requests =
                     [id \in Ids |-> IF id \in ids THEN withdraw_one(ep[e], id).requests[id]
                                     ELSE @[id]]]
        /\ \E order \in Sorted(ids), written \in 0..Cardinality(ids) :
             /\ wire' = [wire EXCEPT ![Peer(e)] =
                            @ \o SubSeq(Withdrawals(ep[e], order), 1, written)]
             /\ dropped' = IF written = Cardinality(ids) THEN dropped ELSE dropped + 1
             /\ dropped' <= load.drops
        /\ UNCHANGED <<load, stream, goaway, verdict>>

-----------------------------------------------------------------------------
(* recv_and_dispatch: the next control message reaches the endpoint.       *)

recv_and_dispatch(e) ==
  /\ Open /\ ep[e].session \in {"Active", "Draining"} /\ wire[e] # <<>>
  /\ \E s \in receive_message(ep[e], Head(wire[e])) : ep' = [ep EXCEPT ![e] = s]
  /\ wire' = [wire EXCEPT ![e] = Tail(@)]
  /\ UNCHANGED <<load, stream, goaway, verdict, dropped>>

-----------------------------------------------------------------------------
Asks(e) ==
  \/ \E track \in Tracks : subscribe(e, track) \/ fetch(e, track) \/ track_status(e, track)
  \/ \E track \in Tracks, alias \in Aliases : publish(e, track, alias)
  \/ \E ns \in Namespaces : subscribe_namespace(e, ns) \/ publish_namespace(e, ns)
  \/ \E id \in Ids : subscribe_update(e, id) \/ joining_fetch_of_type(e, id)

Answers(e, id) ==
  \/ \E alias \in Aliases : send_subscribe_ok(e, id, alias)
  \/ send_subscribe_error(e, id)
  \/ send_publish_ok(e, id) \/ send_publish_error(e, id)
  \/ send_fetch_ok(e, id) \/ send_fetch_error(e, id)
  \/ send_subscribe_namespace_ok(e, id) \/ send_subscribe_namespace_error(e, id)
  \/ send_publish_namespace_ok(e, id) \/ send_publish_namespace_error(e, id)
  \/ send_track_status_ok(e, id) \/ send_track_status_error(e, id)

Ends(e) ==
  \/ \E id \in Ids : \/ unsubscribe(e, id) \/ send_publish_done(e, id)
                     \/ fetch_cancel(e, id) \/ unsubscribe_namespace(e, id)
                     \/ FinishFetchStream(e, id) \/ ResetFetchStream(e, id)
                     \/ FetchStreamEnds(e, id)
  \/ \E ns \in Namespaces : publish_namespace_done(e, ns) \/ publish_namespace_cancel(e, ns)
  \/ \E alias \in Aliases : withdraw_malformed_track(e, alias)

Session(e) ==
  \/ \E ceiling \in load.ceilings : send_max_request_id(e, ceiling)
  \/ send_requests_blocked(e) \/ SendGoAway(e)

Next ==
  \/ adopt_offering \/ AcceptConnection \/ AcceptSetup \/ FinishSetup
  \/ \E e \in Roles : \/ Session(e) \/ Asks(e) \/ Ends(e) \/ recv_and_dispatch(e)
                      \/ \E id \in Ids : Answers(e, id)

Spec == Init /\ [][Next]_vars

-----------------------------------------------------------------------------
(* What a request is to the two ends, without the messages.                *)

Phase(state) ==
  CASE state = "Idle"                    -> "none"
    [] state \in {"Active", "Receiving"} -> "active"
    [] state = "Done"                    -> "over"
    [] OTHER                             -> "pending"

AskerPhase    == [id \in Ids |-> Phase(ep[Owner(id)].requests[id].state)]
AnswererPhase == [id \in Ids |-> Phase(ep[Peer(Owner(id))].requests[id].state)]

Life == INSTANCE RequestLife WITH asker <- AskerPhase, answerer <- AnswererPhase

(* Over any interleaving of calls, messages and stream ends, every request *)
(* lives as RequestLife says: it is decided at most once and only after it *)
(* arrived, the asker learns only what was decided, nothing that is over   *)
(* comes back, and one undecided ends at the answerer only when the asker  *)
(* gave it up.                                                             *)
ImplementsRequestLife == Life!Spec

-----------------------------------------------------------------------------
(* Properties *)

Requests ==
  [kind : Kinds \union {"none"}, state : States, what : Tracks \union Namespaces \union {None},
   alias : Aliases \union {None}, bad : BOOLEAN]

Endpoints ==
  [role : Roles, session : SessionStates, next_id : Nat, max_id : Nat, peer_next_id : Nat,
   advertised_max_id : Nat, requests : [Ids -> Requests],
   closed_for : SessionErrors \union {None}]

SetupTypes == {"CLIENT_SETUP", "SERVER_SETUP"}

OkTypes    == {"SUBSCRIBE_OK", "PUBLISH_OK", "FETCH_OK", "SUBSCRIBE_NAMESPACE_OK",
               "PUBLISH_NAMESPACE_OK", "TRACK_STATUS_OK"}
ErrorTypes == {"SUBSCRIBE_ERROR", "PUBLISH_ERROR", "FETCH_ERROR", "SUBSCRIBE_NAMESPACE_ERROR",
               "PUBLISH_NAMESPACE_ERROR", "TRACK_STATUS_ERROR"}
EndTypes   == {"UNSUBSCRIBE", "PUBLISH_DONE", "FETCH_CANCEL"}
CountTypes == {"GOAWAY", "MAX_REQUEST_ID", "REQUESTS_BLOCKED"}
AboutTypes == {"UNSUBSCRIBE_NAMESPACE", "PUBLISH_NAMESPACE_DONE", "PUBLISH_NAMESPACE_CANCEL"}

MessageTypes == SetupTypes \union RequestTypes \union OkTypes \union ErrorTypes \union EndTypes
                  \union CountTypes \union AboutTypes

Messages ==
  [type : MessageTypes, id : Nat \union {None}, what : Tracks \union Namespaces \union {None},
   alias : Aliases \union {None}, ref : Ids \union {None}]

(* Every field of both endpoints stays in its range, and so does what is   *)
(* on the wire.                                                            *)
TypeOK ==
  /\ load \in Workloads
  /\ ep \in [Roles -> Endpoints] /\ \A e \in Roles : ep[e].role = e
  /\ wire \in [Roles -> Seq(Messages)]
  /\ stream \in [Ids -> {"none", "fin", "finished", "reset", "was_reset"}]
  /\ goaway \in [Roles -> BOOLEAN]
  /\ verdict \in [Ids -> {None, "ok", "error"}]
  /\ dropped \in 0..load.drops

Settled == wire["client"] = <<>> /\ wire["server"] = <<>>
           /\ \A id \in Ids : stream[id] \notin {"fin", "reset"}

(* The aliases an endpoint gave out itself, and those the peer gave it.    *)
GivenOut(s, id) == IsPeers(s, id, "subscribe") \/ IsOwn(s, id, "publish")
Received(s, id) == IsOwn(s, id, "subscribe") \/ IsPeers(s, id, "publish")

(* Two endpoints that keep the rules do not close the session on each      *)
(* other, except that the alias table mixes the directions (receive_publish*)
(* and receive_subscribe_ok judge the peer's alias against those this end  *)
(* gave out), that a draining endpoint forgets what it refused             *)
(* (receive_subscribe, then receive_subscribe_update), and that a send     *)
(* dropped before it was written leaves a hole: in the Request IDs         *)
(* (record_peer_id), in what existed, or in what has ended.                *)
AliasOfOtherDirection(s) ==
  \E id \in Ids : GivenOut(s, id) /\ binding_is_established(s.requests[id])

ClosesExplained ==
  \A e \in Roles :
    \/ ep[e].closed_for = None
    \/ ep[e].closed_for = "DuplicateTrackAlias" /\ (AliasOfOtherDirection(ep[e]) \/ dropped > 0)
    \/ ep[e].closed_for = "UpdateForUnknownRequest" /\ (goaway[Peer(e)] \/ dropped > 0)
    \/ ep[e].closed_for = "OutOfSequence" /\ dropped > 0

(* When nothing is on its way, both ends have every request in the same    *)
(* state, whichever messages crossed; except what a draining endpoint      *)
(* refused unanswered, a fetch whose stream the publisher reset, and an    *)
(* announcement of a namespace that was announced before: there            *)
(* own_publish_namespace_id may find the one that has ended.               *)
Agreed(id) ==
  \/ ep["client"].requests[id].state = ep["server"].requests[id].state
  \/ ep[Peer(Owner(id))].session = "Draining" /\ ep[Peer(Owner(id))].requests[id] = NoRequest
  \/ stream[id] = "was_reset"

Reannounced(id) ==
  LET own == ep[Owner(id)].requests
  IN  /\ own[id].kind = "publish_namespace"
      /\ \E other \in Ids \ {id} : /\ Owner(other) = Owner(id)
                                  /\ own[other].kind = "publish_namespace"
                                  /\ own[other].what = own[id].what

SettledAgreement ==
  Open /\ Settled /\ dropped = 0 => \A id \in Ids : Agreed(id) \/ Reannounced(id)

(* At the receiving end one alias never names two tracks: an object that   *)
(* arrives under it belongs to the track it was sent for.                  *)
AliasNamesOneTrack ==
  \A e \in Roles : \A i, j \in Ids :
    LET a == ep[e].requests[i]
        b == ep[e].requests[j]
    IN  /\ Received(ep[e], i) /\ Received(ep[e], j)
        /\ binding_is_established(a) /\ binding_is_established(b)
        /\ a.alias = b.alias
        => a.what = b.what
=============================================================================
