----------------------------- MODULE Endpoint -----------------------------
(***************************************************************************)
(* The draft-14 Endpoint of the client crate: session state, Request ID    *)
(* accounting and the record of every request, without I/O.  An endpoint   *)
(* is a record; a handler of an incoming message is an operator from the   *)
(* endpoint to the endpoint, and an error the code returns without         *)
(* touching its state is the endpoint unchanged.                           *)
(*                                                                         *)
(* The code keeps one map per kind and direction of request.  A Request ID *)
(* names one request whichever end opened it, so here there is one map,    *)
(* and parity tells a request this endpoint made from one the peer made.   *)
(* track_bindings and fetch_tracks are the fields alias and what.          *)
(***************************************************************************)
EXTENDS RequestFlows, Sequences

CONSTANTS Tracks,      \* full track names
          Aliases,     \* track aliases
          Namespaces,  \* track namespaces: sequences of parts
          Ids,         \* bound: Request IDs
          None

(* What a session is failed for. *)
SessionErrors == {"WrongParity", "ExceedsMax", "OutOfSequence", "Decreased", "GoAwayUriAtServer",
                  "RepeatedGoAway", "DuplicateTrackAlias", "UpdateForUnknownRequest"}

ASSUME EndpointAssumption ==
    /\ Ids \subseteq Nat
    /\ None \notin Tracks /\ None \notin Aliases
    /\ None \notin Namespaces /\ None \notin Ids /\ None \notin SessionErrors
    /\ \A ns \in Namespaces : ns \in Seq(Nat)

Roles == {"client", "server"}
Peer(role) == IF role = "client" THEN "server" ELSE "client"

(* bad: the peer's request overlapped another (overlaps) or joined nothing *)
(* (unjoinable) when it arrived.                                           *)
Request(kind, what, alias, bad) ==
  [kind |-> kind, state |-> Opened(kind), what |-> what, alias |-> alias, bad |-> bad]

NoRequest == [kind |-> "none", state |-> "Idle", what |-> None, alias |-> None, bad |-> FALSE]

(* A control message: only the fields some handler reads.                  *)
Msg(type, id) == [type |-> type, id |-> id, what |-> None, alias |-> None, ref |-> None]
About(type, what) == [Msg(type, None) EXCEPT !.what = what]

new(role) ==
  [ role              |-> role,
    session           |-> "Connecting",
    next_id           |-> IF role = "client" THEN 0 ELSE 1,
    max_id            |-> 0,
    peer_next_id      |-> IF role = "client" THEN 1 ELSE 0,
    advertised_max_id |-> 0,
    requests          |-> [id \in Ids |-> NoRequest],
    closed_for        |-> None ]

Owner(id) == IF id % 2 = 0 THEN "client" ELSE "server"
IsOwn(s, id, kind)  == s.requests[id].kind = kind /\ Owner(id) = s.role
IsPeers(s, id, kind) == s.requests[id].kind = kind /\ Owner(id) # s.role

CanMove(s, id, event) == Can(s.requests[id].kind, s.requests[id].state, event)
Moved(s, id, event) ==
  [s EXCEPT !.requests[id].state = After(s.requests[id].kind, @, event)]

(* One transition of one request, or the InvalidTransition that is none.   *)
Move(s, id, event) == IF CanMove(s, id, event) THEN Moved(s, id, event) ELSE s

MoveOwn(s, id, kind, event)   == IF IsOwn(s, id, kind) THEN Move(s, id, event) ELSE s
MovePeers(s, id, kind, event) == IF IsPeers(s, id, kind) THEN Move(s, id, event) ELSE s

require_active(s) == s.session = "Active"

(* The session is over because the peer broke a rule.  closed_for is the   *)
(* error; every one raised here has a session error code, so the           *)
(* connection closes the transport with it.                                *)
fail_session(s, error) ==
  IF OnClose(s.session) THEN [s EXCEPT !.session = "Closed", !.closed_for = error] ELSE s

-----------------------------------------------------------------------------
(* Request IDs *)

is_blocked(s) == s.next_id >= s.max_id

update_max(s, new_max) == [s EXCEPT !.max_id = new_max]
Increases(s, new_max)  == new_max > s.max_id

wrong_parity(s, id) == Owner(id) = s.role

request_id_error(s, id) ==
  IF wrong_parity(s, id) THEN "WrongParity"
  ELSE IF id >= s.advertised_max_id THEN "ExceedsMax"
  ELSE IF id # s.peer_next_id THEN "OutOfSequence"
  ELSE None

record_peer_id(s) == [s EXCEPT !.peer_next_id = @ + 2]

receive_max_request_id(s, m) ==
  IF Increases(s, m.id) THEN update_max(s, m.id) ELSE fail_session(s, "Decreased")

receive_requests_blocked(s, m) == s

-----------------------------------------------------------------------------
(* Setup and GOAWAY.  A server answers with a version the client offered   *)
(* (negotiate_version at its own end), so the client's check passes.       *)
(* A ceiling of None is an absent MAX_REQUEST_ID parameter; the id of a    *)
(* GOAWAY is the length of its New Session URI.                            *)

(* Faulty variant: an absent ceiling is read as one. *)
GrantedUnread(s, ceiling) == update_max(s, ceiling)

Granted(s, ceiling) == IF ceiling = None THEN s ELSE update_max(s, ceiling)

receive_client_setup_and_respond(s, m) ==
  IF m.id # None /\ ~Increases(s, m.id) THEN s
  ELSE [Granted(s, m.id) EXCEPT !.session = IF OnSetupComplete(@) THEN "Active" ELSE @]

(* The session is Active before the ceiling is read: one of 0 is then an   *)
(* error of a session that is already up.                                  *)
receive_server_setup(s, m) ==
  LET active == [s EXCEPT !.session = "Active"]
  IN  IF ~OnSetupComplete(s.session) THEN s
      ELSE IF m.id # None /\ ~Increases(s, m.id) THEN active
      ELSE Granted(active, m.id)

receive_goaway(s, m) ==
  IF s.role = "server" /\ m.id # 0 THEN fail_session(s, "GoAwayUriAtServer")
  ELSE IF s.session = "Draining" THEN fail_session(s, "RepeatedGoAway")
  ELSE IF OnGoAway(s.session) THEN [s EXCEPT !.session = "Draining"]
  ELSE s

-----------------------------------------------------------------------------
(* Track aliases: the bindings of both directions are in one table.        *)

(* Faulty variant: an alias is held only once the track is established. *)
EstablishedOnly(r) == r.kind \in {"subscribe", "publish"} /\ r.state = "Active"

HasBinding(r)             == r.kind \in {"subscribe", "publish"}
binding_is_in_use(r)      == HasBinding(r) /\ r.state # "Done"
binding_is_established(r) == HasBinding(r) /\ r.state = "Active"

conflicting_track_alias(s, id, alias, track) ==
  \E other \in Ids \ {id} :
    LET r == s.requests[other]
    IN  r.alias = alias /\ r.what # track /\ binding_is_established(r)

alias_held_elsewhere(s, alias, track) ==
  \E id \in Ids :
    LET r == s.requests[id]
    IN  r.alias = alias /\ r.what # track /\ binding_is_in_use(r)

(* A map iterates in no order: when two live bindings hold the alias, any. *)
track_for_alias(s, alias) ==
  { s.requests[id].what : id \in { i \in Ids : s.requests[i].alias = alias
                                              /\ binding_is_in_use(s.requests[i]) } }

-----------------------------------------------------------------------------
(* Subscriptions *)

(* A new request of the peer's, recorded unless this end is draining: the  *)
(* error is then all there is, and its Request ID is spent.                *)
Recorded(s, m, kind, alias, bad) ==
  IF require_active(s)
  THEN [s EXCEPT !.requests[m.id] = Request(kind, m.what, alias, bad)]
  ELSE s

receive_subscribe(s, m) == Recorded(s, m, "subscribe", None, FALSE)

receive_subscribe_ok(s, m) ==
  IF ~IsOwn(s, m.id, "subscribe") THEN s
  ELSE IF conflicting_track_alias(s, m.id, m.alias, s.requests[m.id].what)
  THEN fail_session(s, "DuplicateTrackAlias")
  ELSE IF ~CanMove(s, m.id, "ok") THEN s
  ELSE [Moved(s, m.id, "ok") EXCEPT !.requests[m.id].alias = m.alias]

receive_subscribe_error(s, m) == MoveOwn(s, m.id, "subscribe", "error")

(* The requests whose Request ID counts as having existed.  The update of  *)
(* a subscription of the peer's moves nothing, and a refused one neither.  *)
Existed(s, id) ==
  \/ s.requests[id].kind \in {"subscribe", "publish", "track_status"}
  \/ s.requests[id].kind # "none" /\ Owner(id) = s.role

receive_subscribe_update(s, m) ==
  IF Existed(s, m.ref) THEN s ELSE fail_session(s, "UpdateForUnknownRequest")

(* Faulty variant: an UNSUBSCRIBE is looked up among SUBSCRIBEs only. *)
UnsubscribeSubscribed(s, m) == MovePeers(s, m.id, "subscribe", "unsubscribe")

receive_unsubscribe(s, m) ==
  IF IsOwn(s, m.id, "publish") THEN Move(s, m.id, "unsubscribe")
  ELSE MovePeers(s, m.id, "subscribe", "unsubscribe")

receive_publish_done(s, m) ==
  IF IsOwn(s, m.id, "subscribe") \/ s.requests[m.id].kind = "publish"
  THEN Move(s, m.id, "done") ELSE s

receive_publish(s, m) ==
  IF require_active(s) /\ conflicting_track_alias(s, m.id, m.alias, m.what)
  THEN fail_session(s, "DuplicateTrackAlias")
  ELSE Recorded(s, m, "publish", m.alias, FALSE)

receive_publish_ok(s, m)    == MoveOwn(s, m.id, "publish", "ok")
receive_publish_error(s, m) == MoveOwn(s, m.id, "publish", "error")

-----------------------------------------------------------------------------
(* Fetches.  A Joining Fetch is judged when it arrives.                    *)

joining_subscription_missing(s, m) ==
  m.ref # None /\ ~(IsPeers(s, m.ref, "subscribe") /\ s.requests[m.ref].state # "Done")

receive_fetch(s, m) == Recorded(s, m, "fetch", None, joining_subscription_missing(s, m))

receive_fetch_ok(s, m)     == MoveOwn(s, m.id, "fetch", "ok")
receive_fetch_error(s, m)  == MoveOwn(s, m.id, "fetch", "error")
receive_fetch_cancel(s, m) == MovePeers(s, m.id, "fetch", "cancel")
on_fetch_stream_fin(s, id) == MoveOwn(s, id, "fetch", "end")
on_fetch_stream_reset(s, id) == MoveOwn(s, id, "fetch", "end")
on_peer_fetch_stream_fin(s, id) == MovePeers(s, id, "fetch", "end")

-----------------------------------------------------------------------------
(* Namespace subscriptions *)

prefixes_overlap(a, b) ==
  LET shared == IF Len(a) < Len(b) THEN Len(a) ELSE Len(b)
  IN  SubSeq(a, 1, shared) = SubSeq(b, 1, shared)

Overlaps(r, prefix) ==
  r.kind = "subscribe_namespace" /\ r.state # "Done" /\ prefixes_overlap(r.what, prefix)

peer_prefix_overlap(s, prefix) ==
  \E id \in Ids : Owner(id) # s.role /\ Overlaps(s.requests[id], prefix)

own_prefix_overlap(s, prefix) ==
  \E id \in Ids : Owner(id) = s.role /\ Overlaps(s.requests[id], prefix)

receive_subscribe_namespace(s, m) ==
  Recorded(s, m, "subscribe_namespace", None, peer_prefix_overlap(s, m.what))

receive_subscribe_namespace_ok(s, m)    == MoveOwn(s, m.id, "subscribe_namespace", "ok")
receive_subscribe_namespace_error(s, m) == MoveOwn(s, m.id, "subscribe_namespace", "error")

inbound_subscribe_namespace_ids(s, prefix) ==
  { id \in Ids : /\ IsPeers(s, id, "subscribe_namespace")
                 /\ s.requests[id].what = prefix
                 /\ s.requests[id].state # "Done" }

(* The message names a prefix: the outcomes are those of every request a   *)
(* scan of the map may find first.                                         *)
Found(s, ids, event) == IF ids = {} THEN {s} ELSE { Move(s, id, event) : id \in ids }

receive_unsubscribe_namespace(s, m) ==
  Found(s, inbound_subscribe_namespace_ids(s, m.what), "unsubscribe")

-----------------------------------------------------------------------------
(* Announcements *)

receive_publish_namespace(s, m) == Recorded(s, m, "publish_namespace", None, FALSE)

receive_publish_namespace_ok(s, m)    == MoveOwn(s, m.id, "publish_namespace", "ok")
receive_publish_namespace_error(s, m) == MoveOwn(s, m.id, "publish_namespace", "error")

inbound_publish_namespace_ids(s, ns) ==
  { id \in Ids : /\ IsPeers(s, id, "publish_namespace")
                 /\ s.requests[id].what = ns
                 /\ s.requests[id].state # "Done" }

(* Unlike the one above, this scan does not skip what has ended.           *)
own_publish_namespace_ids(s, ns) ==
  { id \in Ids : IsOwn(s, id, "publish_namespace") /\ s.requests[id].what = ns }

receive_publish_namespace_done(s, m) ==
  Found(s, inbound_publish_namespace_ids(s, m.what), "done")

receive_publish_namespace_cancel(s, m) ==
  Found(s, own_publish_namespace_ids(s, m.what), "cancel")

-----------------------------------------------------------------------------
(* Track status *)

receive_track_status(s, m)       == Recorded(s, m, "track_status", None, FALSE)
receive_track_status_ok(s, m)    == MoveOwn(s, m.id, "track_status", "ok")
receive_track_status_error(s, m) == MoveOwn(s, m.id, "track_status", "error")

-----------------------------------------------------------------------------
(* Dispatch *)

RequestTypes == {"SUBSCRIBE", "FETCH", "PUBLISH", "PUBLISH_NAMESPACE",
                 "SUBSCRIBE_NAMESPACE", "TRACK_STATUS", "SUBSCRIBE_UPDATE"}

dispatch(s, m) ==
  CASE m.type = "GOAWAY"                    -> {receive_goaway(s, m)}
    [] m.type = "MAX_REQUEST_ID"            -> {receive_max_request_id(s, m)}
    [] m.type = "REQUESTS_BLOCKED"          -> {receive_requests_blocked(s, m)}
    [] m.type = "SUBSCRIBE"                 -> {receive_subscribe(s, m)}
    [] m.type = "SUBSCRIBE_OK"              -> {receive_subscribe_ok(s, m)}
    [] m.type = "SUBSCRIBE_ERROR"           -> {receive_subscribe_error(s, m)}
    [] m.type = "SUBSCRIBE_UPDATE"          -> {receive_subscribe_update(s, m)}
    [] m.type = "UNSUBSCRIBE"               -> {receive_unsubscribe(s, m)}
    [] m.type = "PUBLISH"                   -> {receive_publish(s, m)}
    [] m.type = "PUBLISH_OK"                -> {receive_publish_ok(s, m)}
    [] m.type = "PUBLISH_ERROR"             -> {receive_publish_error(s, m)}
    [] m.type = "PUBLISH_DONE"              -> {receive_publish_done(s, m)}
    [] m.type = "FETCH"                     -> {receive_fetch(s, m)}
    [] m.type = "FETCH_OK"                  -> {receive_fetch_ok(s, m)}
    [] m.type = "FETCH_ERROR"               -> {receive_fetch_error(s, m)}
    [] m.type = "FETCH_CANCEL"              -> {receive_fetch_cancel(s, m)}
    [] m.type = "SUBSCRIBE_NAMESPACE"       -> {receive_subscribe_namespace(s, m)}
    [] m.type = "SUBSCRIBE_NAMESPACE_OK"    -> {receive_subscribe_namespace_ok(s, m)}
    [] m.type = "SUBSCRIBE_NAMESPACE_ERROR" -> {receive_subscribe_namespace_error(s, m)}
    [] m.type = "UNSUBSCRIBE_NAMESPACE"     -> receive_unsubscribe_namespace(s, m)
    [] m.type = "PUBLISH_NAMESPACE"         -> {receive_publish_namespace(s, m)}
    [] m.type = "PUBLISH_NAMESPACE_OK"      -> {receive_publish_namespace_ok(s, m)}
    [] m.type = "PUBLISH_NAMESPACE_ERROR"   -> {receive_publish_namespace_error(s, m)}
    [] m.type = "PUBLISH_NAMESPACE_DONE"    -> receive_publish_namespace_done(s, m)
    [] m.type = "PUBLISH_NAMESPACE_CANCEL"  -> receive_publish_namespace_cancel(s, m)
    [] m.type = "TRACK_STATUS"              -> {receive_track_status(s, m)}
    [] m.type = "TRACK_STATUS_OK"           -> {receive_track_status_ok(s, m)}
    [] m.type = "TRACK_STATUS_ERROR"        -> {receive_track_status_error(s, m)}

(* The outcomes of one message: the Request ID of a new request is judged  *)
(* before its handler runs, whatever that then does.                       *)
receive_message(s, m) ==
  IF m.type \notin RequestTypes THEN dispatch(s, m)
  ELSE IF request_id_error(s, m.id) # None THEN {fail_session(s, request_id_error(s, m.id))}
  ELSE dispatch(record_peer_id(s), m)
=============================================================================
