------------------------ MODULE ControlSessionProofs ------------------------
(***************************************************************************)
(* What a session of two endpoints keeps for any tracks, aliases,          *)
(* namespaces, Request IDs and workloads: the types, that every request    *)
(* lives as RequestLife says, and that an alias names one track.  The      *)
(* first two rest on Inv, which relates the two records of a request to    *)
(* each other and to what is on the wire; the last adds to it, in          *)
(* AliasInv, what has been said of aliases and is not yet heard.           *)
(***************************************************************************)
EXTENDS ControlSession, FiniteSetTheorems, TLAPS

(* The kind of request a message is about, or opens. *)
KindOf(type) ==
  CASE type \in {"SUBSCRIBE", "SUBSCRIBE_OK", "SUBSCRIBE_ERROR"} -> "subscribe"
    [] type \in {"PUBLISH", "PUBLISH_OK", "PUBLISH_ERROR"} -> "publish"
    [] type \in {"FETCH", "FETCH_OK", "FETCH_ERROR", "FETCH_CANCEL"} -> "fetch"
    [] type \in {"SUBSCRIBE_NAMESPACE", "SUBSCRIBE_NAMESPACE_OK", "SUBSCRIBE_NAMESPACE_ERROR"} ->
         "subscribe_namespace"
    [] type \in {"PUBLISH_NAMESPACE", "PUBLISH_NAMESPACE_OK", "PUBLISH_NAMESPACE_ERROR"} ->
         "publish_namespace"
    [] type \in {"TRACK_STATUS", "TRACK_STATUS_OK", "TRACK_STATUS_ERROR"} -> "track_status"
    [] OTHER -> "none"

OnWire(e) == { wire[e][i] : i \in DOMAIN wire[e] }
Early(e)  == ep[e].session \in {"Connecting", "SetupExchange"}

(* A message has the fields its handler reads. *)
WellFormed(m) ==
  /\ m.type \in RequestTypes \union OkTypes \union ErrorTypes \union EndTypes => m.id \in Ids
  /\ m.type \in CountTypes => m.id \in Nat
  /\ m.type = "SUBSCRIBE_UPDATE" => m.ref \in Ids

(* Before the handshake is over there is nothing but the handshake.        *)
Setup ==
  /\ \A e \in Roles : Early(e) => \A id \in Ids : ep[e].requests[id] = NoRequest
  /\ ep["client"].session = "Connecting" => wire["server"] = <<>> /\ Early("server")
  /\ Early("server") => Early("client") /\ wire["client"] = <<>> /\ Len(wire["server"]) <= 1
  /\ ~Early("server") => \A m \in OnWire("server") : m.type \notin SetupTypes
  /\ ~Early("client") => \A m \in OnWire("client") : m.type \notin SetupTypes
  /\ \A i \in DOMAIN wire["client"] : i > 1 => wire["client"][i].type \notin SetupTypes

(* Request IDs not yet used or not yet seen have no record.                *)
Counted(s) ==
  /\ Owner(s.next_id) = s.role /\ Owner(s.peer_next_id) # s.role
  /\ \A id \in Ids :
       /\ Owner(id) = s.role /\ id >= s.next_id => s.requests[id] = NoRequest
       /\ Owner(id) # s.role /\ id >= s.peer_next_id => s.requests[id] = NoRequest
       /\ s.requests[id].kind = "none" => s.requests[id] = NoRequest
       /\ s.requests[id].kind # "none" => s.requests[id].state # "Idle"

Counters == \A e \in Roles : Counted(ep[e])

Undecided == {"Idle", "Subscribing", "Publishing", "Pending", "Unanswered"}

(* What a message on its way to e says of the two records.                 *)
Meant(e, m) ==
  /\ m.type \in RequestTypes =>
       /\ Owner(m.id) = Peer(e) /\ m.id < ep[Peer(e)].next_id
       /\ m.type # "SUBSCRIBE_UPDATE" => ep[Peer(e)].requests[m.id].kind = KindOf(m.type)
  /\ m.type \in OkTypes    => Owner(m.id) = e /\ verdict[m.id] = "ok"
  /\ m.type \in ErrorTypes => Owner(m.id) = e /\ verdict[m.id] = "error"
  /\ m.type = "FETCH_CANCEL" =>
       Owner(m.id) = Peer(e) /\ ep[Peer(e)].requests[m.id].state = "Done"

Meaning == \A e \in Roles : \A m \in OnWire(e) : WellFormed(m) /\ Meant(e, m)

(* A verdict is given once: while the answerer has not decided there is    *)
(* none.                                                                   *)
Verdicts ==
  \A id \in Ids : verdict[id] # None =>
    ep[Peer(Owner(id))].requests[id].state \notin Undecided

Inv == TypeOK /\ Setup /\ Counters /\ Meaning /\ Verdicts

-----------------------------------------------------------------------------
(* The state machines *)

(* What a move of a request's machine can do.                              *)
LEMMA MoveFacts ==
  ASSUME NEW kind, NEW state, NEW event, NEW to, <<state, event, to>> \in Moves(kind)
  PROVE  /\ kind \in Kinds /\ state \in States /\ to \in States
         /\ state # "Idle" /\ to # "Idle"
         /\ event \in {"ok", "error"} => state \in Undecided /\ to \notin Undecided
         /\ event = "error" => to = "Done"
         /\ event \in {"unsubscribe", "done"} => state \notin Undecided /\ to = "Done"
         /\ event = "cancel" => to = "Done" /\ (kind = "fetch" \/ state \notin Undecided)
         /\ event = "end" => kind = "fetch" /\ (to = "Done" \/ to = "Unanswered")
         /\ event = "end" /\ to = "Done" => state \notin Undecided
         /\ event = "end" /\ to = "Unanswered" => state = "Pending"
         /\ event = "update" => to = state
         /\ state = "Done" => to = "Done"
         /\ state \notin Undecided => to \notin Undecided
         /\ kind = "publish" /\ state = "Publishing" => event \in {"ok", "error"}
         /\ kind \in {"subscribe", "publish"} /\ to = "Active" => event = "ok" \/ to = state
         /\ kind \in {"subscribe", "publish"} /\ state \in {"Active", "Done"} => to # "Publishing"
         /\ kind \in {"subscribe", "publish"} /\ event = "ok" => to = "Active"
         /\ kind = "publish" => to \in {"Active", "Done"} /\ state \in {"Publishing", "Active"}
<1>1. CASE kind = "subscribe"
  <2>1. <<state, event, to>> \in SubscriptionMoves
    BY <1>1 DEF Moves
  <2> QED
    BY <1>1, <2>1 DEF SubscriptionMoves, Undecided, Kinds, States
<1>2. CASE kind = "publish"
  <2>1. <<state, event, to>> \in PublishMoves
    BY <1>2 DEF Moves
  <2> QED
    BY <1>2, <2>1 DEF PublishMoves, Undecided, Kinds, States
<1>3. CASE kind = "fetch"
  <2>1. <<state, event, to>> \in FetchMoves
    BY <1>3 DEF Moves
  <2> QED
    BY <1>3, <2>1 DEF FetchMoves, Undecided, Kinds, States
<1>4. CASE kind = "subscribe_namespace"
  <2>1. <<state, event, to>> \in SubscribeNamespaceMoves
    BY <1>4 DEF Moves
  <2> QED
    BY <1>4, <2>1 DEF SubscribeNamespaceMoves, Undecided, Kinds, States
<1>5. CASE kind = "publish_namespace"
  <2>1. <<state, event, to>> \in PublishNamespaceMoves
    BY <1>5 DEF Moves
  <2> QED
    BY <1>5, <2>1 DEF PublishNamespaceMoves, Undecided, Kinds, States
<1>6. CASE kind = "track_status"
  <2>1. <<state, event, to>> \in TrackStatusMoves
    BY <1>6 DEF Moves
  <2> QED
    BY <1>6, <2>1 DEF TrackStatusMoves, Undecided, Kinds, States
<1> QED
  BY <1>1, <1>2, <1>3, <1>4, <1>5, <1>6 DEF Moves

(* A machine that can move goes where a move of its table leads.           *)
LEMMA AfterIs ==
  ASSUME NEW kind, NEW state, NEW event, Can(kind, state, event)
  PROVE  /\ <<state, event, After(kind, state, event)>> \in Moves(kind)
         /\ After(kind, state, event) \in States
<1>1. \E to \in States : <<state, event, to>> \in Moves(kind)
  BY DEF Can
<1> QED
  BY <1>1 DEF After

-----------------------------------------------------------------------------
(* Endpoints *)

(* The requests and the counters of s are those of t.                      *)
Alike(s, t) ==
  t.role = s.role /\ t.next_id = s.next_id /\ t.peer_next_id = s.peer_next_id

Quiet(s, t) == Alike(s, t) /\ t.requests = s.requests

(* So are the ceilings, and why it was closed.                             *)
Steady(s, t) ==
  /\ t.max_id = s.max_id /\ t.advertised_max_id = s.advertised_max_id
  /\ t.closed_for = s.closed_for

(* t is s after one event of request id, which may bind an alias.          *)
Changed(s, t, id, event, alias) ==
  /\ Alike(s, t) /\ Steady(s, t) /\ t.session = s.session
  /\ \A j \in Ids \ {id} : t.requests[j] = s.requests[j]
  /\ <<s.requests[id].state, event, t.requests[id].state>> \in Moves(s.requests[id].kind)
  /\ t.requests[id].kind = s.requests[id].kind /\ t.requests[id].what = s.requests[id].what
  /\ t.requests[id].alias = alias

(* One transition of one request, with the alias it may bind.              *)
LEMMA MovedIs ==
  ASSUME NEW s \in Endpoints, NEW id \in Ids, NEW event, CanMove(s, id, event)
  PROVE  /\ Moved(s, id, event) \in Endpoints
         /\ Changed(s, Moved(s, id, event), id, event, s.requests[id].alias)
<1> DEFINE r  == s.requests[id]
           to == After(r.kind, r.state, event)
<1>1. r \in Requests /\ s.requests \in [Ids -> Requests]
  BY DEF Endpoints
<1>2. <<r.state, event, to>> \in Moves(r.kind) /\ to \in States
  BY AfterIs DEF CanMove
<1> HIDE DEF to
<1>3. Moved(s, id, event) = [s EXCEPT !.requests = [s.requests EXCEPT ![id] = [r EXCEPT !.state = to]]]
  BY <1>1 DEF Moved, Endpoints, to
<1>4. [r EXCEPT !.state = to] \in Requests
  BY <1>1, <1>2 DEF Requests
<1>5. [s.requests EXCEPT ![id] = [r EXCEPT !.state = to]] \in [Ids -> Requests]
  BY <1>1, <1>4
<1>6. Moved(s, id, event) \in Endpoints
  BY <1>3, <1>5 DEF Endpoints
<1>7. [r EXCEPT !.state = to].state = to /\ [r EXCEPT !.state = to].kind = r.kind
      /\ [r EXCEPT !.state = to].what = r.what /\ [r EXCEPT !.state = to].alias = r.alias
  BY <1>1 DEF Requests
<1>8. Moved(s, id, event).requests[id] = [r EXCEPT !.state = to]
      /\ \A j \in Ids \ {id} : Moved(s, id, event).requests[j] = s.requests[j]
  BY <1>1, <1>3 DEF Endpoints
<1>9. /\ Alike(s, Moved(s, id, event)) /\ Steady(s, Moved(s, id, event))
      /\ Moved(s, id, event).session = s.session
  BY <1>3 DEF Endpoints, Alike, Steady
<1> QED
  BY <1>2, <1>6, <1>7, <1>8, <1>9 DEF Changed

(* The same, or nothing. *)
LEMMA MoveIs ==
  ASSUME NEW s \in Endpoints, NEW id \in Ids, NEW event, NEW t, t = Move(s, id, event)
  PROVE  t \in Endpoints /\ (t = s \/ Changed(s, t, id, event, s.requests[id].alias))
BY MovedIs DEF Move

(* A session that is failed changes nothing else.                          *)
LEMMA FailIs ==
  ASSUME NEW s \in Endpoints, NEW error \in SessionErrors, NEW t, t = fail_session(s, error)
  PROVE  t \in Endpoints /\ Quiet(s, t) /\ t.session \in {s.session, "Closed"}
<1>1. CASE t = s
  BY <1>1 DEF Quiet, Alike
<1>2. CASE t = [s EXCEPT !.session = "Closed", !.closed_for = error]
  <2>1. t \in Endpoints
    BY <1>2 DEF Endpoints, SessionStates
  <2>2. Quiet(s, t) /\ t.session = "Closed"
    BY <1>2 DEF Quiet, Alike, Endpoints
  <2> QED
    BY <2>1, <2>2
<1> QED
  BY <1>1, <1>2 DEF fail_session

(* What one message does to the endpoint that reads it.                    *)
Learned(s, t, m) ==
  /\ m.type \in OkTypes \union ErrorTypes /\ m.id \in Ids
  /\ IsOwn(s, m.id, KindOf(m.type))
  /\ Changed(s, t, m.id, IF m.type \in OkTypes THEN "ok" ELSE "error",
             IF m.type = "SUBSCRIBE_OK" THEN m.alias ELSE s.requests[m.id].alias)
  /\ m.type = "SUBSCRIBE_OK" =>
       ~conflicting_track_alias(s, m.id, m.alias, s.requests[m.id].what)

ToldOver(s, t, m) ==
  \E id \in Ids, event \in {"unsubscribe", "done", "cancel"} :
    /\ Changed(s, t, id, event, s.requests[id].alias)
    /\ event = "cancel" /\ s.requests[id].kind = "fetch" =>
         m.type = "FETCH_CANCEL" /\ id = m.id /\ Owner(id) # s.role

Admitted(s, t, m) ==
  /\ m.type \in RequestTypes /\ m.id \in Ids
  /\ m.id = s.peer_next_id /\ Owner(m.id) # s.role
  /\ t.role = s.role /\ t.next_id = s.next_id /\ t.peer_next_id = s.peer_next_id + 2
  /\ \A j \in Ids \ {m.id} : t.requests[j] = s.requests[j]
  /\ \/ t.requests[m.id] = s.requests[m.id]
     \/ /\ m.type # "SUBSCRIBE_UPDATE"
        /\ t.requests[m.id].kind = KindOf(m.type)
        /\ t.requests[m.id].state = Opened(KindOf(m.type))
        /\ t.requests[m.id].what = m.what
        /\ t.requests[m.id].alias = IF m.type = "PUBLISH" THEN m.alias ELSE None
        /\ m.type = "PUBLISH" =>
             \A j \in Ids \ {m.id} :
               s.requests[j].alias = m.alias /\ binding_is_established(s.requests[j]) =>
                 s.requests[j].what = m.what

Receipt(s, t, m) == Quiet(s, t) \/ Learned(s, t, m) \/ ToldOver(s, t, m) \/ Admitted(s, t, m)

(* An answer to a request of this end. *)
LEMMA LearnedIs ==
  ASSUME NEW s \in Endpoints, NEW m \in Messages, WellFormed(m),
         m.type \in OkTypes \union ErrorTypes, m.type # "SUBSCRIBE_OK",
         NEW event, event = IF m.type \in OkTypes THEN "ok" ELSE "error",
         NEW t, t = MoveOwn(s, m.id, KindOf(m.type), event)
  PROVE  t \in Endpoints /\ (Quiet(s, t) \/ Learned(s, t, m)) /\ t.session = s.session
<1>1. m.id \in Ids
  BY DEF WellFormed
<1>2. CASE IsOwn(s, m.id, KindOf(m.type)) /\ t = Move(s, m.id, event)
  <2>1. t \in Endpoints /\ (t = s \/ Changed(s, t, m.id, event, s.requests[m.id].alias))
    BY <1>1, <1>2, MoveIs
  <2> QED
    BY <1>1, <1>2, <2>1 DEF Learned, Quiet, Alike, Changed
<1>3. CASE t = s
  BY <1>3 DEF Quiet, Alike
<1> QED
  BY <1>2, <1>3 DEF MoveOwn

(* An end, for whichever request it is looked up.                          *)
LEMMA ToldOverIs ==
  ASSUME NEW s \in Endpoints, NEW m \in Messages, NEW id \in Ids,
         NEW event \in {"unsubscribe", "done", "cancel"},
         event = "cancel" /\ s.requests[id].kind = "fetch" =>
           m.type = "FETCH_CANCEL" /\ id = m.id /\ Owner(id) # s.role,
         NEW t, t = Move(s, id, event) \/ t = s
  PROVE  t \in Endpoints /\ (Quiet(s, t) \/ ToldOver(s, t, m)) /\ t.session = s.session
<1>1. CASE t = s
  BY <1>1 DEF Quiet, Alike
<1>2. CASE t = Move(s, id, event)
  <2>1. t \in Endpoints /\ (t = s \/ Changed(s, t, id, event, s.requests[id].alias))
    BY <1>2, MoveIs
  <2> QED
    BY <1>1, <2>1 DEF ToldOver, Changed
<1> QED
  BY <1>1, <1>2

(* A transition that also binds an alias. *)
Bound(s, id, alias) == [s EXCEPT !.requests[id].alias = alias]

(* It is the transition, with that alias. *)
LEMMA BoundIs ==
  ASSUME NEW s \in Endpoints, NEW id \in Ids, NEW event, CanMove(s, id, event),
         NEW alias \in Aliases \union {None}, NEW t, t = Bound(Moved(s, id, event), id, alias)
  PROVE  t \in Endpoints /\ Changed(s, t, id, event, alias)
<1> DEFINE u == Moved(s, id, event)
<1>1. u \in Endpoints /\ Changed(s, u, id, event, s.requests[id].alias)
  BY MovedIs
<1> HIDE DEF u
<1>2. t = [u EXCEPT !.requests[id].alias = alias]
  BY DEF u, Bound
<1>3. u.requests \in [Ids -> Requests] /\ u.requests[id] \in Requests
  BY <1>1 DEF Endpoints
<1>4. [u.requests[id] EXCEPT !.alias = alias] \in Requests
  BY <1>3 DEF Requests
<1>5. [u.requests EXCEPT ![id] = [u.requests[id] EXCEPT !.alias = alias]] \in [Ids -> Requests]
  BY <1>3, <1>4
<1>6. t = [u EXCEPT !.requests = [u.requests EXCEPT ![id] =
                                   [u.requests[id] EXCEPT !.alias = alias]]]
  BY <1>1, <1>2, <1>3 DEF Endpoints
<1>7. t \in Endpoints /\ Alike(u, t) /\ Steady(u, t) /\ t.session = u.session
  BY <1>1, <1>5, <1>6 DEF Endpoints, Alike, Steady
<1>8. /\ t.requests[id] = [u.requests[id] EXCEPT !.alias = alias]
      /\ \A j \in Ids \ {id} : t.requests[j] = u.requests[j]
  BY <1>1, <1>3, <1>6 DEF Endpoints
<1>9. /\ t.requests[id].alias = alias /\ t.requests[id].kind = u.requests[id].kind
      /\ t.requests[id].what = u.requests[id].what
      /\ t.requests[id].state = u.requests[id].state
  BY <1>3, <1>8 DEF Requests
<1> QED
  BY <1>1, <1>7, <1>8, <1>9 DEF Changed, Alike, Steady

(* receive_subscribe_ok: the answer that also binds an alias.              *)
LEMMA SubscribeOkIs ==
  ASSUME NEW s \in Endpoints, NEW m \in Messages, WellFormed(m), m.type = "SUBSCRIBE_OK",
         NEW t, t = receive_subscribe_ok(s, m)
  PROVE  /\ t \in Endpoints /\ (Quiet(s, t) \/ Learned(s, t, m))
         /\ t.session \in {s.session, "Closed"}
<1>1. m.id \in Ids /\ m.type \in OkTypes /\ KindOf(m.type) = "subscribe"
  BY DEF WellFormed, OkTypes, KindOf
<1>2. CASE t = s
  BY <1>2 DEF Quiet, Alike
<1>3. CASE t = fail_session(s, "DuplicateTrackAlias")
  BY <1>3, FailIs DEF SessionErrors
<1>4. CASE /\ IsOwn(s, m.id, "subscribe") /\ CanMove(s, m.id, "ok")
           /\ ~conflicting_track_alias(s, m.id, m.alias, s.requests[m.id].what)
           /\ t = [Moved(s, m.id, "ok") EXCEPT !.requests[m.id].alias = m.alias]
  <2>1. m.alias \in Aliases \union {None}
    BY DEF Messages
  <2>2. t = Bound(Moved(s, m.id, "ok"), m.id, m.alias)
    BY <1>4 DEF Bound
  <2>3. t \in Endpoints /\ Changed(s, t, m.id, "ok", m.alias)
    BY <1>1, <1>4, <2>1, <2>2, BoundIs
  <2> QED
    BY <1>1, <1>4, <2>3 DEF Learned, Changed
<1> QED
  BY <1>2, <1>3, <1>4 DEF receive_subscribe_ok

(* The Request ID of a request is spent before its handler runs.           *)
LEMMA RecordPeerIdIs ==
  ASSUME NEW s \in Endpoints, NEW u, u = record_peer_id(s)
  PROVE  /\ u \in Endpoints /\ u.role = s.role /\ u.next_id = s.next_id
         /\ u.peer_next_id = s.peer_next_id + 2 /\ u.requests = s.requests
         /\ u.session = s.session
BY DEF record_peer_id, Endpoints

(* A request that is recorded, or refused because the session drains.      *)
Put(s, id, r) == IF require_active(s) THEN [s EXCEPT !.requests[id] = r] ELSE s

(* It is the only thing that changes. *)
LEMMA RecordedIs ==
  ASSUME NEW s \in Endpoints, NEW id \in Ids, NEW r \in Requests,
         NEW t, t = Put(s, id, r)
  PROVE  /\ t \in Endpoints /\ Alike(s, t) /\ t.session = s.session
         /\ \A j \in Ids \ {id} : t.requests[j] = s.requests[j]
         /\ t = s \/ (t.requests[id] = r /\ require_active(s))
<1>1. CASE t = s
  BY <1>1 DEF Alike
<1>2. CASE require_active(s) /\ t = [s EXCEPT !.requests[id] = r]
  <2>1. s.requests \in [Ids -> Requests]
    BY DEF Endpoints
  <2>2. [s.requests EXCEPT ![id] = r] \in [Ids -> Requests]
    BY <2>1
  <2>3. t = [s EXCEPT !.requests = [s.requests EXCEPT ![id] = r]]
    BY <1>2
  <2>4. t \in Endpoints /\ Alike(s, t) /\ t.session = s.session
    BY <2>2, <2>3 DEF Endpoints, Alike
  <2>5. t.requests[id] = r /\ \A j \in Ids \ {id} : t.requests[j] = s.requests[j]
    BY <2>1, <2>3 DEF Endpoints
  <2> QED
    BY <1>2, <2>4, <2>5
<1> QED
  BY <1>1, <1>2 DEF Put

(* What the handler of a request leaves, its Request ID being the expected *)
(* one.                                                                    *)
LEMMA AdmittedIs ==
  ASSUME NEW s \in Endpoints, NEW m \in Messages, WellFormed(m), m.type \in RequestTypes,
         m.id = s.peer_next_id, Owner(m.id) # s.role,
         NEW u, u = record_peer_id(s), NEW t, t \in dispatch(u, m)
  PROVE  t \in Endpoints /\ Admitted(s, t, m) /\ t.session \in {s.session, "Closed"}
<1>1. /\ u \in Endpoints /\ u.role = s.role /\ u.next_id = s.next_id
      /\ u.peer_next_id = s.peer_next_id + 2 /\ u.requests = s.requests
      /\ u.session = s.session
  BY RecordPeerIdIs
<1>2. m.id \in Ids /\ m.alias \in Aliases \union {None}
  BY DEF WellFormed, Messages
<1>3. ASSUME NEW bad \in BOOLEAN, m.type \notin {"SUBSCRIBE_UPDATE", "PUBLISH"},
             t = Recorded(u, m, KindOf(m.type), None, bad)
      PROVE  t \in Endpoints /\ Admitted(s, t, m) /\ t.session = s.session
  <2>1. KindOf(m.type) \in Kinds
    BY <1>3 DEF RequestTypes, KindOf, Kinds
  <2>2. /\ t \in Endpoints /\ Alike(u, t) /\ t.session = u.session
        /\ \A j \in Ids \ {m.id} : t.requests[j] = u.requests[j]
        /\ \/ t = u
           \/ /\ t.requests[m.id].kind = KindOf(m.type)
              /\ t.requests[m.id].state = Opened(KindOf(m.type))
              /\ t.requests[m.id].what = m.what /\ t.requests[m.id].alias = None
    <3> DEFINE r == Request(KindOf(m.type), m.what, None, bad)
    <3>1. /\ r \in Requests /\ r.kind = KindOf(m.type) /\ r.state = Opened(KindOf(m.type))
          /\ r.what = m.what /\ r.alias = None
      BY <2>1 DEF Request, Requests, Messages, Opened, Kinds, States
    <3>2. t = Put(u, m.id, r)
      BY <1>3 DEF Recorded, Put
    <3> HIDE DEF r
    <3>3. /\ t \in Endpoints /\ Alike(u, t) /\ t.session = u.session
          /\ \A j \in Ids \ {m.id} : t.requests[j] = u.requests[j]
          /\ t = u \/ (t.requests[m.id] = r /\ require_active(u))
      BY <1>1, <1>2, <3>1, <3>2, RecordedIs
    <3> QED
      BY <3>1, <3>3
  <2> QED
    BY <1>1, <1>2, <1>3, <2>2 DEF Admitted, Alike
<1>4. ASSUME m.type # "PUBLISH", t \in Endpoints, Quiet(u, t)
      PROVE  Admitted(s, t, m)
  BY <1>1, <1>2, <1>4 DEF Admitted, Quiet, Alike
<1>5. CASE m.type = "SUBSCRIBE"
  BY <1>3, <1>5 DEF dispatch, receive_subscribe, KindOf
<1>6. CASE m.type = "FETCH"
  <2>1. t = Recorded(u, m, KindOf(m.type), None, joining_subscription_missing(u, m))
        /\ joining_subscription_missing(u, m) \in BOOLEAN
    BY <1>6 DEF dispatch, receive_fetch, KindOf, joining_subscription_missing
  <2> QED
    BY <1>3, <1>6, <2>1
<1>7. CASE m.type = "SUBSCRIBE_NAMESPACE"
  <2>1. t = Recorded(u, m, KindOf(m.type), None, peer_prefix_overlap(u, m.what))
        /\ peer_prefix_overlap(u, m.what) \in BOOLEAN
    BY <1>7 DEF dispatch, receive_subscribe_namespace, KindOf, peer_prefix_overlap
  <2> QED
    BY <1>3, <1>7, <2>1
<1>8. CASE m.type = "PUBLISH_NAMESPACE"
  BY <1>3, <1>8 DEF dispatch, receive_publish_namespace, KindOf
<1>9. CASE m.type = "TRACK_STATUS"
  BY <1>3, <1>9 DEF dispatch, receive_track_status, KindOf
<1>10. CASE m.type = "SUBSCRIBE_UPDATE"
  <2>1. t = u \/ t = fail_session(u, "UpdateForUnknownRequest")
    BY <1>10 DEF dispatch, receive_subscribe_update
  <2>2. t \in Endpoints /\ Quiet(u, t) /\ t.session \in {u.session, "Closed"}
    BY <1>1, <2>1, FailIs DEF Quiet, Alike, SessionErrors
  <2> QED
    BY <1>1, <1>4, <1>10, <2>2
<1>11. CASE m.type = "PUBLISH"
  <2>1. t = receive_publish(u, m)
    BY <1>11 DEF dispatch
  <2>2. CASE t = fail_session(u, "DuplicateTrackAlias")
    <3>1. t \in Endpoints /\ Quiet(u, t) /\ t.session \in {u.session, "Closed"}
      BY <1>1, <2>2, FailIs DEF SessionErrors
    <3> QED
      BY <1>1, <1>2, <3>1 DEF Admitted, Quiet, Alike
  <2>3. CASE /\ require_active(u) => ~conflicting_track_alias(u, m.id, m.alias, m.what)
             /\ t = Recorded(u, m, "publish", m.alias, FALSE)
    <3>1. /\ t \in Endpoints /\ Alike(u, t) /\ t.session = u.session
          /\ \A j \in Ids \ {m.id} : t.requests[j] = u.requests[j]
          /\ \/ t = u
             \/ /\ t.requests[m.id].kind = "publish"
                /\ t.requests[m.id].state = Opened("publish")
                /\ t.requests[m.id].what = m.what /\ t.requests[m.id].alias = m.alias
                /\ require_active(u)
      <4> DEFINE r == Request("publish", m.what, m.alias, FALSE)
      <4>1. /\ r \in Requests /\ r.kind = "publish" /\ r.state = Opened("publish")
            /\ r.what = m.what /\ r.alias = m.alias
        BY DEF Request, Requests, Messages, Opened, Kinds, States
      <4>2. t = Put(u, m.id, r)
        BY <2>3 DEF Recorded, Put
      <4> HIDE DEF r
      <4>3. /\ t \in Endpoints /\ Alike(u, t) /\ t.session = u.session
            /\ \A j \in Ids \ {m.id} : t.requests[j] = u.requests[j]
            /\ t = u \/ (t.requests[m.id] = r /\ require_active(u))
        BY <1>1, <1>2, <4>1, <4>2, RecordedIs
      <4> QED
        BY <4>1, <4>3
    <3>2. KindOf(m.type) = "publish"
      BY <1>11 DEF KindOf
    <3>3. CASE t = u
      BY <1>1, <1>2, <3>3 DEF Admitted
    <3>4. CASE t # u
      <4>1. \A j \in Ids \ {m.id} :
               s.requests[j].alias = m.alias /\ binding_is_established(s.requests[j]) =>
                 s.requests[j].what = m.what
        BY <1>1, <2>3, <3>1, <3>4 DEF conflicting_track_alias
      <4> QED
        BY <1>1, <1>2, <1>11, <3>1, <3>2, <3>4, <4>1 DEF Admitted, Alike
    <3> QED
      BY <3>3, <3>4
  <2> QED
    BY <2>1, <2>2, <2>3 DEF receive_publish
<1> QED
  BY <1>5, <1>6, <1>7, <1>8, <1>9, <1>10, <1>11 DEF RequestTypes

(* Whatever a message does to the endpoint is one of the four things.      *)
LEMMA ReceiptIs ==
  ASSUME NEW s \in Endpoints, NEW m \in Messages, WellFormed(m), m.type \notin SetupTypes,
         NEW t, t \in receive_message(s, m)
  PROVE  /\ t \in Endpoints /\ Receipt(s, t, m)
         /\ t.session \in {s.session, "Closed"} \/ (s.session = "Active" /\ t.session = "Draining")
<1> DEFINE Goal == /\ t \in Endpoints /\ Receipt(s, t, m)
                   /\ \/ t.session \in {s.session, "Closed"}
                      \/ s.session = "Active" /\ t.session = "Draining"
<1>1. ASSUME NEW error \in SessionErrors, t = fail_session(s, error)
      PROVE  Goal
  BY <1>1, FailIs DEF Receipt
<1>2. CASE t = s
  BY <1>2 DEF Receipt, Quiet, Alike
<1>3. CASE m.type \in RequestTypes
  <2> DEFINE error == request_id_error(s, m.id)
  <2>1. CASE error # None
    <3>1. t = fail_session(s, error)
      BY <1>3, <2>1 DEF receive_message
    <3>2. error \in SessionErrors
      BY <2>1 DEF request_id_error, SessionErrors
    <3> QED
      BY <1>1, <3>1, <3>2
  <2>2. CASE error = None
    <3>1. t \in dispatch(record_peer_id(s), m)
      BY <1>3, <2>2 DEF receive_message
    <3>2. m.id = s.peer_next_id /\ Owner(m.id) # s.role
      BY <2>2, EndpointAssumption DEF request_id_error, SessionErrors, wrong_parity
    <3>3. t \in Endpoints /\ Admitted(s, t, m) /\ t.session \in {s.session, "Closed"}
      BY <1>3, <3>1, <3>2, AdmittedIs
    <3> QED
      BY <3>3 DEF Receipt
  <2> QED
    BY <2>1, <2>2
<1>4. CASE m.type \notin RequestTypes
  <2>1. t \in dispatch(s, m)
    BY <1>4 DEF receive_message
  <2>2. CASE m.type \in OkTypes \union ErrorTypes
    <3>1. CASE m.type = "SUBSCRIBE_OK"
      <4>1. t = receive_subscribe_ok(s, m)
        BY <2>1, <3>1 DEF dispatch
      <4> QED
        BY <3>1, <4>1, SubscribeOkIs DEF Receipt
    <3>2. CASE m.type # "SUBSCRIBE_OK"
      <4> DEFINE event == IF m.type \in OkTypes THEN "ok" ELSE "error"
      <4>1. t = MoveOwn(s, m.id, KindOf(m.type), event)
        <5>1. CASE m.type \in OkTypes
          BY <2>1, <3>2, <5>1
          DEF OkTypes, dispatch, KindOf, receive_publish_ok, receive_fetch_ok,
              receive_subscribe_namespace_ok, receive_publish_namespace_ok,
              receive_track_status_ok
        <5>2. CASE m.type \in ErrorTypes /\ m.type \notin OkTypes
          BY <2>1, <3>2, <5>2
          DEF ErrorTypes, dispatch, KindOf, receive_publish_error, receive_fetch_error,
              receive_subscribe_namespace_error, receive_publish_namespace_error,
              receive_track_status_error, receive_subscribe_error
        <5> QED
          BY <2>2, <5>1, <5>2
      <4> HIDE DEF event
      <4>2. event = IF m.type \in OkTypes THEN "ok" ELSE "error"
        BY DEF event
      <4>3. t \in Endpoints /\ (Quiet(s, t) \/ Learned(s, t, m)) /\ t.session = s.session
        BY <2>2, <3>2, <4>1, <4>2, LearnedIs
      <4> QED
        BY <4>3 DEF Receipt
    <3> QED
      BY <3>1, <3>2
  <2>3. ASSUME NEW id \in Ids, NEW event \in {"unsubscribe", "done", "cancel"},
               event = "cancel" /\ s.requests[id].kind = "fetch" =>
                 m.type = "FETCH_CANCEL" /\ id = m.id /\ Owner(id) # s.role,
               t = Move(s, id, event) \/ t = s
        PROVE  Goal
    <3>1. t \in Endpoints /\ (Quiet(s, t) \/ ToldOver(s, t, m)) /\ t.session = s.session
      BY <2>3, ToldOverIs
    <3> QED
      BY <3>1 DEF Receipt
  <2>4. CASE m.type \in EndTypes
    <3>1. m.id \in Ids
      BY <2>4 DEF WellFormed
    <3>2. CASE m.type = "UNSUBSCRIBE"
      <4>1. t = Move(s, m.id, "unsubscribe") \/ t = s
        BY <2>1, <3>2 DEF dispatch, receive_unsubscribe, MovePeers
      <4> QED
        BY <2>3, <3>1, <4>1
    <3>3. CASE m.type = "PUBLISH_DONE"
      <4>1. t = Move(s, m.id, "done") \/ t = s
        BY <2>1, <3>3 DEF dispatch, receive_publish_done
      <4> QED
        BY <2>3, <3>1, <4>1
    <3>4. CASE m.type = "FETCH_CANCEL"
      <4>1. t = MovePeers(s, m.id, "fetch", "cancel")
        BY <2>1, <3>4 DEF dispatch, receive_fetch_cancel
      <4>2. CASE IsPeers(s, m.id, "fetch")
        BY <2>3, <3>1, <3>4, <4>1, <4>2 DEF IsPeers, MovePeers
      <4>3. CASE ~IsPeers(s, m.id, "fetch")
        BY <1>2, <4>1, <4>3 DEF MovePeers
      <4> QED
        BY <4>2, <4>3
    <3> QED
      BY <2>4, <3>2, <3>3, <3>4 DEF EndTypes
  <2>5. CASE m.type \in AboutTypes
    <3>1. ASSUME NEW ids, NEW event \in {"unsubscribe", "done", "cancel"},
                 \A id \in ids : id \in Ids /\ s.requests[id].kind # "fetch",
                 t \in Found(s, ids, event)
          PROVE  Goal
      <4>1. t = s \/ \E id \in ids : t = Move(s, id, event)
        BY <3>1 DEF Found
      <4>2. CASE \E id \in ids : t = Move(s, id, event)
        <5>1. PICK id \in ids : t = Move(s, id, event)
          BY <4>2
        <5> QED
          BY <2>3, <3>1, <5>1
      <4> QED
        BY <1>2, <4>1, <4>2
    <3>2. CASE m.type = "UNSUBSCRIBE_NAMESPACE"
      <4> DEFINE ids == inbound_subscribe_namespace_ids(s, m.what)
      <4>1. t \in Found(s, ids, "unsubscribe")
        BY <2>1, <3>2 DEF dispatch, receive_unsubscribe_namespace
      <4>2. \A id \in ids : id \in Ids /\ s.requests[id].kind # "fetch"
        BY DEF inbound_subscribe_namespace_ids, IsPeers
      <4> HIDE DEF ids
      <4> QED
        BY <3>1, <4>1, <4>2
    <3>3. CASE m.type = "PUBLISH_NAMESPACE_DONE"
      <4> DEFINE ids == inbound_publish_namespace_ids(s, m.what)
      <4>1. t \in Found(s, ids, "done")
        BY <2>1, <3>3 DEF dispatch, receive_publish_namespace_done
      <4>2. \A id \in ids : id \in Ids /\ s.requests[id].kind # "fetch"
        BY DEF inbound_publish_namespace_ids, IsPeers
      <4> HIDE DEF ids
      <4> QED
        BY <3>1, <4>1, <4>2
    <3>4. CASE m.type = "PUBLISH_NAMESPACE_CANCEL"
      <4> DEFINE ids == own_publish_namespace_ids(s, m.what)
      <4>1. t \in Found(s, ids, "cancel")
        BY <2>1, <3>4 DEF dispatch, receive_publish_namespace_cancel
      <4>2. \A id \in ids : id \in Ids /\ s.requests[id].kind # "fetch"
        BY DEF own_publish_namespace_ids, IsOwn
      <4> HIDE DEF ids
      <4> QED
        BY <3>1, <4>1, <4>2
    <3> QED
      BY <2>5, <3>2, <3>3, <3>4 DEF AboutTypes
  <2>6. CASE m.type \in CountTypes
    <3>1. CASE m.type = "REQUESTS_BLOCKED"
      BY <1>2, <2>1, <3>1 DEF dispatch, receive_requests_blocked
    <3>2. CASE m.type = "MAX_REQUEST_ID"
      <4>1. t = [s EXCEPT !.max_id = m.id] \/ t = fail_session(s, "Decreased")
        BY <2>1, <3>2 DEF dispatch, receive_max_request_id, update_max
      <4>2. CASE t = [s EXCEPT !.max_id = m.id]
        <5>1. m.id \in Nat
          BY <2>6 DEF WellFormed
        <5> QED
          BY <4>2, <5>1 DEF Endpoints, Receipt, Quiet, Alike
      <4> QED
        BY <1>1, <4>1, <4>2 DEF SessionErrors
    <3>3. CASE m.type = "GOAWAY"
      <4>1. t = receive_goaway(s, m)
        BY <2>1, <3>3 DEF dispatch
      <4>2. CASE OnGoAway(s.session) /\ t = [s EXCEPT !.session = "Draining"]
        <5>1. s.session = "Active"
          BY <4>2 DEF OnGoAway
        <5>2. t \in Endpoints /\ Quiet(s, t) /\ t.session = "Draining"
          BY <4>2 DEF Endpoints, Quiet, Alike, SessionStates
        <5> QED
          BY <5>1, <5>2 DEF Receipt
      <4>3. \/ t = fail_session(s, "GoAwayUriAtServer") \/ t = fail_session(s, "RepeatedGoAway")
            \/ OnGoAway(s.session) /\ t = [s EXCEPT !.session = "Draining"]
            \/ t = s
        BY <4>1 DEF receive_goaway
      <4> QED
        BY <1>1, <1>2, <4>2, <4>3 DEF SessionErrors
    <3> QED
      BY <2>6, <3>1, <3>2, <3>3 DEF CountTypes
  <2> QED
    BY <1>4, <2>2, <2>4, <2>5, <2>6 DEF Messages, MessageTypes
<1> QED
  BY <1>3, <1>4

-----------------------------------------------------------------------------
(* Steps: one endpoint moves to t, and something is sent or read.          *)

At(e, t) == t \in Endpoints /\ t.role = e /\ ep' = [ep EXCEPT ![e] = t]

Rest == /\ load' = load /\ dropped' \in 0..load.drops
        /\ stream' \in [Ids -> {"none", "fin", "finished", "reset", "was_reset"}]
        /\ goaway' \in [Roles -> BOOLEAN]

(* The messages ms are sent. *)
Posts(e, ms) ==
  /\ ~Early(e) /\ ms \in Seq(Messages)
  /\ \A n \in DOMAIN ms : WellFormed(ms[n]) /\ ms[n].type \notin SetupTypes
  /\ wire' = [wire EXCEPT ![Peer(e)] = @ \o ms]

(* They are on the wire, unless a send has been dropped.                   *)
Wrote(e, ms) == dropped' = 0 => dropped = 0 /\ Posts(e, ms)

(* What an application that asks was held to, and what it leaves alone.    *)
Asked(e, t, m) ==
  /\ Open /\ Wrote(e, <<m>>) /\ Steady(ep[e], t) /\ UNCHANGED <<stream, goaway>>
  /\ require_active(ep[e]) /\ ~is_blocked(ep[e])
  /\ m.type = "SUBSCRIBE_UPDATE" => IsOwn(ep[e], m.ref, "subscribe")
  /\ m.type \notin {"FETCH", "SUBSCRIBE_UPDATE"} => t.requests[m.id].what = m.what
  /\ m.type = "SUBSCRIBE_NAMESPACE" => ~own_prefix_overlap(ep[e], m.what)

Replied(e, m) == Open /\ Wrote(e, <<m>>) /\ UNCHANGED <<stream, goaway>>

(* A new request, or an update of one. *)
Opening(e, t, m) ==
  /\ m \in Messages /\ m.type \in RequestTypes /\ m.id = NextId(e) /\ m.id \in Ids
  /\ ~Early(e) /\ t.session = ep[e].session
  /\ t.next_id = ep[e].next_id + 2 /\ t.peer_next_id = ep[e].peer_next_id
  /\ \A j \in Ids \ {m.id} : t.requests[j] = ep[e].requests[j]
  /\ IF m.type = "SUBSCRIBE_UPDATE" THEN t.requests[m.id] = ep[e].requests[m.id]
     ELSE /\ t.requests[m.id].kind = KindOf(m.type)
          /\ t.requests[m.id].state = Opened(KindOf(m.type))
  /\ m.type \in {"SUBSCRIBE", "PUBLISH"} =>
       t.requests[m.id].what = m.what /\ t.requests[m.id].alias = m.alias
  /\ m.type = "SUBSCRIBE" => m.alias = None
  /\ m.type = "PUBLISH" => ~alias_held_elsewhere(ep[e], m.alias, m.what)
  /\ Posts(e, <<m>>) \/ wire' = wire
  /\ Asked(e, t, m)
  /\ verdict' = verdict

(* An answer. *)
Deciding(e, t, m) ==
  /\ m \in Messages /\ m.type \in OkTypes \union ErrorTypes /\ m.id \in Ids
  /\ IsPeers(ep[e], m.id, KindOf(m.type))
  /\ Changed(ep[e], t, m.id, IF m.type \in OkTypes THEN "ok" ELSE "error",
             IF m.type = "SUBSCRIBE_OK" THEN m.alias ELSE ep[e].requests[m.id].alias)
  /\ m.type = "SUBSCRIBE_OK" =>
       ~alias_held_elsewhere(ep[e], m.alias, ep[e].requests[m.id].what)
  /\ Posts(e, <<m>>) \/ wire' = wire
  /\ Replied(e, m)
  /\ verdict' = [verdict EXCEPT ![m.id] = IF m.type \in OkTypes THEN "ok" ELSE "error"]

(* Request id ends at e, or its data stream does.                          *)
Ended(e, t, id) ==
  /\ \E event \in {"unsubscribe", "done", "cancel", "end"} :
       /\ <<ep[e].requests[id].state, event, t.requests[id].state>> \in Moves(ep[e].requests[id].kind)
       /\ event = "cancel" /\ ep[e].requests[id].kind = "fetch" => Owner(id) = e
  /\ t.requests[id].kind = ep[e].requests[id].kind
  /\ t.requests[id].what = ep[e].requests[id].what
  /\ t.requests[id].alias = ep[e].requests[id].alias

(* Some requests end, or none; or a ceiling or a GOAWAY is sent.           *)
Ending(e, t) ==
  /\ Alike(ep[e], t) /\ t.session = ep[e].session
  /\ \A id \in Ids : t.requests[id] = ep[e].requests[id] \/ Ended(e, t, id)
  /\ \/ wire' = wire
     \/ \E ms \in Seq(Messages) :
          /\ Posts(e, ms)
          /\ \A n \in DOMAIN ms :
               /\ ms[n].type \in EndTypes \union CountTypes \union AboutTypes
               /\ ms[n].type = "FETCH_CANCEL" =>
                    Owner(ms[n].id) = e /\ t.requests[ms[n].id].state = "Done"
  /\ verdict' = verdict

(* A message is read. *)
Reading(e, t, m) ==
  /\ ~Early(e) /\ wire[e] # <<>> /\ m = Head(wire[e]) /\ m.type \notin SetupTypes
  /\ Receipt(ep[e], t, m) /\ t.session \notin {"Connecting", "SetupExchange"}
  /\ wire' = [wire EXCEPT ![e] = Tail(@)]
  /\ verdict' = verdict

(* The handshake. *)
Shaking(e, t) ==
  /\ Quiet(ep[e], t) /\ Setup'
  /\ wire' \in [Roles -> Seq(Messages)]
  /\ \/ \A x \in Roles : Len(wire'[x]) <= 1
     \/ wire[e] # <<>> /\ wire' = [wire EXCEPT ![e] = Tail(@)]
  /\ \A x \in Roles : \A m \in OnWire(x)' : m \in OnWire(x) \/ (WellFormed(m) /\ m.type \in SetupTypes)
  /\ verdict' = verdict

Stepped(e, t) ==
  /\ At(e, t) /\ Rest
  /\ \/ \E m \in Messages : Opening(e, t, m) \/ Deciding(e, t, m) \/ Reading(e, t, m)
     \/ Ending(e, t) \/ Shaking(e, t)

-----------------------------------------------------------------------------
(* The two ends of a session. *)
LEMMA RolesAre ==
  /\ \A e \in Roles : Peer(e) \in Roles /\ Peer(e) # e /\ Peer(Peer(e)) = e
  /\ \A e, x \in Roles : x = e \/ x = Peer(e)
  /\ \A id : Owner(id) \in Roles
BY DEF Roles, Peer, Owner

(* One endpoint moves and the other does not.                              *)
LEMMA AtIs ==
  ASSUME TypeOK, NEW e \in Roles, NEW t, At(e, t)
  PROVE  /\ ep'[e] = t /\ ep'[Peer(e)] = ep[Peer(e)]
         /\ ep' \in [Roles -> Endpoints] /\ \A x \in Roles : ep'[x].role = x
         /\ ep[e] \in Endpoints /\ ep[Peer(e)] \in Endpoints
         /\ ep[e].role = e /\ ep[Peer(e)].role = Peer(e)
BY RolesAre DEF At, TypeOK

(* What is on the wire after a send.                                       *)
LEMMA PostsIs ==
  ASSUME TypeOK, NEW e \in Roles, NEW ms, Posts(e, ms)
  PROVE  /\ wire' \in [Roles -> Seq(Messages)]
         /\ wire'[e] = wire[e] /\ wire'[Peer(e)] = wire[Peer(e)] \o ms
         /\ Len(wire'[Peer(e)]) = Len(wire[Peer(e)]) + Len(ms)
         /\ \A i \in DOMAIN wire'[Peer(e)] :
              \/ i \in DOMAIN wire[Peer(e)] /\ wire'[Peer(e)][i] = wire[Peer(e)][i]
              \/ /\ i > Len(wire[Peer(e)]) /\ i - Len(wire[Peer(e)]) \in DOMAIN ms
                 /\ wire'[Peer(e)][i] = ms[i - Len(wire[Peer(e)])]
         /\ OnWire(e)' = OnWire(e)
         /\ \A m \in OnWire(Peer(e))' : m \in OnWire(Peer(e)) \/ \E n \in DOMAIN ms : m = ms[n]
<1>1. Peer(e) \in Roles /\ Peer(e) # e
  BY RolesAre
<1>2. wire \in [Roles -> Seq(Messages)] /\ ms \in Seq(Messages)
  BY DEF TypeOK, Posts
<1> DEFINE w == wire[Peer(e)]
<1>3. w \in Seq(Messages)
  BY <1>1, <1>2
<1>4. wire' = [wire EXCEPT ![Peer(e)] = w \o ms]
  BY DEF Posts
<1> HIDE DEF w
<1>5. w \o ms \in Seq(Messages) /\ Len(w \o ms) = Len(w) + Len(ms)
      /\ \A i \in 1..(Len(w) + Len(ms)) :
           (w \o ms)[i] = IF i <= Len(w) THEN w[i] ELSE ms[i - Len(w)]
  BY <1>2, <1>3
<1>6. wire'[e] = wire[e] /\ wire'[Peer(e)] = w \o ms /\ wire' \in [Roles -> Seq(Messages)]
  BY <1>1, <1>2, <1>4, <1>5
<1>7. \A i \in DOMAIN (w \o ms) :
         \/ i \in DOMAIN w /\ (w \o ms)[i] = w[i]
         \/ i > Len(w) /\ i - Len(w) \in DOMAIN ms /\ (w \o ms)[i] = ms[i - Len(w)]
  <2> TAKE i \in DOMAIN (w \o ms)
  <2>1. i \in 1..(Len(w) + Len(ms)) /\ Len(w) \in Nat /\ Len(ms) \in Nat
    BY <1>2, <1>3, <1>5
  <2>2. CASE i <= Len(w)
    BY <1>3, <1>5, <2>1, <2>2
  <2>3. CASE i > Len(w)
    <3>1. i - Len(w) \in 1..Len(ms)
      BY <2>1, <2>3
    <3>2. i - Len(w) \in DOMAIN ms
      BY <1>2, <3>1
    <3> QED
      BY <1>5, <2>1, <2>3, <3>2
  <2> QED
    BY <2>1, <2>2, <2>3
<1>8. OnWire(e)' = OnWire(e)
  BY <1>6 DEF OnWire
<1>9. \A m \in OnWire(Peer(e))' : m \in OnWire(Peer(e)) \/ \E n \in DOMAIN ms : m = ms[n]
  <2> TAKE m \in OnWire(Peer(e))'
  <2>1. PICK i \in DOMAIN (w \o ms) : m = (w \o ms)[i]
    BY <1>6 DEF OnWire
  <2> QED
    BY <1>7, <2>1 DEF OnWire, w
<1> QED
  BY <1>5, <1>6, <1>7, <1>8, <1>9 DEF w

(* What is on the wire after a message was read.                           *)
LEMMA ReadsIs ==
  ASSUME TypeOK, NEW e \in Roles, wire[e] # <<>>, wire' = [wire EXCEPT ![e] = Tail(@)]
  PROVE  /\ wire' \in [Roles -> Seq(Messages)]
         /\ wire'[Peer(e)] = wire[Peer(e)]
         /\ Head(wire[e]) = wire[e][1] /\ Head(wire[e]) \in OnWire(e) /\ Head(wire[e]) \in Messages
         /\ Len(wire'[e]) = Len(wire[e]) - 1
         /\ \A i \in DOMAIN wire'[e] : i + 1 \in DOMAIN wire[e] /\ wire'[e][i] = wire[e][i + 1]
         /\ OnWire(e)' \subseteq OnWire(e) /\ OnWire(Peer(e))' = OnWire(Peer(e))
<1>1. Peer(e) \in Roles /\ Peer(e) # e
  BY RolesAre
<1>2. wire \in [Roles -> Seq(Messages)]
  BY DEF TypeOK
<1> DEFINE w == wire[e]
<1>3. w \in Seq(Messages) /\ w # <<>>
  BY <1>2
<1>4. wire' = [wire EXCEPT ![e] = Tail(w)]
  OBVIOUS
<1> HIDE DEF w
<1>5. Tail(w) \in Seq(Messages) /\ Len(Tail(w)) = Len(w) - 1
      /\ \A i \in 1..(Len(w) - 1) : Tail(w)[i] = w[i + 1]
  BY <1>3
<1>6. Len(w) \in Nat /\ Len(w) > 0 /\ DOMAIN w = 1..Len(w) /\ Head(w) = w[1] /\ w[1] \in Messages
  BY <1>3
<1>7. wire'[e] = Tail(w) /\ wire'[Peer(e)] = wire[Peer(e)] /\ wire' \in [Roles -> Seq(Messages)]
  BY <1>1, <1>2, <1>4, <1>5
<1>8. \A i \in DOMAIN Tail(w) : i + 1 \in DOMAIN w /\ Tail(w)[i] = w[i + 1]
  <2> TAKE i \in DOMAIN Tail(w)
  <2>1. i \in 1..(Len(w) - 1)
    BY <1>5, <1>6
  <2> QED
    BY <1>5, <1>6, <2>1
<1>9. OnWire(Peer(e))' = OnWire(Peer(e))
  BY <1>7 DEF OnWire
<1>10. OnWire(e)' \subseteq OnWire(e)
  BY <1>7, <1>8 DEF OnWire, w
<1>11. w[1] \in OnWire(e)
  BY <1>6 DEF OnWire, w
<1> QED
  BY <1>5, <1>6, <1>7, <1>8, <1>9, <1>10, <1>11 DEF w

(* The fields of a message. *)
LEMMA MsgIs ==
  ASSUME NEW type \in MessageTypes, NEW id \in Nat \union {None},
         NEW what \in Tracks \union Namespaces \union {None}, NEW alias \in Aliases \union {None},
         NEW ref \in Ids \union {None}, NEW m,
         m = [type |-> type, id |-> id, what |-> what, alias |-> alias, ref |-> ref]
  PROVE  /\ m \in Messages /\ m.type = type /\ m.id = id /\ m.what = what /\ m.alias = alias
         /\ m.ref = ref
BY DEF Messages

(* send_control ends with the message on the wire or with it dropped.      *)
LEMMA SendIs ==
  ASSUME TypeOK, NEW e \in Roles, NEW t \in Endpoints, t.role = e, NEW m \in Messages,
         WellFormed(m), m.type \notin SetupTypes, ~Early(e), Send(e, t, m)
  PROVE  /\ At(e, t) /\ (Posts(e, <<m>>) \/ wire' = wire) /\ dropped' \in 0..load.drops
         /\ Wrote(e, <<m>>)
<1>1. load.drops \in Nat /\ dropped \in 0..load.drops
  BY SessionAssumption DEF TypeOK, WorkloadType
<1>2. CASE wire' = [wire EXCEPT ![Peer(e)] = Append(@, m)] /\ UNCHANGED dropped
  <2>1. wire[Peer(e)] \in Seq(Messages)
    BY RolesAre DEF TypeOK
  <2>2. Append(wire[Peer(e)], m) = wire[Peer(e)] \o <<m>> /\ <<m>> \in Seq(Messages)
    BY <2>1
  <2>3. DOMAIN <<m>> = {1} /\ <<m>>[1] = m
    OBVIOUS
  <2> QED
    BY <1>1, <1>2, <2>2, <2>3 DEF Posts, At, Send, Wrote
<1>3. CASE dropped < load.drops /\ dropped' = dropped + 1 /\ UNCHANGED wire
  BY <1>1, <1>3 DEF At, Send, Wrote
<1> QED
  BY <1>2, <1>3 DEF Send, send_control

(* An endpoint that has a request that can move is past the handshake.     *)
LEMMA MovableIs ==
  ASSUME TypeOK, Setup, NEW e \in Roles, NEW id \in Ids, NEW event, CanMove(ep[e], id, event)
  PROVE  ~Early(e) /\ ep[e] \in Endpoints /\ ep[e].role = e
<1>1. PICK to \in States : <<ep[e].requests[id].state, event, to>> \in Moves(ep[e].requests[id].kind)
  BY DEF CanMove, Can
<1>2. ep[e].requests[id].kind \in Kinds
  BY <1>1, MoveFacts
<1>3. ep[e].requests[id] # NoRequest
  BY <1>2 DEF NoRequest, Kinds
<1> QED
  BY <1>3 DEF Setup, TypeOK

(* A request is ended by this end, and the peer is told.                   *)
LEMMA SendMoveIs ==
  ASSUME TypeOK, Setup, NEW e \in Roles, NEW id \in Ids,
         NEW event \in {"unsubscribe", "done", "cancel"}, NEW m \in Messages, WellFormed(m),
         m.type \in EndTypes \union AboutTypes,
         event = "cancel" /\ ep[e].requests[id].kind = "fetch" => Owner(id) = e,
         m.type = "FETCH_CANCEL" => m.id = id /\ Owner(id) = e /\ event = "cancel",
         SendMove(e, id, event, m)
  PROVE  \E t \in Endpoints : Stepped(e, t)
<1> DEFINE s == ep[e]
           t == Moved(s, id, event)
<1>1. CanMove(s, id, event) /\ Send(e, t, m) /\ UNCHANGED <<load, stream, goaway, verdict>>
  BY DEF SendMove
<1>2. ~Early(e) /\ s \in Endpoints /\ s.role = e
  BY <1>1, MovableIs
<1>3. t \in Endpoints /\ Changed(s, t, id, event, s.requests[id].alias)
  BY <1>1, <1>2, MovedIs
<1> HIDE DEF t
<1>4. t.role = e /\ Alike(s, t) /\ t.session = s.session
  BY <1>2, <1>3 DEF Changed, Alike
<1>5. m.type \notin SetupTypes
  BY DEF EndTypes, AboutTypes, SetupTypes
<1>6. At(e, t) /\ (Posts(e, <<m>>) \/ wire' = wire) /\ dropped' \in 0..load.drops
  BY <1>1, <1>2, <1>3, <1>4, <1>5, SendIs
<1>7. Rest
  BY <1>1, <1>6 DEF Rest, TypeOK
<1>8. \A j \in Ids : t.requests[j] = s.requests[j] \/ Ended(e, t, j)
  BY <1>3 DEF Changed, Ended
<1>9. event = "cancel" => t.requests[id].state = "Done"
  BY <1>3, MoveFacts DEF Changed
<1>10. Ending(e, t)
  <2>1. /\ <<m>> \in Seq(Messages)
        /\ \A n \in DOMAIN <<m>> :
             /\ <<m>>[n].type \in EndTypes \union CountTypes \union AboutTypes
             /\ <<m>>[n].type = "FETCH_CANCEL" =>
                  Owner(<<m>>[n].id) = e /\ t.requests[<<m>>[n].id].state = "Done"
    BY <1>9
  <2> QED
    BY <1>1, <1>4, <1>6, <1>8, <2>1 DEF Ending
<1> QED
  BY <1>3, <1>6, <1>7, <1>10 DEF Stepped

(* A request of the peer's is answered.                                    *)
LEMMA SendAnswerIs ==
  ASSUME TypeOK, Setup, NEW e \in Roles, NEW id \in Ids, NEW m \in Messages,
         m.type \in OkTypes \union ErrorTypes, m.id = id,
         NEW event, event = IF m.type \in OkTypes THEN "ok" ELSE "error",
         IsPeers(ep[e], id, KindOf(m.type)),
         IF m.type = "SUBSCRIBE_OK"
         THEN m.alias # None /\ ~alias_held_elsewhere(ep[e], m.alias, ep[e].requests[id].what)
         ELSE m.alias = None,
         SendAnswer(e, id, event, m)
  PROVE  \E t \in Endpoints, k \in Messages : At(e, t) /\ Rest /\ Deciding(e, t, k)
<1> DEFINE s == ep[e]
           alias == IF m.alias = None THEN s.requests[id].alias ELSE m.alias
           t == Bound(Moved(s, id, event), id, alias)
<1>1. CanMove(s, id, event) /\ verdict' = [verdict EXCEPT ![id] = event]
      /\ UNCHANGED <<load, stream, goaway>>
  BY DEF SendAnswer
<1>2. ~Early(e) /\ s \in Endpoints /\ s.role = e
  BY <1>1, MovableIs
<1>3. s.requests[id] \in Requests
  BY <1>2 DEF Endpoints
<1>4. alias \in Aliases \union {None}
  BY <1>3 DEF Messages, Requests
<1>5. Moved(s, id, event) \in Endpoints /\ Changed(s, Moved(s, id, event), id, event, s.requests[id].alias)
  BY <1>1, <1>2, MovedIs
<1>6. Send(e, t, m)
  <2>1. Moved(s, id, event).requests[id].alias = s.requests[id].alias
    BY <1>5 DEF Changed
  <2>2. t = [Moved(s, id, event) EXCEPT !.requests[id].alias = IF m.alias = None THEN @ ELSE m.alias]
    BY <2>1 DEF Bound
  <2> QED
    BY <2>2 DEF SendAnswer
<1> HIDE DEF alias
<1>7. t \in Endpoints /\ Changed(s, t, id, event, alias)
  BY <1>1, <1>2, <1>4, BoundIs
<1> HIDE DEF t
<1>8. t.role = e
  BY <1>2, <1>7 DEF Changed, Alike
<1>9. WellFormed(m) /\ m.type \notin SetupTypes
  BY DEF WellFormed, OkTypes, ErrorTypes, SetupTypes, CountTypes
<1>10. /\ At(e, t) /\ (Posts(e, <<m>>) \/ wire' = wire) /\ dropped' \in 0..load.drops
       /\ Wrote(e, <<m>>)
  BY <1>2, <1>6, <1>7, <1>8, <1>9, SendIs
<1>11. Rest
  BY <1>1, <1>10 DEF Rest, TypeOK
<1>12. alias = IF m.type = "SUBSCRIBE_OK" THEN m.alias ELSE s.requests[id].alias
  BY DEF alias
<1>13. Deciding(e, t, m)
  <2>1. Replied(e, m)
    BY <1>1, <1>6, <1>10 DEF Replied, Send
  <2> QED
    BY <1>1, <1>7, <1>10, <1>12, <2>1 DEF Deciding
<1> QED
  BY <1>7, <1>10, <1>11, <1>13

(* A Request ID is used up. *)
LEMMA AllocateIs ==
  ASSUME TypeOK, NEW e \in Roles, NEW t, t = allocate(e)
  PROVE  /\ t \in Endpoints /\ t.role = e /\ t.session = ep[e].session
         /\ t.next_id = ep[e].next_id + 2 /\ t.peer_next_id = ep[e].peer_next_id
         /\ t.requests = ep[e].requests /\ Steady(ep[e], t)
<1> DEFINE s == ep[e]
<1>1. s \in Endpoints /\ s.role = e /\ s.requests \in [Ids -> Requests] /\ s.next_id \in Nat
  BY DEF TypeOK, Endpoints
<1>2. t = [s EXCEPT !.next_id = s.next_id + 2]
  BY DEF allocate
<1>3. s.next_id + 2 \in Nat
  BY <1>1
<1> HIDE DEF s
<1>4. /\ t \in Endpoints /\ t.role = e /\ t.session = s.session
      /\ t.next_id = s.next_id + 2 /\ t.peer_next_id = s.peer_next_id
      /\ t.requests = s.requests /\ Steady(s, t)
  BY ONLY <1>1, <1>2, <1>3 DEF Endpoints, Steady
<1> QED
  BY <1>4 DEF s

(* A Request ID is used up for a request that is recorded.                 *)
Filed(e, r) == [allocate(e) EXCEPT !.requests[NextId(e)] = r]

(* Nothing else is. *)
LEMMA FiledIs ==
  ASSUME TypeOK, NEW e \in Roles, NextId(e) \in Ids, NEW r \in Requests, NEW t, t = Filed(e, r)
  PROVE  /\ t \in Endpoints /\ t.role = e /\ t.session = ep[e].session
         /\ t.next_id = ep[e].next_id + 2 /\ t.peer_next_id = ep[e].peer_next_id
         /\ \A j \in Ids \ {NextId(e)} : t.requests[j] = ep[e].requests[j]
         /\ t.requests[NextId(e)] = r /\ Steady(ep[e], t)
<1> DEFINE u == allocate(e)
<1>1. /\ u \in Endpoints /\ u.role = e /\ u.session = ep[e].session
      /\ u.next_id = ep[e].next_id + 2 /\ u.peer_next_id = ep[e].peer_next_id
      /\ u.requests = ep[e].requests /\ Steady(ep[e], u)
  BY AllocateIs
<1>2. t = [u EXCEPT !.requests = [u.requests EXCEPT ![NextId(e)] = r]]
  BY DEF Filed
<1> HIDE DEF u
<1>3. u.requests \in [Ids -> Requests]
  BY <1>1 DEF Endpoints
<1>4. [u.requests EXCEPT ![NextId(e)] = r] \in [Ids -> Requests]
  BY <1>3
<1>5. t \in Endpoints /\ t.role = u.role /\ t.session = u.session /\ t.next_id = u.next_id
      /\ t.peer_next_id = u.peer_next_id
      /\ t.requests = [u.requests EXCEPT ![NextId(e)] = r] /\ Steady(u, t)
  BY <1>1, <1>2, <1>4 DEF Endpoints, Steady
<1> QED
  BY <1>1, <1>3, <1>5 DEF Steady

(* A request is asked. *)
LEMMA AskIs ==
  ASSUME TypeOK, NEW e \in Roles, NEW type \in RequestTypes \ {"SUBSCRIBE_UPDATE"},
         NEW what \in Tracks \union Namespaces, NEW alias \in Aliases \union {None},
         type = "SUBSCRIBE" => alias = None,
         type = "PUBLISH" => ~alias_held_elsewhere(ep[e], alias, what),
         type = "SUBSCRIBE_NAMESPACE" => ~own_prefix_overlap(ep[e], what),
         Ask(e, KindOf(type), what, alias, Msg(type, NextId(e)))
  PROVE  \E t \in Endpoints, k \in Messages : At(e, t) /\ Rest /\ Opening(e, t, k)
<1> DEFINE m == [Msg(type, NextId(e)) EXCEPT !.what = what, !.alias = alias]
           r == Request(KindOf(type), what, alias, FALSE)
           t == Filed(e, r)
<1>1. /\ require_active(ep[e]) /\ ~is_blocked(ep[e]) /\ NextId(e) \in Ids
      /\ UNCHANGED <<load, stream, goaway, verdict>>
  BY DEF Ask, MayAsk
<1>2. Msg(type, NextId(e)).id = NextId(e)
  BY DEF Msg
<1>3. Send(e, t, m)
  BY <1>2 DEF Ask, Filed
<1>4. ~Early(e)
  BY <1>1 DEF require_active, Early
<1>5. KindOf(type) \in Kinds
  BY DEF KindOf, Kinds, RequestTypes
<1>6. /\ r \in Requests /\ r.kind = KindOf(type) /\ r.state = Opened(KindOf(type))
      /\ r.what = what /\ r.alias = alias
  BY <1>5 DEF Request, Requests, Opened, Kinds, States
<1>7. /\ m \in Messages /\ m.type = type /\ m.id = NextId(e) /\ m.what = what /\ m.alias = alias
  <2>1. NextId(e) \in Nat
    BY <1>1, EndpointAssumption
  <2>2. type \in MessageTypes
    BY DEF MessageTypes
  <2> DEFINE n == Msg(type, NextId(e))
  <2>3. n = [type |-> type, id |-> NextId(e), what |-> None, alias |-> None, ref |-> None]
    BY DEF Msg
  <2> HIDE DEF n
  <2>4. n \in Messages /\ n.type = type /\ n.id = NextId(e)
    BY <2>1, <2>2, <2>3, MsgIs
  <2>5. m = [n EXCEPT !.what = what, !.alias = alias]
    BY DEF n
  <2> HIDE DEF m
  <2> QED
    BY <2>4, <2>5 DEF Messages
<1> HIDE DEF r, m
<1>8. /\ t \in Endpoints /\ t.role = e /\ t.session = ep[e].session
      /\ t.next_id = ep[e].next_id + 2 /\ t.peer_next_id = ep[e].peer_next_id
      /\ \A j \in Ids \ {NextId(e)} : t.requests[j] = ep[e].requests[j]
      /\ t.requests[NextId(e)] = r /\ Steady(ep[e], t)
  BY <1>1, <1>6, FiledIs
<1> HIDE DEF t
<1>9. WellFormed(m) /\ m.type \notin SetupTypes
  BY <1>1, <1>7 DEF WellFormed, RequestTypes, SetupTypes, CountTypes
<1>10. /\ At(e, t) /\ (Posts(e, <<m>>) \/ wire' = wire) /\ dropped' \in 0..load.drops
       /\ Wrote(e, <<m>>)
  BY <1>3, <1>4, <1>7, <1>8, <1>9, SendIs
<1>11. Rest
  BY <1>1, <1>10 DEF Rest, TypeOK
<1>12. Asked(e, t, m)
  BY <1>1, <1>3, <1>6, <1>7, <1>8, <1>10 DEF Asked, Send
<1>13. Opening(e, t, m)
  BY <1>1, <1>4, <1>6, <1>7, <1>8, <1>10, <1>12 DEF Opening
<1> QED
  BY <1>7, <1>8, <1>10, <1>11, <1>13

(* Every way to use up a Request ID is an opening.                         *)
LEMMA AsksStep ==
  ASSUME TypeOK, Setup, NEW e \in Roles, Asks(e)
  PROVE  \E t \in Endpoints, k \in Messages : At(e, t) /\ Rest /\ Opening(e, t, k)
<1>1. ASSUME NEW track \in Tracks, subscribe(e, track) \/ fetch(e, track) \/ track_status(e, track)
      PROVE  \E t \in Endpoints, k \in Messages : At(e, t) /\ Rest /\ Opening(e, t, k)
  <2>1. CASE subscribe(e, track)
    <3>1. "SUBSCRIBE" \in RequestTypes \ {"SUBSCRIBE_UPDATE"} /\ KindOf("SUBSCRIBE") = "subscribe"
      BY DEF RequestTypes, KindOf
    <3>2. Ask(e, KindOf("SUBSCRIBE"), track, None, Msg("SUBSCRIBE", NextId(e)))
      BY <2>1, <3>1 DEF subscribe
    <3> QED
      BY <3>1, <3>2, AskIs
  <2>2. CASE fetch(e, track)
    <3>1. "FETCH" \in RequestTypes \ {"SUBSCRIBE_UPDATE"} /\ KindOf("FETCH") = "fetch"
      BY DEF RequestTypes, KindOf
    <3>2. Ask(e, KindOf("FETCH"), track, None, Msg("FETCH", NextId(e)))
      BY <2>2, <3>1 DEF fetch
    <3> QED
      BY <3>1, <3>2, AskIs
  <2>3. CASE track_status(e, track)
    <3>1. /\ "TRACK_STATUS" \in RequestTypes \ {"SUBSCRIBE_UPDATE"}
          /\ KindOf("TRACK_STATUS") = "track_status"
      BY DEF RequestTypes, KindOf
    <3>2. Ask(e, KindOf("TRACK_STATUS"), track, None, Msg("TRACK_STATUS", NextId(e)))
      BY <2>3, <3>1 DEF track_status
    <3> QED
      BY <3>1, <3>2, AskIs
  <2> QED
    BY <1>1, <2>1, <2>2, <2>3
<1>2. ASSUME NEW track \in Tracks, NEW alias \in Aliases, publish(e, track, alias)
      PROVE  \E t \in Endpoints, k \in Messages : At(e, t) /\ Rest /\ Opening(e, t, k)
  <2>1. "PUBLISH" \in RequestTypes \ {"SUBSCRIBE_UPDATE"} /\ KindOf("PUBLISH") = "publish"
    BY DEF RequestTypes, KindOf
  <2>2. /\ Ask(e, KindOf("PUBLISH"), track, alias, Msg("PUBLISH", NextId(e)))
        /\ ~alias_held_elsewhere(ep[e], alias, track)
    BY <1>2, <2>1 DEF publish
  <2> QED
    BY <2>1, <2>2, AskIs
<1>3. ASSUME NEW ns \in Namespaces, subscribe_namespace(e, ns) \/ publish_namespace(e, ns)
      PROVE  \E t \in Endpoints, k \in Messages : At(e, t) /\ Rest /\ Opening(e, t, k)
  <2>1. CASE subscribe_namespace(e, ns)
    <3>1. /\ "SUBSCRIBE_NAMESPACE" \in RequestTypes \ {"SUBSCRIBE_UPDATE"}
          /\ KindOf("SUBSCRIBE_NAMESPACE") = "subscribe_namespace"
      BY DEF RequestTypes, KindOf
    <3>2. /\ Ask(e, KindOf("SUBSCRIBE_NAMESPACE"), ns, None, Msg("SUBSCRIBE_NAMESPACE", NextId(e)))
          /\ ~own_prefix_overlap(ep[e], ns)
      BY <2>1, <3>1 DEF subscribe_namespace
    <3> QED
      BY <3>1, <3>2, AskIs
  <2>2. CASE publish_namespace(e, ns)
    <3>1. /\ "PUBLISH_NAMESPACE" \in RequestTypes \ {"SUBSCRIBE_UPDATE"}
          /\ KindOf("PUBLISH_NAMESPACE") = "publish_namespace"
      BY DEF RequestTypes, KindOf
    <3>2. Ask(e, KindOf("PUBLISH_NAMESPACE"), ns, None, Msg("PUBLISH_NAMESPACE", NextId(e)))
      BY <2>2, <3>1 DEF publish_namespace
    <3> QED
      BY <3>1, <3>2, AskIs
  <2> QED
    BY <1>3, <2>1, <2>2
<1>4. ASSUME NEW id \in Ids, subscribe_update(e, id)
      PROVE  \E t \in Endpoints, k \in Messages : At(e, t) /\ Rest /\ Opening(e, t, k)
  <2> DEFINE m == [Msg("SUBSCRIBE_UPDATE", NextId(e)) EXCEPT !.ref = id]
             t == allocate(e)
  <2>1. /\ require_active(ep[e]) /\ ~is_blocked(ep[e]) /\ NextId(e) \in Ids /\ Send(e, t, m)
        /\ UNCHANGED <<load, stream, goaway, verdict>>
    BY <1>4 DEF subscribe_update, MayAsk
  <2>2. m \in Messages /\ m.type = "SUBSCRIBE_UPDATE" /\ m.id = NextId(e) /\ m.ref = id
    <3>1. NextId(e) \in Nat /\ "SUBSCRIBE_UPDATE" \in MessageTypes
      BY <2>1, EndpointAssumption DEF MessageTypes, RequestTypes
    <3>2. m = [type |-> "SUBSCRIBE_UPDATE", id |-> NextId(e), what |-> None, alias |-> None,
               ref |-> id]
      BY DEF Msg
    <3> HIDE DEF m
    <3> QED
      BY <3>1, <3>2, MsgIs
  <2> HIDE DEF m
  <2>3. /\ t \in Endpoints /\ t.role = e /\ t.session = ep[e].session
        /\ t.next_id = ep[e].next_id + 2 /\ t.peer_next_id = ep[e].peer_next_id
        /\ t.requests = ep[e].requests /\ Steady(ep[e], t)
    BY AllocateIs
  <2> HIDE DEF t
  <2>4. ~Early(e) /\ WellFormed(m) /\ m.type \notin SetupTypes /\ m.type \in RequestTypes
    BY <2>1, <2>2 DEF require_active, Early, WellFormed, SetupTypes, CountTypes, RequestTypes
  <2>5. /\ At(e, t) /\ (Posts(e, <<m>>) \/ wire' = wire) /\ dropped' \in 0..load.drops
        /\ Wrote(e, <<m>>)
    BY <2>1, <2>2, <2>3, <2>4, SendIs
  <2>6. Rest
    BY <2>1, <2>5 DEF Rest, TypeOK
  <2>7. Asked(e, t, m)
    BY <1>4, <2>1, <2>2, <2>3, <2>5 DEF Asked, Send, subscribe_update
  <2>8. Opening(e, t, m)
    BY <2>1, <2>2, <2>3, <2>4, <2>5, <2>7 DEF Opening
  <2> QED
    BY <2>2, <2>3, <2>5, <2>6, <2>8
<1>5. ASSUME NEW id \in Ids, joining_fetch_of_type(e, id)
      PROVE  \E t \in Endpoints, k \in Messages : At(e, t) /\ Rest /\ Opening(e, t, k)
  <2> DEFINE m == [Msg("FETCH", NextId(e)) EXCEPT !.ref = id]
             r == Request("fetch", JoinedTrack(ep[e].requests[id]), None, FALSE)
             t == Filed(e, r)
  <2>1. /\ require_active(ep[e]) /\ ~is_blocked(ep[e]) /\ NextId(e) \in Ids /\ Send(e, t, m)
        /\ UNCHANGED <<load, stream, goaway, verdict>>
    BY <1>5 DEF joining_fetch_of_type, MayAsk, Filed
  <2>2. m \in Messages /\ m.type = "FETCH" /\ m.id = NextId(e)
    <3>1. NextId(e) \in Nat /\ "FETCH" \in MessageTypes
      BY <2>1, EndpointAssumption DEF MessageTypes, RequestTypes
    <3>2. m = [type |-> "FETCH", id |-> NextId(e), what |-> None, alias |-> None, ref |-> id]
      BY DEF Msg
    <3> HIDE DEF m
    <3> QED
      BY <3>1, <3>2, MsgIs
  <2>3. r \in Requests /\ r.kind = "fetch" /\ r.state = Opened("fetch")
    <3>1. JoinedTrack(ep[e].requests[id]) \in Tracks \union Namespaces \union {None}
          /\ "fetch" \in Kinds
      BY DEF JoinedTrack, TypeOK, Endpoints, Requests, Kinds
    <3> QED
      BY <3>1 DEF Request, Requests, Opened, Kinds, States
  <2> HIDE DEF m, r
  <2>4. /\ t \in Endpoints /\ t.role = e /\ t.session = ep[e].session
        /\ t.next_id = ep[e].next_id + 2 /\ t.peer_next_id = ep[e].peer_next_id
        /\ \A j \in Ids \ {NextId(e)} : t.requests[j] = ep[e].requests[j]
        /\ t.requests[NextId(e)] = r /\ Steady(ep[e], t)
    BY <2>1, <2>3, FiledIs
  <2> HIDE DEF t
  <2>5. ~Early(e) /\ WellFormed(m) /\ m.type \notin SetupTypes /\ m.type \in RequestTypes
        /\ KindOf(m.type) = "fetch"
    BY <2>1, <2>2
    DEF require_active, Early, WellFormed, SetupTypes, CountTypes, RequestTypes, KindOf
  <2>6. /\ At(e, t) /\ (Posts(e, <<m>>) \/ wire' = wire) /\ dropped' \in 0..load.drops
        /\ Wrote(e, <<m>>)
    BY <2>1, <2>2, <2>4, <2>5, SendIs
  <2>7. Rest
    BY <2>1, <2>6 DEF Rest, TypeOK
  <2>8. Asked(e, t, m)
    BY <2>1, <2>2, <2>4, <2>6 DEF Asked, Send
  <2>9. Opening(e, t, m)
    BY <2>1, <2>2, <2>3, <2>4, <2>5, <2>6, <2>8 DEF Opening
  <2> QED
    BY <2>2, <2>4, <2>6, <2>7, <2>9
<1> QED
  BY <1>1, <1>2, <1>3, <1>4, <1>5 DEF Asks

(* A message that names a request and nothing else.                        *)
LEMMA PlainMsgIs ==
  ASSUME NEW type \in MessageTypes, NEW id \in Nat \union {None}, NEW m, m = Msg(type, id)
  PROVE  m \in Messages /\ m.type = type /\ m.id = id /\ m.alias = None
<1>1. m = [type |-> type, id |-> id, what |-> None, alias |-> None, ref |-> None]
  BY DEF Msg
<1> QED
  BY <1>1, MsgIs

(* Every answer but the one that binds an alias.                           *)
LEMMA PlainAnswerIs ==
  ASSUME TypeOK, Setup, NEW e \in Roles, NEW id \in Ids,
         NEW type \in (OkTypes \union ErrorTypes) \ {"SUBSCRIBE_OK"},
         NEW event, event = IF type \in OkTypes THEN "ok" ELSE "error",
         IsPeers(ep[e], id, KindOf(type)), SendAnswer(e, id, event, Msg(type, id))
  PROVE  \E t \in Endpoints, k \in Messages : At(e, t) /\ Rest /\ Deciding(e, t, k)
<1> DEFINE m == Msg(type, id)
<1>1. id \in Nat /\ type \in MessageTypes
  BY EndpointAssumption DEF MessageTypes
<1>2. m \in Messages /\ m.type = type /\ m.id = id /\ m.alias = None
  BY <1>1, PlainMsgIs
<1>3. SendAnswer(e, id, event, m)
  OBVIOUS
<1> HIDE DEF m
<1> QED
  BY <1>2, <1>3, SendAnswerIs

(* Every answer decides. *)
LEMMA AnswersStep ==
  ASSUME TypeOK, Setup, NEW e \in Roles, NEW id \in Ids, Answers(e, id)
  PROVE  \E t \in Endpoints, k \in Messages : At(e, t) /\ Rest /\ Deciding(e, t, k)
<1>1. ASSUME NEW alias \in Aliases, send_subscribe_ok(e, id, alias)
      PROVE  \E t \in Endpoints, k \in Messages : At(e, t) /\ Rest /\ Deciding(e, t, k)
  <2> DEFINE m == [Msg("SUBSCRIBE_OK", id) EXCEPT !.alias = alias]
  <2>1. /\ IsPeers(ep[e], id, "subscribe")
        /\ ~alias_held_elsewhere(ep[e], alias, ep[e].requests[id].what)
        /\ SendAnswer(e, id, "ok", m)
    BY <1>1 DEF send_subscribe_ok
  <2>2. m \in Messages /\ m.type = "SUBSCRIBE_OK" /\ m.id = id /\ m.alias = alias
    <3>1. id \in Nat \union {None} /\ "SUBSCRIBE_OK" \in MessageTypes
          /\ alias \in Aliases \union {None}
      BY EndpointAssumption DEF MessageTypes, OkTypes
    <3>2. m = [type |-> "SUBSCRIBE_OK", id |-> id, what |-> None, alias |-> alias, ref |-> None]
      BY DEF Msg
    <3> HIDE DEF m
    <3> QED
      BY <3>1, <3>2 DEF Messages
  <2> HIDE DEF m
  <2>3. m.alias # None /\ KindOf(m.type) = "subscribe" /\ m.type \in OkTypes
    BY <2>2, EndpointAssumption DEF KindOf, OkTypes
  <2> QED
    BY <2>1, <2>2, <2>3, SendAnswerIs
<1>2. CASE send_subscribe_error(e, id)
  <2>1. /\ "SUBSCRIBE_ERROR" \in (OkTypes \union ErrorTypes) \ {"SUBSCRIBE_OK"}
        /\ KindOf("SUBSCRIBE_ERROR") = "subscribe"
        /\ "error" = IF "SUBSCRIBE_ERROR" \in OkTypes THEN "ok" ELSE "error"
    BY DEF OkTypes, ErrorTypes, KindOf
  <2>2. IsPeers(ep[e], id, "subscribe") /\ SendAnswer(e, id, "error", Msg("SUBSCRIBE_ERROR", id))
    BY <1>2 DEF send_subscribe_error
  <2> QED
    BY <2>1, <2>2, PlainAnswerIs
<1>3. CASE send_publish_ok(e, id)
  <2>1. /\ "PUBLISH_OK" \in (OkTypes \union ErrorTypes) \ {"SUBSCRIBE_OK"}
        /\ KindOf("PUBLISH_OK") = "publish"
        /\ "ok" = IF "PUBLISH_OK" \in OkTypes THEN "ok" ELSE "error"
    BY DEF OkTypes, ErrorTypes, KindOf
  <2>2. IsPeers(ep[e], id, "publish") /\ SendAnswer(e, id, "ok", Msg("PUBLISH_OK", id))
    BY <1>3 DEF send_publish_ok
  <2> QED
    BY <2>1, <2>2, PlainAnswerIs
<1>4. CASE send_publish_error(e, id)
  <2>1. /\ "PUBLISH_ERROR" \in (OkTypes \union ErrorTypes) \ {"SUBSCRIBE_OK"}
        /\ KindOf("PUBLISH_ERROR") = "publish"
        /\ "error" = IF "PUBLISH_ERROR" \in OkTypes THEN "ok" ELSE "error"
    BY DEF OkTypes, ErrorTypes, KindOf
  <2>2. IsPeers(ep[e], id, "publish") /\ SendAnswer(e, id, "error", Msg("PUBLISH_ERROR", id))
    BY <1>4 DEF send_publish_error
  <2> QED
    BY <2>1, <2>2, PlainAnswerIs
<1>5. CASE send_fetch_ok(e, id)
  <2>1. /\ "FETCH_OK" \in (OkTypes \union ErrorTypes) \ {"SUBSCRIBE_OK"}
        /\ KindOf("FETCH_OK") = "fetch"
        /\ "ok" = IF "FETCH_OK" \in OkTypes THEN "ok" ELSE "error"
    BY DEF OkTypes, ErrorTypes, KindOf
  <2>2. IsPeers(ep[e], id, "fetch") /\ SendAnswer(e, id, "ok", Msg("FETCH_OK", id))
    BY <1>5 DEF send_fetch_ok
  <2> QED
    BY <2>1, <2>2, PlainAnswerIs
<1>6. CASE send_fetch_error(e, id)
  <2>1. /\ "FETCH_ERROR" \in (OkTypes \union ErrorTypes) \ {"SUBSCRIBE_OK"}
        /\ KindOf("FETCH_ERROR") = "fetch"
        /\ "error" = IF "FETCH_ERROR" \in OkTypes THEN "ok" ELSE "error"
    BY DEF OkTypes, ErrorTypes, KindOf
  <2>2. IsPeers(ep[e], id, "fetch") /\ SendAnswer(e, id, "error", Msg("FETCH_ERROR", id))
    BY <1>6 DEF send_fetch_error
  <2> QED
    BY <2>1, <2>2, PlainAnswerIs
<1>7. CASE send_subscribe_namespace_ok(e, id)
  <2>1. /\ "SUBSCRIBE_NAMESPACE_OK" \in (OkTypes \union ErrorTypes) \ {"SUBSCRIBE_OK"}
        /\ KindOf("SUBSCRIBE_NAMESPACE_OK") = "subscribe_namespace"
        /\ "ok" = IF "SUBSCRIBE_NAMESPACE_OK" \in OkTypes THEN "ok" ELSE "error"
    BY DEF OkTypes, ErrorTypes, KindOf
  <2>2. IsPeers(ep[e], id, "subscribe_namespace") /\ SendAnswer(e, id, "ok", Msg("SUBSCRIBE_NAMESPACE_OK", id))
    BY <1>7 DEF send_subscribe_namespace_ok
  <2> QED
    BY <2>1, <2>2, PlainAnswerIs
<1>8. CASE send_subscribe_namespace_error(e, id)
  <2>1. /\ "SUBSCRIBE_NAMESPACE_ERROR" \in (OkTypes \union ErrorTypes) \ {"SUBSCRIBE_OK"}
        /\ KindOf("SUBSCRIBE_NAMESPACE_ERROR") = "subscribe_namespace"
        /\ "error" = IF "SUBSCRIBE_NAMESPACE_ERROR" \in OkTypes THEN "ok" ELSE "error"
    BY DEF OkTypes, ErrorTypes, KindOf
  <2>2. IsPeers(ep[e], id, "subscribe_namespace") /\ SendAnswer(e, id, "error", Msg("SUBSCRIBE_NAMESPACE_ERROR", id))
    BY <1>8 DEF send_subscribe_namespace_error
  <2> QED
    BY <2>1, <2>2, PlainAnswerIs
<1>9. CASE send_publish_namespace_ok(e, id)
  <2>1. /\ "PUBLISH_NAMESPACE_OK" \in (OkTypes \union ErrorTypes) \ {"SUBSCRIBE_OK"}
        /\ KindOf("PUBLISH_NAMESPACE_OK") = "publish_namespace"
        /\ "ok" = IF "PUBLISH_NAMESPACE_OK" \in OkTypes THEN "ok" ELSE "error"
    BY DEF OkTypes, ErrorTypes, KindOf
  <2>2. IsPeers(ep[e], id, "publish_namespace") /\ SendAnswer(e, id, "ok", Msg("PUBLISH_NAMESPACE_OK", id))
    BY <1>9 DEF send_publish_namespace_ok
  <2> QED
    BY <2>1, <2>2, PlainAnswerIs
<1>10. CASE send_publish_namespace_error(e, id)
  <2>1. /\ "PUBLISH_NAMESPACE_ERROR" \in (OkTypes \union ErrorTypes) \ {"SUBSCRIBE_OK"}
        /\ KindOf("PUBLISH_NAMESPACE_ERROR") = "publish_namespace"
        /\ "error" = IF "PUBLISH_NAMESPACE_ERROR" \in OkTypes THEN "ok" ELSE "error"
    BY DEF OkTypes, ErrorTypes, KindOf
  <2>2. IsPeers(ep[e], id, "publish_namespace") /\ SendAnswer(e, id, "error", Msg("PUBLISH_NAMESPACE_ERROR", id))
    BY <1>10 DEF send_publish_namespace_error
  <2> QED
    BY <2>1, <2>2, PlainAnswerIs
<1>11. CASE send_track_status_ok(e, id)
  <2>1. /\ "TRACK_STATUS_OK" \in (OkTypes \union ErrorTypes) \ {"SUBSCRIBE_OK"}
        /\ KindOf("TRACK_STATUS_OK") = "track_status"
        /\ "ok" = IF "TRACK_STATUS_OK" \in OkTypes THEN "ok" ELSE "error"
    BY DEF OkTypes, ErrorTypes, KindOf
  <2>2. IsPeers(ep[e], id, "track_status") /\ SendAnswer(e, id, "ok", Msg("TRACK_STATUS_OK", id))
    BY <1>11 DEF send_track_status_ok
  <2> QED
    BY <2>1, <2>2, PlainAnswerIs
<1>12. CASE send_track_status_error(e, id)
  <2>1. /\ "TRACK_STATUS_ERROR" \in (OkTypes \union ErrorTypes) \ {"SUBSCRIBE_OK"}
        /\ KindOf("TRACK_STATUS_ERROR") = "track_status"
        /\ "error" = IF "TRACK_STATUS_ERROR" \in OkTypes THEN "ok" ELSE "error"
    BY DEF OkTypes, ErrorTypes, KindOf
  <2>2. IsPeers(ep[e], id, "track_status") /\ SendAnswer(e, id, "error", Msg("TRACK_STATUS_ERROR", id))
    BY <1>12 DEF send_track_status_error
  <2> QED
    BY <2>1, <2>2, PlainAnswerIs
<1> QED
  BY <1>1, <1>2, <1>3, <1>4, <1>5, <1>6, <1>7,
     <1>8, <1>9, <1>10, <1>11, <1>12 DEF Answers

(* An end that names its request by its Request ID.                        *)
LEMMA PlainMoveIs ==
  ASSUME TypeOK, Setup, NEW e \in Roles, NEW id \in Ids, NEW type \in EndTypes,
         NEW event \in {"unsubscribe", "done", "cancel"},
         event = "cancel" /\ ep[e].requests[id].kind = "fetch" => Owner(id) = e,
         type = "FETCH_CANCEL" => Owner(id) = e /\ event = "cancel",
         SendMove(e, id, event, Msg(type, id))
  PROVE  \E t \in Endpoints : Stepped(e, t)
<1> DEFINE m == Msg(type, id)
<1>1. id \in Nat /\ type \in MessageTypes
  BY EndpointAssumption DEF MessageTypes
<1>2. m \in Messages /\ m.type = type /\ m.id = id /\ m.alias = None
  BY <1>1, PlainMsgIs
<1>3. SendMove(e, id, event, m)
  OBVIOUS
<1> HIDE DEF m
<1>4. WellFormed(m) /\ m.type \in EndTypes \union AboutTypes
  BY <1>2 DEF WellFormed, EndTypes, CountTypes
<1> QED
  BY <1>2, <1>3, <1>4, SendMoveIs

(* An end that names a namespace. *)
LEMMA AboutMoveIs ==
  ASSUME TypeOK, Setup, NEW e \in Roles, NEW id \in Ids, NEW type \in AboutTypes,
         NEW event \in {"unsubscribe", "done", "cancel"}, ep[e].requests[id].kind # "fetch",
         NEW what \in Tracks \union Namespaces \union {None},
         SendMove(e, id, event, About(type, what))
  PROVE  \E t \in Endpoints : Stepped(e, t)
<1> DEFINE m == About(type, what)
<1>1. type \in MessageTypes
  BY DEF MessageTypes
<1>2. m \in Messages /\ m.type = type
  <2>1. m = [type |-> type, id |-> None, what |-> what, alias |-> None, ref |-> None]
    BY DEF About, Msg
  <2> HIDE DEF m
  <2> QED
    BY <1>1, <2>1 DEF Messages
<1>3. SendMove(e, id, event, m)
  OBVIOUS
<1> HIDE DEF m
<1>4. WellFormed(m) /\ m.type \in EndTypes \union AboutTypes /\ m.type # "FETCH_CANCEL"
  BY <1>2 DEF WellFormed, EndTypes, CountTypes, AboutTypes, RequestTypes, OkTypes, ErrorTypes
<1> QED
  BY <1>2, <1>3, <1>4, SendMoveIs

(* The end of a data stream. *)
LEMMA StreamEndIs ==
  ASSUME TypeOK, NEW e \in Roles, NEW id \in Ids, NEW t,
         t = ep[e] \/ t = Move(ep[e], id, "end"),
         ep' = [ep EXCEPT ![e] = t], UNCHANGED <<load, wire, goaway, verdict, dropped>>,
         stream' \in [Ids -> {"none", "fin", "finished", "reset", "was_reset"}]
  PROVE  \E u \in Endpoints : Stepped(e, u)
<1> DEFINE s == ep[e]
<1>1. s \in Endpoints /\ s.role = e
  BY DEF TypeOK
<1>2. t \in Endpoints /\ (t = s \/ Changed(s, t, id, "end", s.requests[id].alias))
  BY <1>1, MoveIs
<1>3. Alike(s, t) /\ t.session = s.session /\ t.role = e
      /\ \A j \in Ids : t.requests[j] = s.requests[j] \/ Ended(e, t, j)
  BY <1>1, <1>2 DEF Changed, Alike, Ended
<1>4. At(e, t) /\ Rest
  BY <1>2, <1>3 DEF At, Rest, TypeOK
<1>5. Ending(e, t)
  BY <1>3 DEF Ending
<1> QED
  BY <1>2, <1>4, <1>5 DEF Stepped

(* A malformed track is withdrawn from: several requests end at once.      *)
LEMMA WithdrawIs ==
  ASSUME TypeOK, Setup, NEW e \in Roles, NEW alias \in Aliases, withdraw_malformed_track(e, alias)
  PROVE  \E t \in Endpoints : Stepped(e, t)
<1> DEFINE s == ep[e]
<1>1. s \in Endpoints /\ s.role = e /\ s.requests \in [Ids -> Requests]
  BY DEF TypeOK, Endpoints
<1>2. PICK track \in track_for_alias(s, alias) :
        /\ WithdrawnIds(s, track) # {}
        /\ ep' = [ep EXCEPT ![e].requests =
                     [id \in Ids |-> IF id \in WithdrawnIds(s, track)
                                     THEN withdraw_one(s, id).requests[id] ELSE @[id]]]
        /\ \E order \in Sorted(WithdrawnIds(s, track)),
              written \in 0..Cardinality(WithdrawnIds(s, track)) :
             /\ wire' = [wire EXCEPT ![Peer(e)] =
                            @ \o SubSeq(Withdrawals(s, order), 1, written)]
             /\ dropped' = IF written = Cardinality(WithdrawnIds(s, track))
                           THEN dropped ELSE dropped + 1
             /\ dropped' <= load.drops
        /\ UNCHANGED <<load, stream, goaway, verdict>>
  BY DEF withdraw_malformed_track
<1> DEFINE ids == WithdrawnIds(s, track)
           reqs == [id \in Ids |-> IF id \in ids THEN withdraw_one(s, id).requests[id]
                                   ELSE s.requests[id]]
           t == [s EXCEPT !.requests = reqs]
<1>3. ASSUME NEW id \in ids
      PROVE  \E event \in {"unsubscribe", "cancel"} :
               /\ withdraw_one(s, id) \in Endpoints
               /\ Changed(s, withdraw_one(s, id), id, event, s.requests[id].alias)
               /\ s.requests[id].kind = "fetch" => Owner(id) = e /\ event = "cancel"
               /\ id \in Ids
  <2>1. id \in Ids /\ withdraw_one(s, id) # s
    BY DEF WithdrawnIds
  <2>2. CASE IsOwn(s, id, "fetch")
    <3>1. withdraw_one(s, id) = Move(s, id, "cancel")
      BY <2>2 DEF withdraw_one, IsOwn, IsPeers
    <3>2. Owner(id) = e
      BY <1>1, <2>2 DEF IsOwn
    <3> QED
      BY <1>1, <2>1, <3>1, <3>2, MoveIs
  <2>3. CASE IsOwn(s, id, "subscribe")
    <3>1. withdraw_one(s, id) = Move(s, id, "unsubscribe") /\ s.requests[id].kind # "fetch"
      BY <2>3 DEF withdraw_one, IsOwn, IsPeers
    <3> QED
      BY <1>1, <2>1, <3>1, MoveIs
  <2>4. CASE IsPeers(s, id, "publish")
    <3>1. withdraw_one(s, id) = Move(s, id, "unsubscribe") /\ s.requests[id].kind # "fetch"
      BY <2>4 DEF withdraw_one, IsOwn, IsPeers
    <3> QED
      BY <1>1, <2>1, <3>1, MoveIs
  <2> QED
    BY <2>1, <2>2, <2>3, <2>4 DEF withdraw_one
<1> HIDE DEF ids
<1>4. \A id \in Ids : reqs[id] \in Requests
  <2> TAKE id \in Ids
  <2>1. CASE id \in ids
    <3>1. withdraw_one(s, id) \in Endpoints
      BY <1>3, <2>1
    <3>2. withdraw_one(s, id).requests[id] \in Requests
      BY <3>1 DEF Endpoints
    <3> QED
      BY <2>1, <3>2
  <2>2. CASE id \notin ids
    BY <1>1, <2>2
  <2> QED
    BY <2>1, <2>2
<1>5. ep' = [ep EXCEPT ![e] = t]
  BY <1>2 DEF ids
<1> HIDE DEF reqs
<1>6. reqs \in [Ids -> Requests]
  BY <1>4 DEF reqs
<1>7. /\ t \in Endpoints /\ t.role = e /\ Alike(s, t) /\ t.session = s.session
      /\ t.requests = reqs
  BY <1>1, <1>6 DEF Endpoints, Alike
<1> HIDE DEF t
<1>8. \A id \in Ids : t.requests[id] = s.requests[id] \/ Ended(e, t, id)
  <2> TAKE id \in Ids
  <2>1. CASE id \in ids
    <3>1. t.requests[id] = withdraw_one(s, id).requests[id]
      BY <1>7, <2>1 DEF reqs
    <3> QED
      BY <1>3, <2>1, <3>1 DEF Changed, Ended
  <2>2. CASE id \notin ids
    BY <1>7, <2>2 DEF reqs
  <2> QED
    BY <2>1, <2>2
<1>9. PICK order \in Sorted(ids), written \in 0..Cardinality(ids) :
        /\ wire' = [wire EXCEPT ![Peer(e)] = @ \o SubSeq(Withdrawals(s, order), 1, written)]
        /\ dropped' \in {dropped, dropped + 1} /\ dropped' <= load.drops
  BY <1>2 DEF ids
<1> DEFINE ms == Withdrawals(s, order)
           some == SubSeq(ms, 1, written)
<1>10. order \in [1..Cardinality(ids) -> ids] /\ DOMAIN order = 1..Cardinality(ids)
  BY <1>9 DEF Sorted
<1>11. Cardinality(ids) \in Nat
  <2>1. ids \subseteq Ids
    BY <1>3
  <2>2. IsFiniteSet(ids)
    BY <2>1, SessionAssumption, FS_Subset
  <2> QED
    BY <2>2, FS_CardinalityType
<1>12. ASSUME NEW n \in 1..Cardinality(ids)
       PROVE  /\ ms[n] \in Messages /\ WellFormed(ms[n]) /\ ms[n].type \notin SetupTypes
              /\ ms[n].type \in EndTypes
              /\ ms[n].type = "FETCH_CANCEL" =>
                   Owner(ms[n].id) = e /\ t.requests[ms[n].id].state = "Done"
  <2> DEFINE id == order[n]
             type == IF s.requests[id].kind = "fetch" THEN "FETCH_CANCEL" ELSE "UNSUBSCRIBE"
  <2>1. id \in ids /\ id \in Ids /\ id \in Nat
    BY <1>3, <1>10, EndpointAssumption
  <2>2. ms[n] = Msg(type, id)
    BY <1>10 DEF Withdrawals
  <2>3. type \in EndTypes /\ type \in MessageTypes
    BY DEF EndTypes, MessageTypes
  <2>4. ms[n] \in Messages /\ ms[n].type = type /\ ms[n].id = id
    BY <2>1, <2>2, <2>3, PlainMsgIs
  <2>5. type = "FETCH_CANCEL" => s.requests[id].kind = "fetch"
    OBVIOUS
  <2> HIDE DEF type, id, ms
  <2>6. type = "FETCH_CANCEL" => Owner(id) = e /\ t.requests[id].state = "Done"
    <3> HAVE type = "FETCH_CANCEL"
    <3>1. PICK event \in {"unsubscribe", "cancel"} :
            /\ Changed(s, withdraw_one(s, id), id, event, s.requests[id].alias)
            /\ Owner(id) = e /\ event = "cancel"
      BY <1>3, <2>1, <2>5
    <3>2. withdraw_one(s, id).requests[id].state = "Done"
      BY <3>1, MoveFacts DEF Changed
    <3>3. t.requests[id] = withdraw_one(s, id).requests[id]
      BY <1>7, <2>1 DEF reqs
    <3> QED
      BY <3>1, <3>2, <3>3
  <2>7. WellFormed(ms[n]) /\ ms[n].type \notin SetupTypes
    BY <2>1, <2>3, <2>4 DEF WellFormed, EndTypes, SetupTypes, CountTypes
  <2> QED
    BY <2>3, <2>4, <2>6, <2>7
<1>13. ms \in Seq(Messages) /\ DOMAIN ms = 1..Cardinality(ids)
  <2>1. ms = [n \in 1..Cardinality(ids) |-> ms[n]]
    BY <1>10 DEF Withdrawals
  <2> HIDE DEF ms
  <2> QED
    BY <1>11, <1>12, <2>1
<1> HIDE DEF ms
<1>14. ~Early(e)
  <2>1. PICK id : id \in ids
    BY <1>2 DEF ids
  <2>2. PICK event \in {"unsubscribe", "cancel"} :
          Changed(s, withdraw_one(s, id), id, event, s.requests[id].alias) /\ id \in Ids
    BY <1>3, <2>1
  <2>3. s.requests[id].kind \in Kinds
    BY <2>2, MoveFacts DEF Changed
  <2> QED
    BY <2>2, <2>3 DEF Setup, NoRequest, Kinds
<1>14a. /\ some \in Seq(Messages) /\ DOMAIN some = 1..written
        /\ \A n \in DOMAIN some : n \in 1..Cardinality(ids) /\ some[n] = ms[n]
  <2>1. written \in Nat /\ written <= Cardinality(ids)
    BY <1>9, <1>11
  <2>2. Len(ms) = Cardinality(ids)
    BY <1>11, <1>13
  <2> QED
    BY <1>11, <1>13, <2>1, <2>2
<1>14b. wire' = [wire EXCEPT ![Peer(e)] = @ \o some]
  BY <1>9 DEF ms
<1> HIDE DEF some
<1>15. Posts(e, some)
  BY <1>12, <1>14, <1>14a, <1>14b DEF Posts
<1>16. Ending(e, t)
  <2>1. \A n \in DOMAIN some :
          /\ some[n].type \in EndTypes
          /\ some[n].type = "FETCH_CANCEL" =>
               Owner(some[n].id) = e /\ t.requests[some[n].id].state = "Done"
    BY <1>12, <1>14a
  <2>2. some \in Seq(Messages) /\ verdict' = verdict
    BY <1>2, <1>14a
  <2> QED
    BY <1>7, <1>8, <1>15, <2>1, <2>2, ZenonT(60) DEF Ending
<1>17. At(e, t) /\ Rest
  <2>1. dropped' \in 0..load.drops
    BY <1>9 DEF TypeOK
  <2>2. UNCHANGED <<load, stream, goaway, verdict>>
    BY <1>2
  <2> QED
    BY <1>5, <1>7, <2>1, <2>2 DEF At, Rest, TypeOK
<1> QED
  BY <1>7, <1>16, <1>17 DEF Stepped

(* Every way to end a request is an ending.                                *)
LEMMA EndsStep ==
  ASSUME TypeOK, Setup, NEW e \in Roles, Ends(e)
  PROVE  \E t \in Endpoints : Stepped(e, t)
<1>1. ASSUME NEW id \in Ids, unsubscribe(e, id)
      PROVE  \E t \in Endpoints : Stepped(e, t)
  <2>1. SendMove(e, id, "unsubscribe", Msg("UNSUBSCRIBE", id)) /\ "UNSUBSCRIBE" \in EndTypes
    BY <1>1 DEF unsubscribe, EndTypes
  <2> QED
    BY <2>1, PlainMoveIs
<1>2. ASSUME NEW id \in Ids, send_publish_done(e, id)
      PROVE  \E t \in Endpoints : Stepped(e, t)
  <2>1. SendMove(e, id, "done", Msg("PUBLISH_DONE", id)) /\ "PUBLISH_DONE" \in EndTypes
    BY <1>2 DEF send_publish_done, EndTypes
  <2> QED
    BY <2>1, PlainMoveIs
<1>3. ASSUME NEW id \in Ids, fetch_cancel(e, id)
      PROVE  \E t \in Endpoints : Stepped(e, t)
  <2>1. /\ SendMove(e, id, "cancel", Msg("FETCH_CANCEL", id)) /\ "FETCH_CANCEL" \in EndTypes
        /\ Owner(id) = e
    BY <1>3 DEF fetch_cancel, EndTypes, IsOwn, TypeOK
  <2> QED
    BY <2>1, PlainMoveIs
<1>4. ASSUME NEW id \in Ids, unsubscribe_namespace(e, id)
      PROVE  \E t \in Endpoints : Stepped(e, t)
  <2>1. /\ SendMove(e, id, "unsubscribe", About("UNSUBSCRIBE_NAMESPACE", ep[e].requests[id].what))
        /\ "UNSUBSCRIBE_NAMESPACE" \in AboutTypes /\ ep[e].requests[id].kind # "fetch"
    BY <1>4 DEF unsubscribe_namespace, AboutTypes, IsOwn
  <2>2. ep[e].requests[id].what \in Tracks \union Namespaces \union {None}
    BY DEF TypeOK, Endpoints, Requests
  <2> QED
    BY <2>1, <2>2, AboutMoveIs
<1>5. ASSUME NEW id \in Ids, FinishFetchStream(e, id)
      PROVE  \E t \in Endpoints : Stepped(e, t)
  <2> DEFINE t == on_peer_fetch_stream_fin(ep[e], id)
  <2>1. ep' = [ep EXCEPT ![e] = t] /\ UNCHANGED <<load, wire, goaway, verdict, dropped>>
        /\ stream' = [stream EXCEPT ![id] = "fin"]
    BY <1>5 DEF FinishFetchStream
  <2>2. t = ep[e] \/ t = Move(ep[e], id, "end")
    BY DEF on_peer_fetch_stream_fin, MovePeers
  <2>3. stream' \in [Ids -> {"none", "fin", "finished", "reset", "was_reset"}]
    BY <2>1 DEF TypeOK
  <2> HIDE DEF t
  <2> QED
    BY <2>1, <2>2, <2>3, StreamEndIs
<1>6. ASSUME NEW id \in Ids, ResetFetchStream(e, id)
      PROVE  \E t \in Endpoints : Stepped(e, t)
  <2>1. ep' = ep /\ UNCHANGED <<load, wire, goaway, verdict, dropped>>
        /\ stream' = [stream EXCEPT ![id] = "reset"]
    BY <1>6 DEF ResetFetchStream
  <2>2. ep' = [ep EXCEPT ![e] = ep[e]]
        /\ stream' \in [Ids -> {"none", "fin", "finished", "reset", "was_reset"}]
    BY <2>1 DEF TypeOK
  <2> QED
    BY <2>1, <2>2, StreamEndIs
<1>7. ASSUME NEW id \in Ids, FetchStreamEnds(e, id)
      PROVE  \E t \in Endpoints : Stepped(e, t)
  <2> DEFINE t == MoveOwn(ep[e], id, "fetch", "end")
  <2>1. ep' = [ep EXCEPT ![e] = t] /\ UNCHANGED <<load, wire, goaway, verdict, dropped>>
    BY <1>7 DEF FetchStreamEnds, on_fetch_stream_fin, on_fetch_stream_reset
  <2>2. t = ep[e] \/ t = Move(ep[e], id, "end")
    BY DEF MoveOwn
  <2>3. stream' \in [Ids -> {"none", "fin", "finished", "reset", "was_reset"}]
    BY <1>7 DEF FetchStreamEnds, TypeOK
  <2> HIDE DEF t
  <2> QED
    BY <2>1, <2>2, <2>3, StreamEndIs
<1>8. ASSUME NEW ns \in Namespaces, publish_namespace_done(e, ns)
      PROVE  \E t \in Endpoints : Stepped(e, t)
  <2>1. PICK id \in own_publish_namespace_ids(ep[e], ns) :
          SendMove(e, id, "done", About("PUBLISH_NAMESPACE_DONE", ns))
    BY <1>8 DEF publish_namespace_done
  <2>2. id \in Ids /\ ep[e].requests[id].kind # "fetch" /\ "PUBLISH_NAMESPACE_DONE" \in AboutTypes
    BY <2>1 DEF own_publish_namespace_ids, IsOwn, AboutTypes
  <2> QED
    BY <2>1, <2>2, AboutMoveIs
<1>9. ASSUME NEW ns \in Namespaces, publish_namespace_cancel(e, ns)
      PROVE  \E t \in Endpoints : Stepped(e, t)
  <2>1. PICK id \in inbound_publish_namespace_ids(ep[e], ns) :
          SendMove(e, id, "cancel", About("PUBLISH_NAMESPACE_CANCEL", ns))
    BY <1>9 DEF publish_namespace_cancel
  <2>2. id \in Ids /\ ep[e].requests[id].kind # "fetch" /\ "PUBLISH_NAMESPACE_CANCEL" \in AboutTypes
    BY <2>1 DEF inbound_publish_namespace_ids, IsPeers, AboutTypes
  <2> QED
    BY <2>1, <2>2, AboutMoveIs
<1> QED
  BY <1>1, <1>2, <1>3, <1>4, <1>5, <1>6, <1>7, <1>8, <1>9, WithdrawIs DEF Ends

(* A ceiling, a request for one, and a GOAWAY leave the requests alone.    *)
LEMMA SessionStep ==
  ASSUME TypeOK, Setup, NEW e \in Roles, Session(e)
  PROVE  \E t \in Endpoints : Stepped(e, t)
<1> DEFINE s == ep[e]
<1>1. s \in Endpoints /\ s.role = e
  BY DEF TypeOK
<1>2. ASSUME NEW type \in CountTypes, NEW n \in Nat, NEW t \in Endpoints, Quiet(s, t),
             t.session = s.session, s.session \in {"Active", "Draining"}, Send(e, t, Msg(type, n)),
             goaway' \in [Roles -> BOOLEAN], UNCHANGED <<load, stream, verdict>>
      PROVE  \E u \in Endpoints : Stepped(e, u)
  <2> DEFINE m == Msg(type, n)
  <2>1. type \in MessageTypes
    BY DEF MessageTypes
  <2>2. m \in Messages /\ m.type = type /\ m.id = n
    BY <2>1, PlainMsgIs
  <2>3. Send(e, t, m)
    BY <1>2
  <2> HIDE DEF m
  <2>4. WellFormed(m) /\ m.type \notin SetupTypes /\ m.type # "FETCH_CANCEL"
    BY <2>2 DEF WellFormed, SetupTypes, CountTypes, RequestTypes, OkTypes, ErrorTypes, EndTypes
  <2>5. ~Early(e) /\ t.role = e /\ Alike(s, t)
    BY <1>1, <1>2 DEF Early, Quiet, Alike
  <2>6. At(e, t) /\ (Posts(e, <<m>>) \/ wire' = wire) /\ dropped' \in 0..load.drops
    BY <2>2, <2>3, <2>4, <2>5, SendIs
  <2>7. Rest
    BY <1>2, <2>6 DEF Rest, TypeOK
  <2>8. Ending(e, t)
    <3>1. /\ <<m>> \in Seq(Messages)
          /\ \A k \in DOMAIN <<m>> :
               /\ <<m>>[k].type \in EndTypes \union CountTypes \union AboutTypes
               /\ <<m>>[k].type # "FETCH_CANCEL"
      BY <2>2, <2>4
    <3> QED
      BY <1>2, <2>5, <2>6, <3>1 DEF Ending, Quiet
  <2> QED
    BY <2>6, <2>7, <2>8 DEF Stepped
<1>3. "GOAWAY" \in CountTypes /\ "MAX_REQUEST_ID" \in CountTypes /\ "REQUESTS_BLOCKED" \in CountTypes
  BY DEF CountTypes
<1>4. goaway \in [Roles -> BOOLEAN]
  BY DEF TypeOK
<1>5. ASSUME NEW ceiling \in load.ceilings, send_max_request_id(e, ceiling)
      PROVE  \E t \in Endpoints : Stepped(e, t)
  <2> DEFINE t == [s EXCEPT !.advertised_max_id = ceiling]
  <2>1. /\ s.session \in {"Active", "Draining"} /\ Send(e, t, Msg("MAX_REQUEST_ID", ceiling))
        /\ UNCHANGED <<load, stream, goaway, verdict>>
    BY <1>5 DEF send_max_request_id
  <2>2. ceiling \in Nat
    BY SessionAssumption DEF TypeOK, WorkloadType
  <2>3. t \in Endpoints /\ Quiet(s, t) /\ t.session = s.session
    BY <1>1, <2>2 DEF Endpoints, Quiet, Alike
  <2> HIDE DEF t
  <2> QED
    BY <1>2, <1>3, <1>4, <2>1, <2>2, <2>3
<1>6. CASE send_requests_blocked(e)
  <2>1. /\ s.session \in {"Active", "Draining"} /\ Send(e, s, Msg("REQUESTS_BLOCKED", s.max_id))
        /\ UNCHANGED <<load, stream, goaway, verdict>>
    BY <1>6 DEF send_requests_blocked
  <2>2. s.max_id \in Nat /\ Quiet(s, s)
    BY <1>1 DEF Endpoints, Quiet, Alike
  <2> QED
    BY <1>1, <1>2, <1>3, <1>4, <2>1, <2>2
<1>7. CASE SendGoAway(e)
  <2> DEFINE n == IF e = "server" THEN 1 ELSE 0
  <2>1. /\ s.session \in {"Active", "Draining"} /\ Send(e, s, Msg("GOAWAY", n))
        /\ goaway' = [goaway EXCEPT ![e] = TRUE] /\ UNCHANGED <<load, stream, verdict>>
    BY <1>7 DEF SendGoAway
  <2>2. n \in Nat /\ Quiet(s, s) /\ goaway' \in [Roles -> BOOLEAN]
    BY <1>4, <2>1 DEF Quiet, Alike
  <2> HIDE DEF n
  <2> QED
    BY <1>1, <1>2, <1>3, <2>1, <2>2
<1> QED
  BY <1>5, <1>6, <1>7 DEF Session

(* A message that is read is read by an endpoint past the handshake.       *)
LEMMA ReadStep ==
  ASSUME TypeOK, Setup, Meaning, NEW e \in Roles, recv_and_dispatch(e)
  PROVE  \E t \in Endpoints : Stepped(e, t)
<1> DEFINE s == ep[e]
           m == Head(wire[e])
<1>1. s \in Endpoints /\ s.role = e
  BY DEF TypeOK
<1>2. s.session \in {"Active", "Draining"} /\ wire[e] # <<>> /\ wire' = [wire EXCEPT ![e] = Tail(@)]
      /\ UNCHANGED <<load, stream, goaway, verdict, dropped>>
  BY DEF recv_and_dispatch
<1>3. m \in OnWire(e) /\ m \in Messages
  BY <1>2, ReadsIs
<1>4. ~Early(e) /\ m.type \notin SetupTypes /\ WellFormed(m)
  BY <1>2, <1>3 DEF Early, Setup, Meaning, Roles
<1>5. PICK t \in receive_message(s, m) : ep' = [ep EXCEPT ![e] = t]
  BY DEF recv_and_dispatch
<1> HIDE DEF m
<1>6. /\ t \in Endpoints /\ Receipt(s, t, m)
      /\ t.session \in {s.session, "Closed"} \/ (s.session = "Active" /\ t.session = "Draining")
  BY <1>1, <1>3, <1>4, <1>5, ReceiptIs
<1>7. t.role = e
  BY <1>1, <1>6 DEF Receipt, Quiet, Learned, ToldOver, Admitted, Changed, Alike
<1>8. At(e, t) /\ Rest
  BY <1>2, <1>5, <1>6, <1>7 DEF At, Rest, TypeOK
<1>9. Reading(e, t, m)
  BY <1>2, <1>4, <1>6 DEF Reading, m
<1> QED
  BY <1>3, <1>6, <1>8, <1>9 DEF Stepped

(* The steps of the handshake, and that they keep to its order.            *)
LEMMA ShakeStep ==
  ASSUME TypeOK, Setup, adopt_offering \/ AcceptConnection \/ AcceptSetup \/ FinishSetup
  PROVE  /\ adopt_offering \/ FinishSetup => \E t \in Endpoints : Stepped("client", t)
         /\ AcceptConnection \/ AcceptSetup => \E t \in Endpoints : Stepped("server", t)
<1> DEFINE c == ep["client"]
           s == ep["server"]
<1>1. /\ c \in Endpoints /\ s \in Endpoints /\ c.role = "client" /\ s.role = "server"
      /\ Roles = {"client", "server"} /\ wire \in [Roles -> Seq(Messages)]
      /\ ep \in [Roles -> Endpoints]
  BY DEF TypeOK, Roles
<1>2. /\ \A ceiling \in load.ceilings : ceiling \in Nat
      /\ "CLIENT_SETUP" \in MessageTypes /\ "SERVER_SETUP" \in MessageTypes
  BY SessionAssumption DEF TypeOK, WorkloadType, MessageTypes, SetupTypes
<1>4. ASSUME NEW type \in SetupTypes, NEW n \in Nat \union {None}
      PROVE  Msg(type, n) \in Messages /\ WellFormed(Msg(type, n)) /\ Msg(type, n).type \in SetupTypes
  <2> DEFINE m == Msg(type, n)
  <2>1. type \in MessageTypes
    BY DEF MessageTypes
  <2>2. m \in Messages /\ m.type = type
    BY <2>1, PlainMsgIs
  <2> HIDE DEF m
  <2>3. WellFormed(m) /\ m.type \in SetupTypes
    BY <2>2 DEF WellFormed, SetupTypes, RequestTypes, OkTypes, ErrorTypes, EndTypes, CountTypes
  <2> QED
    BY <2>2, <2>3 DEF m
<1>5. ASSUME adopt_offering
      PROVE  \E t \in Endpoints : Stepped("client", t)
  <2>1. PICK ceiling \in load.ceilings \union {None} :
          /\ ep' = [ep EXCEPT !["client"] = send_client_setup(connect(@), ceiling)]
          /\ wire' = [wire EXCEPT !["server"] = Append(@, Msg("CLIENT_SETUP", ceiling))]
    BY <1>5 DEF adopt_offering
  <2>2. UNCHANGED <<load, stream, goaway, verdict, dropped>> /\ c.session = "Connecting"
    BY <1>5 DEF adopt_offering, OnConnect
  <2> DEFINE t == send_client_setup(connect(c), ceiling)
             m == Msg("CLIENT_SETUP", ceiling)
  <2>3. t \in Endpoints /\ t.session = "SetupExchange" /\ Quiet(c, t)
    BY <1>1, <1>2 DEF send_client_setup, connect, Endpoints, Quiet, Alike, SessionStates
  <2>4. m \in Messages /\ WellFormed(m) /\ m.type \in SetupTypes
    BY <1>2, <1>4 DEF SetupTypes
  <2>5. ep' = [ep EXCEPT !["client"] = t] /\ wire' = [wire EXCEPT !["server"] = Append(@, m)]
    BY <2>1
  <2> HIDE DEF t, m
  <2>6. wire["server"] = <<>> /\ Early("server") /\ wire["client"] = <<>>
    BY <2>2 DEF Setup
  <2>7. wire'["server"] = <<m>> /\ wire'["client"] = <<>> /\ wire' \in [Roles -> Seq(Messages)]
    BY <1>1, <2>4, <2>5, <2>6
  <2>8. ep'["client"] = t /\ ep'["server"] = s
    BY <1>1, <2>5
  <2>9. OnWire("server")' = {m} /\ OnWire("client")' = {}
    BY <2>7 DEF OnWire
  <2>10. Setup'
    <3>1. Early("server")' /\ Early("client")' /\ t.requests = c.requests
      BY <2>3, <2>6, <2>8 DEF Early, Quiet
    <3>2. \A e \in Roles : Early(e)' => \A id \in Ids : ep'[e].requests[id] = NoRequest
      BY <1>1, <2>2, <2>6, <2>8, <3>1 DEF Setup, Early
    <3> QED
      BY <2>3, <2>7, <2>8, <3>1, <3>2 DEF Setup
  <2>11. At("client", t) /\ Rest
    BY <1>1, <2>2, <2>3, <2>5 DEF At, Rest, TypeOK, Quiet, Alike
  <2>12. Shaking("client", t)
    <3>1. Len(wire'["server"]) <= 1 /\ Len(wire'["client"]) <= 1
      BY <2>7
    <3>2. \A x \in Roles : Len(wire'[x]) <= 1
      BY <3>1 DEF Roles
    <3> QED
      BY <1>1, <2>2, <2>3, <2>4, <2>7, <2>9, <2>10, <3>2 DEF Shaking
  <2> QED
    BY <1>1, <2>3, <2>11, <2>12 DEF Stepped
<1>6. ASSUME AcceptConnection
      PROVE  \E t \in Endpoints : Stepped("server", t)
  <2> DEFINE t == connect(s)
  <2>1. /\ s.session = "Connecting" /\ ep' = [ep EXCEPT !["server"] = t]
        /\ UNCHANGED <<load, wire, stream, goaway, verdict, dropped>>
    BY <1>6 DEF AcceptConnection, OnConnect
  <2>2. t \in Endpoints /\ t.session = "SetupExchange" /\ Quiet(s, t)
    BY <1>1 DEF connect, Endpoints, Quiet, Alike, SessionStates
  <2> HIDE DEF t
  <2>3. ep'["client"] = c /\ ep'["server"] = t
    BY <1>1, <2>1
  <2>4. Setup'
    <3>1. Early("server") /\ Early("server")' /\ (Early("client")' <=> Early("client"))
          /\ t.requests = s.requests
      BY <2>1, <2>2, <2>3 DEF Early, Quiet
    <3>2. \A e \in Roles : Early(e)' => \A id \in Ids : ep'[e].requests[id] = NoRequest
      BY <1>1, <2>3, <3>1 DEF Setup
    <3>3. Early("client") /\ wire["client"] = <<>> /\ Len(wire["server"]) <= 1
      BY <3>1 DEF Setup
    <3>4. c.session = "Connecting" => wire["server"] = <<>>
      BY DEF Setup
    <3> QED
      BY <2>1, <2>3, <3>1, <3>2, <3>3, <3>4 DEF Setup
  <2>5. At("server", t) /\ Rest
    BY <1>1, <2>1, <2>2 DEF At, Rest, TypeOK, Quiet, Alike
  <2>6. Shaking("server", t)
    <3>1. wire["client"] = <<>> /\ Len(wire["server"]) <= 1
      BY <2>1 DEF Setup, Early
    <3>2. \A x \in Roles : Len(wire'[x]) <= 1
      BY <1>1, <2>1, <3>1
    <3> QED
      BY <1>1, <2>1, <2>2, <2>4, <3>2 DEF Shaking, OnWire
  <2> QED
    BY <1>1, <2>2, <2>5, <2>6 DEF Stepped
<1>7. ASSUME AcceptSetup
      PROVE  \E t \in Endpoints : Stepped("server", t)
  <2> DEFINE m == Head(wire["server"])
             t == receive_client_setup_and_respond(s, m)
             a == Msg("SERVER_SETUP", None)
             w == IF t.session = "Active" THEN <<a>> ELSE <<>>
  <2>1. /\ s.session = "SetupExchange" /\ wire["server"] # <<>> /\ ep' = [ep EXCEPT !["server"] = t]
        /\ wire' = [wire EXCEPT !["server"] = Tail(@), !["client"] = w]
        /\ UNCHANGED <<load, stream, goaway, verdict, dropped>>
    BY <1>7 DEF AcceptSetup
  <2>2. a \in Messages /\ WellFormed(a) /\ a.type \in SetupTypes
    BY <1>4 DEF SetupTypes
  <2>3. Early("server") /\ Early("client") /\ c.session # "Connecting" /\ Len(wire["server"]) <= 1
    BY <2>1 DEF Setup, Early
  <2>4. Tail(wire["server"]) = <<>> /\ m \in Messages
    BY <1>1, <2>1, <2>3
  <2>5. m.id \in Nat \union {None}
    BY <2>4 DEF Messages
  <2> HIDE DEF m, a
  <2>6. t \in Endpoints /\ t.session \in {"SetupExchange", "Active"} /\ Quiet(s, t)
    <3>1. CASE t = s
      BY <1>1, <2>1, <3>1 DEF Quiet, Alike
    <3>2. CASE t = [Granted(s, m.id) EXCEPT !.session = IF OnSetupComplete(@) THEN "Active" ELSE @]
      <4>1. Granted(s, m.id) \in Endpoints /\ Quiet(s, Granted(s, m.id))
            /\ Granted(s, m.id).session = s.session
        BY <1>1, <2>5 DEF Granted, update_max, Endpoints, Quiet, Alike
      <4>2. t = [Granted(s, m.id) EXCEPT !.session = "Active"]
        BY <2>1, <3>2, <4>1 DEF OnSetupComplete
      <4> QED
        BY <4>1, <4>2 DEF Endpoints, Quiet, Alike, SessionStates
    <3> QED
      BY <3>1, <3>2 DEF receive_client_setup_and_respond
  <2> HIDE DEF t
  <2>7. w \in Seq(Messages) /\ Len(w) <= 1 /\ \A n \in DOMAIN w : w[n] = a
    BY <2>2
  <2>8. t.session = "SetupExchange" => w = <<>>
    OBVIOUS
  <2> HIDE DEF w
  <2>9. wire'["server"] = <<>> /\ wire'["client"] = w /\ wire' \in [Roles -> Seq(Messages)]
    <3>1. wire' = [wire EXCEPT !["server"] = <<>>, !["client"] = w]
      BY <2>1, <2>4
    <3>2. <<>> \in Seq(Messages)
      OBVIOUS
    <3> QED
      BY ONLY <1>1, <2>7, <3>1, <3>2
  <2>10. ep'["client"] = c /\ ep'["server"] = t
    BY <1>1, <2>1
  <2>11. Setup'
    <3>1. Early("client")' /\ (Early("server")' => t.session = "SetupExchange")
          /\ t.requests = s.requests
      BY <2>3, <2>6, <2>10 DEF Early, Quiet
    <3>2. \A e \in Roles : Early(e)' => \A id \in Ids : ep'[e].requests[id] = NoRequest
      BY <1>1, <2>3, <2>10, <3>1 DEF Setup
    <3>3. OnWire("server")' = {}
      BY <2>9 DEF OnWire
    <3>4. \A i \in DOMAIN w : ~(i > 1)
      BY <2>7
    <3> QED
      BY <2>3, <2>8, <2>9, <2>10, <3>1, <3>2, <3>3, <3>4 DEF Setup
  <2>12. At("server", t) /\ Rest
    BY <1>1, <2>1, <2>6 DEF At, Rest, TypeOK, Quiet, Alike
  <2>13. Shaking("server", t)
    <3>1. \A x \in Roles : \A n \in OnWire(x)' : WellFormed(n) /\ n.type \in SetupTypes
      BY <1>1, <2>2, <2>7, <2>9 DEF OnWire
    <3>2. \A x \in Roles : Len(wire'[x]) <= 1
      BY <1>1, <2>7, <2>9
    <3> QED
      BY <2>1, <2>6, <2>9, <2>11, <3>1, <3>2 DEF Shaking
  <2> QED
    BY <1>1, <2>6, <2>12, <2>13 DEF Stepped
<1>8. ASSUME FinishSetup
      PROVE  \E t \in Endpoints : Stepped("client", t)
  <2> DEFINE m == Head(wire["client"])
             t == receive_server_setup(c, m)
  <2>1. /\ c.session = "SetupExchange" /\ wire["client"] # <<>>
        /\ ep' = [ep EXCEPT !["client"] = t] /\ wire' = [wire EXCEPT !["client"] = Tail(@)]
        /\ UNCHANGED <<load, stream, goaway, verdict, dropped>>
    BY <1>8 DEF FinishSetup
  <2>2. /\ wire' \in [Roles -> Seq(Messages)] /\ wire'["server"] = wire["server"]
        /\ m \in Messages
        /\ \A i \in DOMAIN wire'["client"] : i + 1 \in DOMAIN wire["client"]
             /\ wire'["client"][i] = wire["client"][i + 1]
        /\ OnWire("client")' \subseteq OnWire("client") /\ OnWire("server")' = OnWire("server")
    BY <1>1, <2>1, ReadsIs DEF Peer
  <2>3. m.id \in Nat \union {None}
    BY <2>2 DEF Messages
  <2> HIDE DEF m
  <2>4. t \in Endpoints /\ t.session = "Active" /\ Quiet(c, t)
    <3> DEFINE active == [c EXCEPT !.session = "Active"]
    <3>1. active \in Endpoints /\ Quiet(c, active) /\ active.session = "Active"
      BY <1>1 DEF Endpoints, Quiet, Alike, SessionStates
    <3>2. t = active \/ t = Granted(active, m.id)
      BY <2>1 DEF receive_server_setup, OnSetupComplete
    <3> HIDE DEF active
    <3>3. Granted(active, m.id) \in Endpoints /\ Quiet(active, Granted(active, m.id))
          /\ Granted(active, m.id).session = "Active"
      BY <2>3, <3>1 DEF Granted, update_max, Endpoints, Quiet, Alike
    <3> QED
      BY <3>1, <3>2, <3>3 DEF Quiet, Alike
  <2> HIDE DEF t
  <2>5. ep'["client"] = t /\ ep'["server"] = s
    BY <1>1, <2>1
  <2>6. ~Early("server") /\ ~Early("server")' /\ ~Early("client")'
    BY <2>1, <2>4, <2>5 DEF Setup, Early
  <2>7. \A i \in DOMAIN wire'["client"] : wire'["client"][i].type \notin SetupTypes
    <3> TAKE i \in DOMAIN wire'["client"]
    <3>1. i + 1 \in DOMAIN wire["client"] /\ i \in Nat /\ i > 0
      BY <1>1, <2>2
    <3> QED
      BY <2>2, <3>1 DEF Setup
  <2>8. Setup'
    <3>1. \A e \in Roles : ~Early(e)'
      BY <1>1, <2>6
    <3>2. \A n \in OnWire("client")' : n.type \notin SetupTypes
      BY <2>7 DEF OnWire
    <3>3. \A n \in OnWire("server")' : n.type \notin SetupTypes
      BY <2>2, <2>6 DEF Setup
    <3> QED
      BY <2>4, <2>5, <2>6, <2>7, <3>1, <3>2, <3>3 DEF Setup
  <2>9. At("client", t) /\ Rest
    BY <1>1, <2>1, <2>4 DEF At, Rest, TypeOK, Quiet, Alike
  <2>10. Shaking("client", t)
    BY <1>1, <2>1, <2>2, <2>4, <2>8 DEF Shaking
  <2> QED
    BY <1>1, <2>4, <2>9, <2>10 DEF Stepped
<1> QED
  BY <1>5, <1>6, <1>7, <1>8

(* Every step is one of the five shapes, at one of the two ends.           *)
LEMMA NextStep ==
  ASSUME TypeOK, Setup, Meaning, Next
  PROVE  \E e \in Roles : \E t \in Endpoints : Stepped(e, t)
<1>1. CASE adopt_offering \/ AcceptConnection \/ AcceptSetup \/ FinishSetup
  BY <1>1, ShakeStep DEF Roles
<1>2. ASSUME NEW e \in Roles, Session(e) \/ Asks(e) \/ Ends(e) \/ recv_and_dispatch(e)
      PROVE  \E t \in Endpoints : Stepped(e, t)
  BY <1>2, SessionStep, AsksStep, EndsStep, ReadStep DEF Stepped
<1>3. ASSUME NEW e \in Roles, NEW id \in Ids, Answers(e, id)
      PROVE  \E t \in Endpoints : Stepped(e, t)
  BY <1>3, AnswersStep DEF Stepped
<1> QED
  BY <1>1, <1>2, <1>3 DEF Next

-----------------------------------------------------------------------------
(* The invariant *)

(* Every field stays in its range. *)
LEMMA TypeKept ==
  ASSUME TypeOK, NEW e \in Roles, NEW t, Stepped(e, t)
  PROVE  TypeOK'
<1>1. At(e, t) /\ Rest
  BY DEF Stepped
<1>2. ep' \in [Roles -> Endpoints] /\ \A x \in Roles : ep'[x].role = x
  BY <1>1, AtIs
<1>3. /\ load' \in Workloads /\ dropped' \in 0..load'.drops /\ goaway' \in [Roles -> BOOLEAN]
      /\ stream' \in [Ids -> {"none", "fin", "finished", "reset", "was_reset"}]
  BY <1>1 DEF TypeOK, Rest
<1>4. wire' \in [Roles -> Seq(Messages)]
  <2>1. CASE wire' = wire
    BY <2>1 DEF TypeOK
  <2>2. ASSUME NEW ms, Posts(e, ms)
        PROVE  wire' \in [Roles -> Seq(Messages)]
    BY <2>2, PostsIs
  <2>3. ASSUME NEW m, Reading(e, t, m)
        PROVE  wire' \in [Roles -> Seq(Messages)]
    BY <2>3, ReadsIs DEF Reading
  <2> QED
    BY <2>1, <2>2, <2>3 DEF Stepped, Opening, Deciding, Ending, Shaking
<1>5. verdict' \in [Ids -> {None, "ok", "error"}]
  <2>1. CASE verdict' = verdict
    BY <2>1 DEF TypeOK
  <2>2. ASSUME NEW m, Deciding(e, t, m)
        PROVE  verdict' \in [Ids -> {None, "ok", "error"}]
    BY <2>2 DEF TypeOK, Deciding
  <2> QED
    BY <2>1, <2>2 DEF Stepped, Opening, Ending, Reading, Shaking
<1> QED
  BY <1>2, <1>3, <1>4, <1>5 DEF TypeOK

(* What a step that is not of the handshake does to the wire.              *)
Wired(e) ==
  \/ wire' = wire
  \/ \E ms \in Seq(Messages) : Posts(e, ms)
  \/ ~Early(e) /\ wire[e] # <<>> /\ wire' = [wire EXCEPT ![e] = Tail(@)]

(* A request that moves has a kind. *)
LEMMA MovingIs ==
  ASSUME NEW s, NEW t, NEW id, NEW event,
         <<s.requests[id].state, event, t.requests[id].state>> \in Moves(s.requests[id].kind)
  PROVE  s.requests[id] # NoRequest /\ s.requests[id].kind \in Kinds
<1>1. s.requests[id].kind \in Kinds
  BY MoveFacts
<1> QED
  BY <1>1 DEF NoRequest, Kinds

(* The handshake comes first, whatever the two ends do.                    *)
LEMMA SetupKept ==
  ASSUME TypeOK, Setup, NEW e \in Roles, NEW t, Stepped(e, t)
  PROVE  Setup'
<1> DEFINE s == ep[e]
<1>1. At(e, t) /\ Roles = {"client", "server"}
  BY DEF Stepped, Roles
<1>2. ep'[e] = t /\ ep'[Peer(e)] = ep[Peer(e)]
  BY <1>1, AtIs
<1>3. CASE Shaking(e, t)
  BY <1>3 DEF Shaking
<1>4. CASE ~Shaking(e, t)
  <2>1. /\ t.session \in {"Connecting", "SetupExchange"} => t.session = s.session
        /\ Early(e) => t.session = s.session
    BY <1>4 DEF Stepped, Opening, Deciding, Ending, Reading, Changed
  <2>2. Wired(e)
    <3>1. ASSUME NEW m \in Messages, Posts(e, <<m>>)
          PROVE  Wired(e)
      BY <3>1 DEF Wired
    <3> QED
      BY <1>4, <3>1 DEF Stepped, Opening, Deciding, Ending, Reading, Wired
  <2>3. Early(e) => \A id \in Ids : t.requests[id] = s.requests[id]
    <3> SUFFICES ASSUME Early(e), NEW id \in Ids
                 PROVE  t.requests[id] = s.requests[id]
      OBVIOUS
    <3>1. s.requests[id] = NoRequest
      BY DEF Setup
    <3>2. ASSUME NEW m, Deciding(e, t, m)
          PROVE  t.requests[id] = s.requests[id]
      <4>1. PICK event, alias : Changed(s, t, m.id, event, alias) /\ m.id \in Ids
        BY <3>2 DEF Deciding
      <4>2. s.requests[m.id] # NoRequest
        BY <4>1, MovingIs DEF Changed
      <4> QED
        BY <3>1, <4>1, <4>2 DEF Changed
    <3>3. CASE Ending(e, t)
      BY <3>1, <3>3, MovingIs DEF Ending, Ended
    <3> QED
      BY <1>4, <3>2, <3>3 DEF Stepped, Opening, Reading
  <2>4. \A x \in Roles : Early(x)' <=> Early(x)
    <3>1. Early(e)' <=> Early(e)
      BY <1>2, <2>1 DEF Early
    <3>2. Early(Peer(e))' <=> Early(Peer(e))
      BY <1>2 DEF Early
    <3> QED
      BY <3>1, <3>2, RolesAre
  <2>5. \A x \in Roles : Early(x)' => \A id \in Ids : ep'[x].requests[id] = NoRequest
    <3>1. \A x \in Roles : Early(x)' => \A id \in Ids : ep[x].requests[id] = NoRequest
      BY <2>4 DEF Setup
    <3>2. Early(e)' => \A id \in Ids : ep'[e].requests[id] = NoRequest
      BY <1>2, <2>3, <2>4, <3>1
    <3>3. Early(Peer(e))' => \A id \in Ids : ep'[Peer(e)].requests[id] = NoRequest
      BY <1>2, <3>1, RolesAre
    <3> QED
      BY <3>2, <3>3, RolesAre
  <2>6. Early("server") => Early("client") /\ wire' = wire
    <3> HAVE Early("server")
    <3>1. Early("client") /\ Early(e)
      BY <1>1 DEF Setup
    <3> QED
      BY <2>2, <3>1 DEF Wired, Posts
  <2>7. ep'["client"].session = "Connecting" => wire'["server"] = <<>> /\ Early("server")'
    <3> HAVE ep'["client"].session = "Connecting"
    <3>1. ep["client"].session = "Connecting"
      BY <1>1, <1>2, <2>1 DEF Peer
    <3>2. Early("server") /\ wire["server"] = <<>>
      BY <3>1 DEF Setup
    <3> QED
      BY <1>1, <2>4, <2>6, <3>2
  <2>8. Early("server")' => Early("client")' /\ wire'["client"] = <<>> /\ Len(wire'["server"]) <= 1
    <3> HAVE Early("server")'
    <3>1. Early("server") /\ wire' = wire /\ Early("client")
      BY <1>1, <2>4, <2>6
    <3> QED
      BY <1>1, <2>4, <3>1 DEF Setup
  <2>9. ASSUME NEW x \in Roles
        PROVE  \A m \in OnWire(x)' : m \in OnWire(x) \/ m.type \notin SetupTypes
    <3>1. CASE wire' = wire
      BY <3>1 DEF OnWire
    <3>2. ASSUME NEW ms, Posts(e, ms)
          PROVE  \A m \in OnWire(x)' : m \in OnWire(x) \/ m.type \notin SetupTypes
      <4>1. /\ OnWire(e)' = OnWire(e)
            /\ \A m \in OnWire(Peer(e))' : m \in OnWire(Peer(e)) \/ \E n \in DOMAIN ms : m = ms[n]
        BY <3>2, PostsIs
      <4>2. \A n \in DOMAIN ms : ms[n].type \notin SetupTypes
        BY <3>2 DEF Posts
      <4> QED
        BY <4>1, <4>2, RolesAre
    <3>3. CASE wire[e] # <<>> /\ wire' = [wire EXCEPT ![e] = Tail(@)]
      <4>1. OnWire(e)' \subseteq OnWire(e) /\ OnWire(Peer(e))' = OnWire(Peer(e))
        BY <3>3, ReadsIs
      <4> QED
        BY <4>1, RolesAre
    <3> QED
      BY <2>2, <3>1, <3>2, <3>3 DEF Wired
  <2>10. \A i \in DOMAIN wire'["client"] : i > 1 => wire'["client"][i].type \notin SetupTypes
    <3> SUFFICES ASSUME NEW i \in DOMAIN wire'["client"], i > 1
                 PROVE  wire'["client"][i].type \notin SetupTypes
      OBVIOUS
    <3>1. CASE wire'["client"] = wire["client"]
      BY <3>1 DEF Setup
    <3>2. ASSUME NEW ms, Posts(e, ms), Peer(e) = "client"
          PROVE  wire'["client"][i].type \notin SetupTypes
      <4>1. \A k \in DOMAIN wire'[Peer(e)] :
              \/ k \in DOMAIN wire[Peer(e)] /\ wire'[Peer(e)][k] = wire[Peer(e)][k]
              \/ /\ k > Len(wire[Peer(e)]) /\ k - Len(wire[Peer(e)]) \in DOMAIN ms
                 /\ wire'[Peer(e)][k] = ms[k - Len(wire[Peer(e)])]
        BY <3>2, PostsIs
      <4>2. \A n \in DOMAIN ms : ms[n].type \notin SetupTypes
        BY <3>2 DEF Posts
      <4>3. \A k \in DOMAIN wire[Peer(e)] : k > 1 => wire[Peer(e)][k].type \notin SetupTypes
        BY <3>2 DEF Setup
      <4>4. i \in DOMAIN wire'[Peer(e)] /\ wire'["client"] = wire'[Peer(e)]
        BY <3>2
      <4> QED
        BY <4>1, <4>2, <4>3, <4>4
    <3>3. CASE e = "client" /\ ~Early(e) /\ wire[e] # <<>> /\ wire' = [wire EXCEPT ![e] = Tail(@)]
      <4>1. wire'["client"][i] \in OnWire("client")'
        BY DEF OnWire
      <4>2. OnWire("client")' \subseteq OnWire("client")
        BY <3>3, ReadsIs
      <4> QED
        BY <3>3, <4>1, <4>2 DEF Setup
    <3>4. \A ms : Posts(e, ms) => wire'[e] = wire[e]
      BY PostsIs
    <3>5. wire[e] # <<>> /\ wire' = [wire EXCEPT ![e] = Tail(@)] => wire'[Peer(e)] = wire[Peer(e)]
      BY ReadsIs
    <3> QED
      BY <1>1, <2>2, <3>1, <3>2, <3>3, <3>4, <3>5 DEF Wired, Peer
  <2>11. /\ ~Early("server")' => \A m \in OnWire("server")' : m.type \notin SetupTypes
         /\ ~Early("client")' => \A m \in OnWire("client")' : m.type \notin SetupTypes
    BY <1>1, <2>4, <2>9 DEF Setup
  <2> QED
    BY <2>5, <2>7, <2>8, <2>10, <2>11 DEF Setup
<1> QED
  BY <1>3, <1>4

-----------------------------------------------------------------------------
(* What a step at e does to one request *)

Kept(e, t, id) == t.requests[id] = ep[e].requests[id] /\ verdict'[id] = verdict[id]

(* By the message that goes with it, or that it answers. *)
Opens(e, t, id) ==
  \E m \in Messages : Opening(e, t, m) /\ m.id = id /\ m.type # "SUBSCRIBE_UPDATE"
Admits(e, t, id) ==
  \E m \in Messages : /\ Reading(e, t, m) /\ Admitted(ep[e], t, m)
                      /\ m.id = id /\ m.type # "SUBSCRIBE_UPDATE"
Establishes(e, t, id) ==
  \E m \in Messages : /\ m.type = "SUBSCRIBE_OK" /\ m.id = id
                      /\ Deciding(e, t, m) \/ (Reading(e, t, m) /\ Learned(ep[e], t, m))

(* It is new at e, and if the peer asked for it the peer has it.           *)
Fresh(e, t, id) ==
  /\ ep[e].requests[id] = NoRequest /\ verdict'[id] = verdict[id]
  /\ t.requests[id].kind \in Kinds /\ t.requests[id].state = Opened(t.requests[id].kind)
  /\ \/ Owner(id) = e /\ Opens(e, t, id)
     \/ Owner(id) = Peer(e) /\ ep[Peer(e)].requests[id].kind # "none" /\ Admits(e, t, id)

(* Its machine moves; only a SUBSCRIBE_OK binds another alias.  The asker  *)
(* moves on an answer only to the verdict, and a fetch is cancelled at the *)
(* answerer only once the asker has.                                       *)
Turned(e, t, id, event) ==
  /\ <<ep[e].requests[id].state, event, t.requests[id].state>> \in Moves(ep[e].requests[id].kind)
  /\ t.requests[id].kind = ep[e].requests[id].kind
  /\ t.requests[id].what = ep[e].requests[id].what
  /\ IF event = "ok" /\ ep[e].requests[id].kind = "subscribe" THEN Establishes(e, t, id)
     ELSE t.requests[id].alias = ep[e].requests[id].alias
  /\ IF event \in {"ok", "error"} /\ Owner(id) # e
     THEN verdict'[id] = event ELSE verdict'[id] = verdict[id]
  /\ event \in {"ok", "error"} /\ Owner(id) = e => verdict[id] = event
  /\ event = "cancel" /\ ep[e].requests[id].kind = "fetch" /\ Owner(id) # e =>
       ep[Peer(e)].requests[id].state = "Done"

Events == {"ok", "error", "unsubscribe", "done", "cancel", "end"}

(* An answered request is told apart by its message's type.                *)
LEMMA TypesApart ==
  /\ \A type \in OkTypes : type \notin ErrorTypes /\ type \notin RequestTypes /\ type # "FETCH_CANCEL"
  /\ \A type \in ErrorTypes : type \notin RequestTypes /\ type # "FETCH_CANCEL"
  /\ \A type \in RequestTypes : type # "FETCH_CANCEL"
  /\ \A type \in SetupTypes \union CountTypes \union AboutTypes \union EndTypes :
       type \notin RequestTypes \union OkTypes \union ErrorTypes
  /\ \A type \in SetupTypes \union CountTypes \union AboutTypes : type # "FETCH_CANCEL"
  /\ \A type \in RequestTypes : type # "SUBSCRIBE_UPDATE" => KindOf(type) \in Kinds
BY DEF OkTypes, ErrorTypes, RequestTypes, SetupTypes, CountTypes, AboutTypes, EndTypes, KindOf, Kinds

(* The one answer that accepts a subscription. *)
LEMMA AnswerOf ==
  ASSUME NEW type \in OkTypes \union ErrorTypes
  PROVE  type = "SUBSCRIBE_OK" <=>
           (IF type \in OkTypes THEN "ok" ELSE "error") = "ok" /\ KindOf(type) = "subscribe"
BY DEF OkTypes, ErrorTypes, KindOf

(* Every step leaves a request, opens it, or moves it as the other end     *)
(* allows.                                                                 *)
LEMMA RecordStep ==
  ASSUME Inv, NEW e \in Roles, NEW t, Stepped(e, t), NEW id \in Ids
  PROVE  Kept(e, t, id) \/ Fresh(e, t, id) \/ \E event \in Events : Turned(e, t, id, event)
<1> DEFINE s == ep[e]
           p == ep[Peer(e)]
<1>1. /\ TypeOK /\ Setup /\ Meaning /\ Counted(s) /\ Counted(p) /\ At(e, t)
      /\ s \in Endpoints /\ p \in Endpoints /\ s.role = e /\ p.role = Peer(e)
      /\ verdict \in [Ids -> {None, "ok", "error"}]
  BY RolesAre DEF Inv, TypeOK, Counters, Stepped
<1>2. Owner(id) = e \/ Owner(id) = Peer(e)
  BY RolesAre
<1>3. e # Peer(e) /\ Peer(e) \in Roles /\ Peer(Peer(e)) = e
  BY RolesAre
<1>4. ASSUME NEW m \in Messages, Opening(e, t, m)
      PROVE  Kept(e, t, id) \/ Fresh(e, t, id)
  <2>1. CASE id # m.id \/ m.type = "SUBSCRIBE_UPDATE"
    BY <1>4, <2>1 DEF Opening, Kept
  <2>2. CASE id = m.id /\ m.type # "SUBSCRIBE_UPDATE"
    <3>1. id = s.next_id /\ verdict' = verdict /\ t.requests[id].kind = KindOf(m.type)
          /\ t.requests[id].state = Opened(KindOf(m.type)) /\ m.type \in RequestTypes
      BY <1>4, <2>2 DEF Opening, NextId
    <3>2. Owner(id) = e /\ s.requests[id] = NoRequest
      BY <1>1, <3>1, EndpointAssumption DEF Counted
    <3> QED
      BY <1>4, <2>2, <3>1, <3>2, TypesApart DEF Fresh, Opens
  <2> QED
    BY <2>1, <2>2
<1>5. ASSUME NEW m \in Messages, Deciding(e, t, m)
      PROVE  Kept(e, t, id) \/ \E event \in Events : Turned(e, t, id, event)
  <2> DEFINE event == IF m.type \in OkTypes THEN "ok" ELSE "error"
  <2>1. /\ m.id \in Ids /\ verdict' = [verdict EXCEPT ![m.id] = event] /\ Owner(m.id) # e
        /\ \E alias : /\ Changed(s, t, m.id, event, alias)
                      /\ alias = IF m.type = "SUBSCRIBE_OK" THEN m.alias ELSE s.requests[m.id].alias
        /\ s.requests[m.id].kind = KindOf(m.type) /\ m.type \in OkTypes \union ErrorTypes
    BY <1>1, <1>5 DEF Deciding, IsPeers
  <2>2. event \in {"ok", "error"}
    OBVIOUS
  <2> HIDE DEF event
  <2>3. CASE id # m.id
    BY <1>1, <2>1, <2>3 DEF Changed, Kept
  <2>4. CASE id = m.id
    <3>1. verdict'[id] = event /\ Owner(id) # e
      BY <1>1, <2>1, <2>4
    <3>2. m.type = "SUBSCRIBE_OK" <=> event = "ok" /\ s.requests[m.id].kind = "subscribe"
      BY <2>1, AnswerOf DEF event
    <3>3. m.type = "SUBSCRIBE_OK" => Establishes(e, t, id)
      BY <1>5, <2>4 DEF Establishes
    <3>4. Turned(e, t, id, event)
      BY <2>1, <2>2, <2>4, <3>1, <3>2, <3>3 DEF Changed, Turned
    <3> QED
      BY <2>2, <3>4 DEF Events
  <2> QED
    BY <2>3, <2>4
<1>6. ASSUME NEW m \in Messages, Reading(e, t, m)
      PROVE  Kept(e, t, id) \/ Fresh(e, t, id) \/ \E event \in Events : Turned(e, t, id, event)
  <2>1. verdict' = verdict /\ Receipt(s, t, m) /\ wire[e] # <<>> /\ m = Head(wire[e])
    BY <1>6 DEF Reading
  <2>2. m \in OnWire(e)
    BY <1>1, <1>6, <2>1, ReadsIs DEF Reading
  <2>3. Meant(e, m)
    BY <1>1, <2>2 DEF Meaning
  <2>4. CASE Quiet(s, t)
    BY <2>1, <2>4 DEF Quiet, Kept
  <2>5. CASE Learned(s, t, m)
    <3> DEFINE event == IF m.type \in OkTypes THEN "ok" ELSE "error"
    <3>1. /\ \E alias : /\ Changed(s, t, m.id, event, alias)
                        /\ alias = IF m.type = "SUBSCRIBE_OK" THEN m.alias
                                   ELSE s.requests[m.id].alias
          /\ s.requests[m.id].kind = KindOf(m.type) /\ m.type \in OkTypes \union ErrorTypes
      BY <2>5 DEF Learned, IsOwn
    <3>2. event \in {"ok", "error"} /\ Owner(m.id) = e /\ verdict[m.id] = event
      BY <1>1, <2>3, <2>5 DEF Learned, IsOwn, Meant
    <3> HIDE DEF event
    <3>3. CASE id # m.id
      BY <2>1, <3>1, <3>3 DEF Changed, Kept
    <3>4. CASE id = m.id
      <4>1. m.type = "SUBSCRIBE_OK" <=> event = "ok" /\ s.requests[m.id].kind = "subscribe"
        BY <3>1, AnswerOf DEF event
      <4>2. m.type = "SUBSCRIBE_OK" => Establishes(e, t, id)
        BY <1>6, <2>5, <3>4 DEF Establishes
      <4>3. Turned(e, t, id, event)
        BY <2>1, <3>1, <3>2, <3>4, <4>1, <4>2 DEF Changed, Turned
      <4> QED
        BY <3>2, <4>3 DEF Events
    <3> QED
      BY <3>3, <3>4
  <2>6. CASE ToldOver(s, t, m)
    <3>1. PICK j \in Ids, event \in {"unsubscribe", "done", "cancel"} :
            /\ Changed(s, t, j, event, s.requests[j].alias)
            /\ event = "cancel" /\ s.requests[j].kind = "fetch" =>
                 m.type = "FETCH_CANCEL" /\ j = m.id /\ Owner(j) # s.role
      BY <2>6 DEF ToldOver
    <3>2. CASE id # j
      BY <2>1, <3>1, <3>2 DEF Changed, Kept
    <3>3. CASE id = j
      <4>1. event = "cancel" /\ s.requests[id].kind = "fetch" => p.requests[id].state = "Done"
        BY <2>3, <3>1, <3>3 DEF Meant
      <4>2. Turned(e, t, id, event)
        BY <2>1, <3>1, <3>3, <4>1 DEF Changed, Turned
      <4> QED
        BY <4>2 DEF Events
    <3> QED
      BY <3>2, <3>3
  <2>7. CASE Admitted(s, t, m)
    <3>1. CASE t.requests[id] = s.requests[id]
      BY <2>1, <3>1 DEF Kept
    <3>2. CASE t.requests[id] # s.requests[id]
      <4>1. /\ id = m.id /\ m.type \in RequestTypes /\ m.type # "SUBSCRIBE_UPDATE"
            /\ t.requests[id].kind = KindOf(m.type) /\ t.requests[id].state = Opened(KindOf(m.type))
            /\ id = s.peer_next_id /\ Owner(id) # e
        BY <1>1, <2>7, <3>2 DEF Admitted
      <4>2. s.requests[id] = NoRequest
        BY <1>1, <4>1, EndpointAssumption DEF Counted
      <4>3. Owner(id) = Peer(e) /\ p.requests[id].kind = KindOf(m.type)
        BY <1>2, <2>3, <4>1 DEF Meant
      <4>4. KindOf(m.type) \in Kinds /\ KindOf(m.type) # "none"
        BY <4>1, TypesApart DEF Kinds
      <4> QED
        BY <1>6, <2>1, <2>7, <4>1, <4>2, <4>3, <4>4 DEF Fresh, Admits
    <3> QED
      BY <3>1, <3>2
  <2> QED
    BY <2>1, <2>4, <2>5, <2>6, <2>7 DEF Receipt
<1>7. CASE Ending(e, t)
  <2>1. verdict' = verdict
    BY <1>7 DEF Ending
  <2>2. CASE t.requests[id] = s.requests[id]
    BY <2>1, <2>2 DEF Kept
  <2>3. CASE Ended(e, t, id)
    <3>1. PICK event \in {"unsubscribe", "done", "cancel", "end"} :
            /\ <<s.requests[id].state, event, t.requests[id].state>> \in Moves(s.requests[id].kind)
            /\ event = "cancel" /\ s.requests[id].kind = "fetch" => Owner(id) = e
      BY <2>3 DEF Ended
    <3>2. Turned(e, t, id, event)
      BY <2>1, <2>3, <3>1 DEF Ended, Turned
    <3> QED
      BY <3>2 DEF Events
  <2> QED
    BY <1>7, <2>2, <2>3 DEF Ending
<1>8. CASE Shaking(e, t)
  BY <1>8 DEF Shaking, Quiet, Kept
<1> QED
  BY <1>4, <1>5, <1>6, <1>7, <1>8 DEF Stepped

(* What is known of a request stays known.                                 *)
LEMMA Lasting ==
  ASSUME Inv, NEW e \in Roles, NEW t, Stepped(e, t), NEW x \in Roles, NEW id \in Ids
  PROVE  /\ ep[x].next_id <= ep'[x].next_id
         /\ ep[x].requests[id].kind # "none" =>
              /\ ep'[x].requests[id].kind = ep[x].requests[id].kind
              /\ ep'[x].requests[id].what = ep[x].requests[id].what
              /\ ep[x].requests[id].kind = "publish" =>
                   ep'[x].requests[id].alias = ep[x].requests[id].alias
         /\ ep[x].requests[id].state = "Done" => ep'[x].requests[id].state = "Done"
         /\ ep[x].requests[id].state \notin Undecided => ep'[x].requests[id].state \notin Undecided
         /\ verdict[id] # None => verdict'[id] = verdict[id]
<1> DEFINE s == ep[e]
<1>1. TypeOK /\ At(e, t) /\ Verdicts /\ s \in Endpoints
  BY DEF Inv, Stepped, TypeOK
<1>2. ep'[e] = t /\ ep'[Peer(e)] = ep[Peer(e)] /\ ep[Peer(e)] \in Endpoints
  BY <1>1, AtIs
<1>3. s.next_id <= t.next_id
  <2>1. s.next_id \in Nat
    BY <1>1 DEF Endpoints
  <2>2. t.next_id = s.next_id \/ t.next_id = s.next_id + 2
    BY ZenonT(30) DEF Stepped, Opening, Deciding, Reading, Ending, Shaking, Receipt, Quiet, Learned, ToldOver,
           Admitted, Changed, Alike
  <2> QED
    BY <2>1, <2>2
<1>4. ep[Peer(e)].next_id <= ep[Peer(e)].next_id
  BY <1>2 DEF Endpoints
<1>5. Kept(e, t, id) \/ Fresh(e, t, id) \/ \E event \in Events : Turned(e, t, id, event)
  BY RecordStep
<1>6. /\ s.requests[id].kind # "none" =>
           /\ t.requests[id].kind = s.requests[id].kind
           /\ t.requests[id].what = s.requests[id].what
           /\ s.requests[id].kind = "publish" =>
                t.requests[id].alias = s.requests[id].alias
      /\ s.requests[id].state = "Done" => t.requests[id].state = "Done"
      /\ s.requests[id].state \notin Undecided => t.requests[id].state \notin Undecided
  <2>1. CASE Kept(e, t, id)
    BY <2>1 DEF Kept
  <2>2. CASE Fresh(e, t, id)
    BY <2>2 DEF Fresh, NoRequest, Undecided
  <2>3. ASSUME NEW event \in Events, Turned(e, t, id, event)
        PROVE  /\ s.requests[id].kind # "none" =>
                    /\ t.requests[id].kind = s.requests[id].kind
                    /\ t.requests[id].what = s.requests[id].what
                    /\ s.requests[id].kind = "publish" =>
                         t.requests[id].alias = s.requests[id].alias
               /\ s.requests[id].state = "Done" => t.requests[id].state = "Done"
               /\ s.requests[id].state \notin Undecided => t.requests[id].state \notin Undecided
    BY <2>3, MoveFacts DEF Turned
  <2> QED
    BY <1>5, <2>1, <2>2, <2>3
<1>7. verdict[id] # None => verdict'[id] = verdict[id]
  <2>1. ASSUME NEW event \in Events, Turned(e, t, id, event), verdict[id] # None
        PROVE  verdict'[id] = verdict[id]
    <3>1. CASE event \in {"ok", "error"} /\ Owner(id) # e
      <4>1. Peer(Owner(id)) = e
        BY <3>1, RolesAre
      <4>2. s.requests[id].state \notin Undecided
        BY <1>1, <2>1, <4>1 DEF Verdicts
      <4> QED
        BY <2>1, <3>1, <4>2, MoveFacts DEF Turned
    <3> QED
      BY <2>1, <3>1 DEF Turned
  <2> QED
    BY <1>5, <2>1 DEF Kept, Fresh
<1> QED
  BY <1>2, <1>3, <1>4, <1>6, <1>7, RolesAre

(* Two Request IDs of one end are even apart.                              *)
LEMMA OwnerStep ==
  ASSUME NEW n \in Nat
  PROVE  Owner(n + 2) = Owner(n) /\ \A id \in Nat : Owner(id) = Owner(n) /\ id >= n + 2 => id > n
BY DEF Owner

(* The counters stay ahead of the records.                                 *)
LEMMA CountersKept ==
  ASSUME Inv, NEW e \in Roles, NEW t, Stepped(e, t)
  PROVE  Counters'
<1> DEFINE s == ep[e]
<1>1. TypeOK /\ At(e, t) /\ Counted(s) /\ Counted(ep[Peer(e)]) /\ s \in Endpoints
      /\ s.role = e /\ Peer(e) \in Roles
  BY RolesAre DEF Inv, Stepped, TypeOK, Counters
<1>2. ep'[e] = t /\ ep'[Peer(e)] = ep[Peer(e)] /\ t.role = e /\ t \in Endpoints
  BY <1>1, AtIs DEF At
<1>3. s.next_id \in Nat /\ s.peer_next_id \in Nat /\ Ids \subseteq Nat
  BY <1>1, EndpointAssumption DEF Endpoints
<1>4. /\ t.next_id = s.next_id \/ t.next_id = s.next_id + 2
      /\ t.peer_next_id = s.peer_next_id \/ t.peer_next_id = s.peer_next_id + 2
  BY ZenonT(30) DEF Stepped, Opening, Deciding, Reading, Ending, Shaking, Receipt, Quiet, Learned, ToldOver,
         Admitted, Changed, Alike
<1>5. Owner(t.next_id) = e /\ Owner(t.peer_next_id) # e
  BY <1>1, <1>3, <1>4, OwnerStep DEF Counted
<1>6. ASSUME NEW id \in Ids
      PROVE  /\ t.requests[id].kind = "none" => t.requests[id] = NoRequest
             /\ t.requests[id].kind # "none" => t.requests[id].state # "Idle"
  <2>1. CASE Kept(e, t, id)
    BY <1>1, <2>1 DEF Kept, Counted
  <2>2. CASE Fresh(e, t, id)
    BY <2>2 DEF Fresh, Opened, Kinds
  <2>3. ASSUME NEW event \in Events, Turned(e, t, id, event)
        PROVE  t.requests[id].kind # "none" /\ t.requests[id].state # "Idle"
    <3>1. t.requests[id].kind \in Kinds /\ t.requests[id].state # "Idle"
      BY <2>3, MoveFacts DEF Turned
    <3> QED
      BY <3>1 DEF Kinds
  <2> QED
    BY <2>1, <2>2, <2>3, RecordStep
<1>7. ASSUME NEW id \in Ids, s.requests[id] = NoRequest, t.requests[id] # s.requests[id]
      PROVE  /\ Owner(id) = e => id < t.next_id
             /\ Owner(id) # e => id < t.peer_next_id
  <2>1. ASSUME NEW event, <<s.requests[id].state, event, t.requests[id].state>>
                             \in Moves(s.requests[id].kind)
        PROVE  FALSE
    BY <1>7, <2>1, MovingIs
  <2>2. ASSUME NEW m, NEW event, NEW alias, m \in Ids, Changed(s, t, m, event, alias)
        PROVE  FALSE
    BY <1>7, <2>1, <2>2 DEF Changed
  <2>3. ASSUME NEW m, Opening(e, t, m)
        PROVE  Owner(id) = e /\ id < t.next_id
    <3>1. id = m.id /\ id = s.next_id /\ t.next_id = s.next_id + 2
      BY <1>7, <2>3 DEF Opening, NextId
    <3> QED
      BY <1>1, <1>3, <3>1 DEF Counted
  <2>4. ASSUME NEW m, Admitted(s, t, m)
        PROVE  Owner(id) # e /\ id < t.peer_next_id
    <3>1. id = m.id /\ id = s.peer_next_id /\ t.peer_next_id = s.peer_next_id + 2
      BY <1>7, <2>4 DEF Admitted
    <3> QED
      BY <1>1, <1>3, <3>1 DEF Counted
  <2>5. ~Ending(e, t)
    BY <1>7, <2>1 DEF Ending, Ended
  <2>6. ~Quiet(s, t)
    BY <1>7 DEF Quiet
  <2>7. ~(\E m : Learned(s, t, m) \/ ToldOver(s, t, m) \/ Deciding(e, t, m))
    BY <2>2 DEF Learned, ToldOver, Deciding
  <2>8. \E m : Opening(e, t, m) \/ Admitted(s, t, m)
    BY <2>5, <2>6, <2>7 DEF Stepped, Reading, Shaking, Receipt
  <2> QED
    BY <2>3, <2>4, <2>8
<1>8. ASSUME NEW id \in Ids
      PROVE  /\ Owner(id) = e /\ id >= t.next_id => t.requests[id] = NoRequest
             /\ Owner(id) # e /\ id >= t.peer_next_id => t.requests[id] = NoRequest
  <2>1. id \in Nat /\ t.next_id \in Nat /\ t.peer_next_id \in Nat
    BY <1>2, <1>3 DEF Endpoints
  <2>2. /\ Owner(id) = e /\ id >= t.next_id => s.requests[id] = NoRequest
        /\ Owner(id) # e /\ id >= t.peer_next_id => s.requests[id] = NoRequest
    BY <1>1, <1>3, <1>4, <2>1 DEF Counted
  <2> QED
    BY <1>7, <2>1, <2>2
<1>9. Counted(t)
  BY <1>2, <1>5, <1>6, <1>8 DEF Counted
<1>10. \A x \in Roles : Counted(ep'[x])
  BY <1>1, <1>2, <1>9, RolesAre
<1> QED
  BY <1>10 DEF Counters

(* What a message says stays so for as long as it is on its way.           *)
LEMMA MeantKept ==
  ASSUME Inv, NEW e \in Roles, NEW t, Stepped(e, t), NEW x \in Roles, NEW m \in Messages,
         WellFormed(m), Meant(x, m)
  PROVE  Meant(x, m)'
<1>1. Peer(x) \in Roles /\ None \notin {"ok", "error"} /\ Ids \subseteq Nat
  BY RolesAre, SessionAssumption, EndpointAssumption
<1>2. CASE m.type \in RequestTypes
  <2>1. /\ m.id \in Ids /\ Owner(m.id) = Peer(x) /\ m.id < ep[Peer(x)].next_id
        /\ m.type # "SUBSCRIBE_UPDATE" => ep[Peer(x)].requests[m.id].kind = KindOf(m.type)
    BY <1>2 DEF WellFormed, Meant
  <2>2. /\ ep[Peer(x)].next_id <= ep'[Peer(x)].next_id
        /\ ep[Peer(x)].requests[m.id].kind # "none" =>
             ep'[Peer(x)].requests[m.id].kind = ep[Peer(x)].requests[m.id].kind
    BY <1>1, <2>1, Lasting
  <2>3. m.type # "SUBSCRIBE_UPDATE" => KindOf(m.type) # "none"
    BY <1>2, TypesApart DEF Kinds
  <2>4. m.id < ep'[Peer(x)].next_id
    <3>1. TypeOK /\ TypeOK'
      BY TypeKept DEF Inv
    <3>2. m.id \in Nat /\ ep[Peer(x)].next_id \in Nat /\ ep'[Peer(x)].next_id \in Nat
      BY <1>1, <2>1, <3>1 DEF TypeOK, Endpoints
    <3> QED
      BY <2>1, <2>2, <3>2
  <2> QED
    BY <1>2, <2>1, <2>2, <2>3, <2>4, TypesApart DEF Meant
<1>3. CASE m.type \in OkTypes \union ErrorTypes
  <2>1. m.id \in Ids /\ verdict[m.id] # None
    BY <1>1, <1>3 DEF WellFormed, Meant
  <2>2. verdict'[m.id] = verdict[m.id]
    BY <2>1, Lasting
  <2> QED
    BY <1>3, <2>2, TypesApart DEF Meant
<1>4. CASE m.type = "FETCH_CANCEL"
  <2>1. m.id \in Ids /\ ep[Peer(x)].requests[m.id].state = "Done"
    BY <1>4 DEF WellFormed, Meant, EndTypes
  <2>2. ep'[Peer(x)].requests[m.id].state = "Done"
    BY <1>1, <2>1, Lasting
  <2> QED
    BY <1>4, <2>2, TypesApart DEF Meant
<1>5. CASE m.type \notin RequestTypes \union OkTypes \union ErrorTypes \union {"FETCH_CANCEL"}
  BY <1>5 DEF Meant
<1> QED
  BY <1>2, <1>3, <1>4, <1>5

(* A message says what is so when it is sent.                              *)
LEMMA MeaningKept ==
  ASSUME Inv, NEW e \in Roles, NEW t, Stepped(e, t)
  PROVE  Meaning'
<1> SUFFICES ASSUME NEW x \in Roles, NEW m \in OnWire(x)'
             PROVE  WellFormed(m) /\ Meant(x, m)'
  BY DEF Meaning, WellFormed
<1>1. TypeOK /\ Meaning /\ At(e, t) /\ Counted(ep[e])
  BY DEF Inv, Stepped, Counters
<1>2. ep'[e] = t /\ ep'[Peer(e)] = ep[Peer(e)]  /\ ep[e].role = e /\ ep[e] \in Endpoints
  BY <1>1, AtIs
<1>3. CASE m \in OnWire(x)
  <2>1. m \in Messages /\ WellFormed(m) /\ Meant(x, m)
    BY <1>1, <1>3 DEF Meaning, OnWire, TypeOK
  <2> QED
    BY <2>1, MeantKept
<1>4. CASE m \notin OnWire(x)
  <2>1. ASSUME NEW ms, Posts(e, ms)
        PROVE  x = Peer(e) /\ WellFormed(m) /\ m.type \notin SetupTypes /\ \E n \in DOMAIN ms : m = ms[n]
    <3>1. /\ OnWire(e)' = OnWire(e)
          /\ \A k \in OnWire(Peer(e))' : k \in OnWire(Peer(e)) \/ \E n \in DOMAIN ms : k = ms[n]
      BY <1>1, <2>1, PostsIs
    <3>2. x = Peer(e)
      BY <1>4, <3>1, RolesAre
    <3> QED
      BY <1>4, <2>1, <3>1, <3>2 DEF Posts
  <2>2. wire' # wire
    BY <1>4 DEF OnWire
  <2>3. e = Peer(Peer(e)) /\ Peer(e) # e /\ \A id : Owner(id) # e => Owner(id) = Peer(e)
    BY RolesAre
  <2>4. ASSUME NEW k, Opening(e, t, k)
        PROVE  WellFormed(m) /\ Meant(x, m)'
    <3>1. x = Peer(e) /\ WellFormed(m) /\ \E n \in DOMAIN <<k>> : m = <<k>>[n]
      BY <2>1, <2>2, <2>4 DEF Opening
    <3>2. m = k
      BY <3>1
    <3>3. /\ m.type \in RequestTypes /\ m.id = ep[e].next_id /\ t.next_id = ep[e].next_id + 2
          /\ m.type # "SUBSCRIBE_UPDATE" => t.requests[m.id].kind = KindOf(m.type)
      BY <2>4, <3>2 DEF Opening, NextId
    <3>4. Owner(m.id) = e /\ m.id < t.next_id
      BY <1>1, <1>2, <3>3 DEF Counted, Endpoints
    <3> QED
      BY <1>2, <2>3, <3>1, <3>3, <3>4, TypesApart DEF Meant
  <2>5. ASSUME NEW k, Deciding(e, t, k)
        PROVE  WellFormed(m) /\ Meant(x, m)'
    <3>1. x = Peer(e) /\ WellFormed(m) /\ \E n \in DOMAIN <<k>> : m = <<k>>[n]
      BY <2>1, <2>2, <2>5 DEF Deciding
    <3>2. m = k
      BY <3>1
    <3>3. /\ m.type \in OkTypes \union ErrorTypes /\ m.id \in Ids /\ Owner(m.id) # e
          /\ verdict' = [verdict EXCEPT ![m.id] = IF m.type \in OkTypes THEN "ok" ELSE "error"]
      BY <1>2, <2>5, <3>2 DEF Deciding, IsPeers
    <3>4. verdict'[m.id] = IF m.type \in OkTypes THEN "ok" ELSE "error"
      BY <1>1, <3>3 DEF TypeOK
    <3> QED
      BY <2>3, <3>1, <3>3, <3>4, TypesApart DEF Meant
  <2>6. CASE Ending(e, t)
    <3>1. PICK ms \in Seq(Messages) :
            /\ Posts(e, ms)
            /\ \A n \in DOMAIN ms :
                 /\ ms[n].type \in EndTypes \union CountTypes \union AboutTypes
                 /\ ms[n].type = "FETCH_CANCEL" =>
                      Owner(ms[n].id) = e /\ t.requests[ms[n].id].state = "Done"
      BY <2>2, <2>6 DEF Ending
    <3>2. x = Peer(e) /\ WellFormed(m) /\ \E n \in DOMAIN ms : m = ms[n]
      BY <2>1, <3>1
    <3>3. /\ m.type \in EndTypes \union CountTypes \union AboutTypes
          /\ m.type = "FETCH_CANCEL" => Owner(m.id) = e /\ t.requests[m.id].state = "Done"
      BY <3>1, <3>2
    <3> QED
      BY <1>2, <2>3, <3>2, <3>3, TypesApart DEF Meant
  <2>7. ASSUME NEW k, Reading(e, t, k)
        PROVE  FALSE
    <3>1. OnWire(e)' \subseteq OnWire(e) /\ OnWire(Peer(e))' = OnWire(Peer(e))
      BY <1>1, <2>7, ReadsIs DEF Reading
    <3> QED
      BY <1>4, <3>1, RolesAre
  <2>8. CASE Shaking(e, t)
    <3>1. WellFormed(m) /\ m.type \in SetupTypes
      BY <1>4, <2>8 DEF Shaking
    <3> QED
      BY <3>1, TypesApart DEF Meant
  <2> QED
    BY <2>4, <2>5, <2>6, <2>7, <2>8 DEF Stepped
<1> QED
  BY <1>3, <1>4

(* A verdict is given once. *)
LEMMA VerdictsKept ==
  ASSUME Inv, NEW e \in Roles, NEW t, Stepped(e, t)
  PROVE  Verdicts'
<1> SUFFICES ASSUME NEW id \in Ids, verdict'[id] # None
             PROVE  ep'[Peer(Owner(id))].requests[id].state \notin Undecided
  BY DEF Verdicts
<1>1. Peer(Owner(id)) \in Roles
  BY RolesAre
<1>2. CASE verdict[id] # None
  <2>1. ep[Peer(Owner(id))].requests[id].state \notin Undecided
    BY <1>2 DEF Inv, Verdicts
  <2> QED
    BY <1>1, <2>1, Lasting
<1>3. CASE verdict[id] = None
  <2>1. PICK event \in Events : Turned(e, t, id, event)
    BY <1>3, RecordStep DEF Kept, Fresh
  <2>2. event \in {"ok", "error"} /\ Owner(id) # e
    BY <1>3, <2>1 DEF Turned
  <2>3. Peer(Owner(id)) = e /\ ep'[e] = t
    BY <2>2, RolesAre, AtIs DEF Inv, Stepped
  <2>4. t.requests[id].state \notin Undecided
    BY <2>1, <2>2, MoveFacts DEF Turned
  <2> QED
    BY <2>3, <2>4
<1> QED
  BY <1>2, <1>3

(* It holds of two new endpoints. *)
LEMMA InitInv ==
  ASSUME Init
  PROVE  Inv
<1>1. Ids \subseteq Nat
  BY EndpointAssumption
<1> DEFINE reqs == [id \in Ids |-> NoRequest]
<1>2. reqs \in [Ids -> Requests] /\ \A id \in Ids : reqs[id] = NoRequest
  BY DEF Requests, NoRequest, States
<1>3. ASSUME NEW e \in Roles
      PROVE  /\ ep[e] \in Endpoints /\ ep[e].role = e /\ ep[e].session = "Connecting"
             /\ ep[e].requests = reqs
             /\ ep[e].next_id = (IF e = "client" THEN 0 ELSE 1)
             /\ ep[e].peer_next_id = (IF e = "client" THEN 1 ELSE 0)
  <2>1. ep[e] = new(e)
    BY DEF Init
  <2> HIDE DEF reqs
  <2>2. new(e) = [role |-> e, session |-> "Connecting", next_id |-> IF e = "client" THEN 0 ELSE 1,
                  max_id |-> 0, peer_next_id |-> IF e = "client" THEN 1 ELSE 0,
                  advertised_max_id |-> 0, requests |-> reqs, closed_for |-> None]
    BY DEF new, reqs
  <2> QED
    BY <1>2, <2>1, <2>2 DEF Endpoints, SessionStates
<1> HIDE DEF reqs
<1>4. \A e \in Roles : wire[e] = <<>> /\ OnWire(e) = {}
  BY DEF Init, OnWire
<1>5. TypeOK
  <2>1. wire \in [Roles -> Seq(Messages)]
    <3>1. <<>> \in Seq(Messages)
      OBVIOUS
    <3> QED
      BY <3>1 DEF Init
  <2>2. ep \in [Roles -> Endpoints]
    BY <1>3 DEF Init
  <2>3. dropped \in 0..load.drops
    BY SessionAssumption DEF Init, WorkloadType
  <2> QED
    BY <1>3, <2>1, <2>2, <2>3 DEF TypeOK, Init
<1>6. Setup
  BY <1>2, <1>3, <1>4 DEF Setup, Early, Roles
<1>7. Counters
  <2> SUFFICES ASSUME NEW e \in Roles
               PROVE  Counted(ep[e])
    BY DEF Counters
  <2>1. Owner(ep[e].next_id) = e /\ Owner(ep[e].peer_next_id) # e
    BY <1>3 DEF Owner, Roles
  <2>2. \A id \in Ids : ep[e].requests[id] = NoRequest /\ ep[e].requests[id].kind = "none"
    <3>1. NoRequest.kind = "none"
      BY DEF NoRequest
    <3>2. ep[e].requests = reqs
      BY <1>3
    <3> QED
      BY <1>2, <3>1, <3>2
  <2> QED
    BY <1>3, <2>1, <2>2 DEF Counted
<1>8. Meaning /\ Verdicts
  BY <1>4 DEF Meaning, Verdicts, Init
<1> QED
  BY <1>5, <1>6, <1>7, <1>8 DEF Inv

(* A step keeps it. *)
LEMMA NextInv ==
  ASSUME Inv, [Next]_vars
  PROVE  Inv'
<1>1. CASE Next
  <2>1. PICK e \in Roles, t \in Endpoints : Stepped(e, t)
    BY <1>1, NextStep DEF Inv
  <2> QED
    BY <2>1, TypeKept, SetupKept, CountersKept, MeaningKept, VerdictsKept DEF Inv
<1>2. CASE UNCHANGED vars
  BY <1>2 DEF Inv, vars, TypeOK, Setup, Counters, Meaning, Verdicts, Meant, OnWire, Early
<1> QED
  BY <1>1, <1>2

(* Every behaviour of a session keeps the types, the order of the          *)
(* handshake, and the agreement of the two records with what is on the     *)
(* wire.                                                                   *)
THEOREM SessionInvariant == Spec => []Inv
<1>1. Init => Inv
  BY InitInv
<1>2. Inv /\ [Next]_vars => Inv'
  BY NextInv
<1> QED
  BY <1>1, <1>2, PTL DEF Spec

(* Both endpoints, with whatever the applications call and whatever is on  *)
(* the wire, stay in the ranges the code gives their fields.               *)
THEOREM TypeCorrect == Spec => []TypeOK
<1>1. Inv => TypeOK
  BY DEF Inv
<1> QED
  BY <1>1, SessionInvariant, PTL

-----------------------------------------------------------------------------
(* The refinement *)

(* The phase of a record in each group of states.                          *)
LEMMA PhaseIs ==
  ASSUME NEW state \in States
  PROVE  /\ state = "Idle" <=> Phase(state) = "none"
         /\ state = "Done" <=> Phase(state) = "over"
         /\ state \in Undecided \ {"Idle"} <=> Phase(state) = "pending"
         /\ state \notin Undecided => Phase(state) \in {"active", "over"}
         /\ Phase(state) \in {"none", "pending", "active", "over"}
BY DEF Phase, States, Undecided

(* Where a machine goes, seen from outside.                                *)
LEMMA PhaseMoves ==
  ASSUME NEW kind, NEW state, NEW event \in Events, NEW to, <<state, event, to>> \in Moves(kind)
  PROVE  /\ event = "ok" => Phase(state) = "pending" /\ Phase(to) \in {"active", "over"}
         /\ event = "error" => Phase(state) = "pending" /\ Phase(to) = "over"
         /\ event \notin {"ok", "error"} =>
              \/ Phase(to) = Phase(state)
              \/ Phase(state) \in {"pending", "active"} /\ Phase(to) = "over"
         /\ event \notin {"ok", "error"} /\ (event # "cancel" \/ kind # "fetch")
              /\ Phase(to) # Phase(state) => Phase(state) = "active"
<1>1. state \in States /\ to \in States
  BY MoveFacts
<1>2. CASE event = "ok"
  <2>1. state \in Undecided \ {"Idle"} /\ to \notin Undecided
    BY <1>2, MoveFacts
  <2> QED
    BY <1>1, <1>2, <2>1, PhaseIs
<1>3. CASE event = "error"
  <2>1. state \in Undecided \ {"Idle"} /\ to = "Done"
    BY <1>3, MoveFacts
  <2> QED
    BY <1>1, <1>3, <2>1, PhaseIs
<1>4. CASE event \in {"unsubscribe", "done"}
  <2>1. state \notin Undecided /\ to = "Done"
    BY <1>4, MoveFacts
  <2> QED
    BY <1>1, <1>4, <2>1, PhaseIs
<1>5. CASE event = "cancel"
  <2>1. state # "Idle" /\ to = "Done" /\ (kind = "fetch" \/ state \notin Undecided)
    BY <1>5, MoveFacts
  <2>2. Phase(state) \in {"pending", "active", "over"} /\ Phase(to) = "over"
        /\ (kind = "fetch" \/ Phase(state) \in {"active", "over"})
    BY <1>1, <2>1, PhaseIs
  <2> QED
    BY <1>5, <2>2
<1>6. CASE event = "end"
  <2>1. \/ to = "Done" /\ state \notin Undecided
        \/ to = "Unanswered" /\ state = "Pending"
    BY <1>6, MoveFacts
  <2>2. \/ Phase(to) = "over" /\ Phase(state) \in {"active", "over"}
        \/ Phase(to) = "pending" /\ Phase(state) = "pending"
    BY <1>1, <2>1, PhaseIs DEF Undecided
  <2> QED
    BY <1>6, <2>2
<1> QED
  BY <1>2, <1>3, <1>4, <1>5, <1>6 DEF Events

(* Every step is a step of RequestLife, for every request.                 *)
LEMMA LifeStep ==
  ASSUME Inv, NEW e \in Roles, NEW t, Stepped(e, t)
  PROVE  Life!Next
<1> SUFFICES ASSUME NEW id \in Ids
             PROVE  \/ Life!Stays(id) \/ Life!Ask(id) \/ Life!Arrive(id) \/ Life!Decide(id)
                    \/ Life!Learn(id) \/ Life!AskerEnds(id) \/ Life!AnswererEnds(id)
  BY DEF Life!Next
<1> DEFINE s == ep[e].requests[id]
           u == t.requests[id]
           p == ep[Peer(e)].requests[id]
<1>1. TypeOK /\ At(e, t) /\ Verdicts /\ Counted(ep[Peer(e)])
  BY RolesAre DEF Inv, Stepped, Counters
<1>2. ep'[e] = t /\ ep'[Peer(e)] = ep[Peer(e)] /\ t \in Endpoints
      /\ ep[e] \in Endpoints /\ ep[Peer(e)] \in Endpoints
  BY <1>1, AtIs DEF At
<1>3. s.state \in States /\ u.state \in States /\ p.state \in States
  BY <1>2 DEF Endpoints, Requests
<1>4. /\ AskerPhase[id] = Phase(ep[Owner(id)].requests[id].state)
      /\ AnswererPhase[id] = Phase(ep[Peer(Owner(id))].requests[id].state)
      /\ AskerPhase'[id] = Phase(ep'[Owner(id)].requests[id].state)
      /\ AnswererPhase'[id] = Phase(ep'[Peer(Owner(id))].requests[id].state)
  BY DEF AskerPhase, AnswererPhase
<1>5. Kept(e, t, id) \/ Fresh(e, t, id) \/ \E event \in Events : Turned(e, t, id, event)
  BY RecordStep
<1>6. CASE Owner(id) = e
  <2>1. /\ AskerPhase[id] = Phase(s.state) /\ AskerPhase'[id] = Phase(u.state)
        /\ AnswererPhase'[id] = AnswererPhase[id]
    BY <1>2, <1>4, <1>6
  <2>2. CASE Kept(e, t, id)
    <3>1. Life!Stays(id)
      BY <2>1, <2>2 DEF Kept, Life!Stays, Life!SameAsker, Life!SameAnswerer, Life!SameVerdict
    <3> QED
      BY <3>1
  <2>3. CASE Fresh(e, t, id)
    <3>1. s.state = "Idle" /\ u.state \in Undecided \ {"Idle"}
      BY <2>3 DEF Fresh, NoRequest, Opened, Undecided
    <3>2. Phase(s.state) = "none" /\ Phase(u.state) = "pending"
      BY <1>3, <3>1, PhaseIs
    <3>3. Life!Ask(id)
      BY <2>1, <2>3, <3>2 DEF Fresh, Life!Ask, Life!SameAnswerer, Life!SameVerdict
    <3> QED
      BY <3>3
  <2>4. ASSUME NEW event \in Events, Turned(e, t, id, event)
        PROVE  Life!Stays(id) \/ Life!Learn(id) \/ Life!AskerEnds(id)
    <3>1. /\ <<s.state, event, u.state>> \in Moves(s.kind) /\ verdict'[id] = verdict[id]
          /\ event \in {"ok", "error"} => verdict[id] = event
      BY <1>6, <2>4 DEF Turned
    <3>2. CASE event \in {"ok", "error"}
      <4>1. verdict[id] = event /\ event # None
        BY <3>1, <3>2, SessionAssumption
      <4>2. /\ Phase(s.state) = "pending"
            /\ event = "ok" => Phase(u.state) \in {"active", "over"}
            /\ event = "error" => Phase(u.state) = "over"
        <5>1. <<s.state, event, u.state>> \in Moves(s.kind)
          BY <3>1
        <5> HIDE DEF s, u
        <5>2. CASE event = "ok"
          BY <5>1, <5>2, PhaseMoves
        <5>3. CASE event = "error"
          BY <5>1, <5>3, PhaseMoves
        <5> QED
          BY <3>2, <5>2, <5>3
      <4>3. Life!Learn(id)
        BY <2>1, <3>1, <3>2, <4>1, <4>2 DEF Life!Learn, Life!SameAnswerer, Life!SameVerdict
      <4> QED
        BY <4>3
    <3>3. CASE event \notin {"ok", "error"}
      <4>1. \/ Phase(u.state) = Phase(s.state)
            \/ Phase(s.state) \in {"pending", "active"} /\ Phase(u.state) = "over"
        BY <3>1, <3>3, PhaseMoves
      <4> QED
        BY <2>1, <3>1, <4>1 DEF Life!AskerEnds, Life!Stays, Life!SameAsker, Life!SameAnswerer,
                                Life!SameVerdict
    <3> QED
      BY <3>2, <3>3
  <2> QED
    BY <1>5, <2>2, <2>3, <2>4
<1>7. CASE Owner(id) = Peer(e)
  <2>1. /\ AnswererPhase[id] = Phase(s.state) /\ AnswererPhase'[id] = Phase(u.state)
        /\ AskerPhase[id] = Phase(p.state) /\ AskerPhase'[id] = AskerPhase[id]
        /\ Peer(Owner(id)) = e /\ Owner(id) # e
    BY <1>2, <1>4, <1>7, RolesAre
  <2>2. CASE Kept(e, t, id)
    <3>1. Life!Stays(id)
      BY <2>1, <2>2 DEF Kept, Life!Stays, Life!SameAsker, Life!SameAnswerer, Life!SameVerdict
    <3> QED
      BY <3>1
  <2>3. CASE Fresh(e, t, id)
    <3>1. s.state = "Idle" /\ u.state \in Undecided \ {"Idle"}
      BY <2>3 DEF Fresh, NoRequest, Opened, Undecided
    <3>2. p.state # "Idle"
      BY <1>1, <2>1, <2>3 DEF Fresh, Counted
    <3>3. Phase(s.state) = "none" /\ Phase(u.state) = "pending" /\ Phase(p.state) # "none"
      BY <1>3, <3>1, <3>2, PhaseIs
    <3>4. Life!Arrive(id)
      BY <2>1, <2>3, <3>3 DEF Fresh, Life!Arrive, Life!SameAsker, Life!SameVerdict
    <3> QED
      BY <3>4
  <2>4. ASSUME NEW event \in Events, Turned(e, t, id, event)
        PROVE  Life!Stays(id) \/ Life!Decide(id) \/ Life!AnswererEnds(id)
    <3>1. <<s.state, event, u.state>> \in Moves(s.kind)
      BY <2>4 DEF Turned
    <3>2. CASE event \in {"ok", "error"}
      <4>1. s.state \in Undecided
        BY <3>1, <3>2, MoveFacts
      <4>2. verdict[id] = None
        BY <1>1, <2>1, <4>1 DEF Verdicts
      <4>3. /\ Phase(s.state) = "pending" /\ verdict'[id] = event
            /\ \/ event = "ok" /\ Phase(u.state) \in {"active", "over"}
               \/ event = "error" /\ Phase(u.state) = "over"
        BY <2>1, <2>4, <3>1, <3>2, PhaseMoves DEF Turned
      <4>4. Life!Decide(id)
        BY <2>1, <4>2, <4>3 DEF Life!Decide, Life!SameAsker
      <4> QED
        BY <4>4
    <3>3. CASE event \notin {"ok", "error"}
      <4>1. verdict'[id] = verdict[id]
        BY <2>4, <3>3 DEF Turned
      <4>2. CASE Phase(u.state) = Phase(s.state)
        BY <2>1, <4>1, <4>2 DEF Life!Stays, Life!SameAsker, Life!SameAnswerer, Life!SameVerdict
      <4>3. CASE Phase(u.state) # Phase(s.state)
        <5>1. Phase(s.state) \in {"pending", "active"} /\ Phase(u.state) = "over"
          BY <3>1, <3>3, <4>3, PhaseMoves
        <5>2. CASE event = "cancel" /\ s.kind = "fetch"
          <6>1. p.state = "Done"
            BY <2>1, <2>4, <5>2 DEF Turned
          <6>2. Phase(p.state) = "over"
            BY <1>3, <6>1, PhaseIs
          <6> QED
            BY <2>1, <4>1, <5>1, <6>2 DEF Life!AnswererEnds, Life!SameAsker, Life!SameVerdict
        <5>3. CASE ~(event = "cancel" /\ s.kind = "fetch")
          <6>1. Phase(s.state) = "active"
            BY <3>1, <3>3, <4>3, <5>3, PhaseMoves
          <6> QED
            BY <2>1, <4>1, <5>1, <6>1 DEF Life!AnswererEnds, Life!SameAsker, Life!SameVerdict
        <5> QED
          BY <5>2, <5>3
      <4> QED
        BY <4>2, <4>3
    <3> QED
      BY <3>2, <3>3
  <2> QED
    BY <1>5, <2>2, <2>3, <2>4
<1> QED
  BY <1>6, <1>7, RolesAre

(* A session implements RequestLife: the record an end keeps of a request  *)
(* moves only as the abstract request does, for every order of calls,      *)
(* messages, stream ends and dropped sends.                                *)
THEOREM SessionImplementsRequestLife == Spec => ImplementsRequestLife
<1>1. Init => Life!Init
  <2> SUFFICES ASSUME Init
               PROVE  Life!Init
    OBVIOUS
  <2>1. \A e \in Roles : \A id \in Ids : ep[e].requests[id].state = "Idle"
    BY DEF Init, new, NoRequest
  <2>2. \A id \in Ids : Owner(id) \in Roles /\ Peer(Owner(id)) \in Roles
    BY RolesAre
  <2>3. Phase("Idle") = "none"
    BY PhaseIs DEF States
  <2>4. AskerPhase = [id \in Ids |-> "none"] /\ AnswererPhase = [id \in Ids |-> "none"]
    BY <2>1, <2>2, <2>3 DEF AskerPhase, AnswererPhase
  <2> QED
    BY <2>4 DEF Init, Life!Init
<1>2. Inv /\ [Next]_vars => [Life!Next]_(Life!vars)
  <2> SUFFICES ASSUME Inv, [Next]_vars
               PROVE  [Life!Next]_(Life!vars)
    OBVIOUS
  <2>1. CASE Next
    <3>1. PICK e \in Roles, t \in Endpoints : Stepped(e, t)
      BY <2>1, NextStep DEF Inv
    <3> QED
      BY <3>1, LifeStep
  <2>2. CASE UNCHANGED vars
    BY <2>2 DEF vars, Life!vars, AskerPhase, AnswererPhase
  <2> QED
    BY <2>1, <2>2
<1> QED
  BY <1>1, <1>2, SessionInvariant, PTL DEF Spec, ImplementsRequestLife, Life!Spec

-----------------------------------------------------------------------------
(* Track aliases *)

(* The bindings an endpoint answers for, and those it receives by: an      *)
(* offer has its alias before it is accepted, a subscription once it is.   *)
Held(s, id) ==
  \/ IsOwn(s, id, "publish") /\ s.requests[id].state # "Done"
  \/ IsPeers(s, id, "subscribe") /\ s.requests[id].state = "Active"

Live(s, id) ==
  \/ IsOwn(s, id, "subscribe") /\ s.requests[id].state = "Active"
  \/ IsPeers(s, id, "publish") /\ s.requests[id].state \in {"Publishing", "Active"}

Same(s, i, j) == s.requests[i].alias = s.requests[j].alias => s.requests[i].what = s.requests[j].what

GivesOneTrack(s) == \A i, j \in Ids : Held(s, i) /\ Held(s, j) => Same(s, i, j)
TakesOneTrack(s) == \A i, j \in Ids : Live(s, i) /\ Live(s, j) => Same(s, i, j)

(* The asker leaves the undecided states by an answer, except for a fetch. *)
Heard ==
  \A id \in Ids :
    LET r == ep[Owner(id)].requests[id]
    IN  r.kind # "fetch" /\ r.state \notin Undecided => verdict[id] # None

(* What was sent is what the sender recorded, and what the answerer has.   *)
Said ==
  \A e \in Roles : \A m \in OnWire(e) :
    /\ m.type \in {"SUBSCRIBE", "PUBLISH"} => ep[Peer(e)].requests[m.id].what = m.what
    /\ m.type = "PUBLISH" => ep[Peer(e)].requests[m.id].alias = m.alias

Agree ==
  \A id \in Ids :
    LET r == ep[Peer(Owner(id))].requests[id]
        o == ep[Owner(id)].requests[id]
    IN  r.kind # "none" =>
          /\ o.kind = r.kind
          /\ r.kind \in {"subscribe", "publish"} => o.what = r.what
          /\ r.kind = "publish" => o.alias = r.alias

(* An offer that reaches e before a SUBSCRIBE_OK does, and is not yet      *)
(* answered, has its alias for the same track.                             *)
Offered(e, alias, what) ==
  \A j \in Ids : /\ IsPeers(ep[e], j, "publish") /\ ep[e].requests[j].state = "Publishing"
                 /\ ep[e].requests[j].alias = alias
                 => ep[e].requests[j].what = what

Behind ==
  \A e \in Roles : \A n \in DOMAIN wire[e] :
    wire[e][n].type = "SUBSCRIBE_OK" =>
      LET what == ep[Peer(e)].requests[wire[e][n].id].what
      IN  /\ Offered(e, wire[e][n].alias, what)
          /\ \A k \in DOMAIN wire[e] :
               /\ k < n /\ wire[e][k].type = "PUBLISH" /\ wire[e][k].id >= ep[e].peer_next_id
               /\ wire[e][k].alias = wire[e][n].alias
               => wire[e][k].what = what

AliasInv == /\ Inv /\ Heard /\ Said /\ Agree /\ Behind
            /\ \A e \in Roles : GivesOneTrack(ep[e]) /\ TakesOneTrack(ep[e])

(* The asker of anything but a fetch waits for as long as the answerer has *)
(* not decided.                                                            *)
LEMMA StillWaiting ==
  ASSUME AliasInv, NEW id \in Ids, ep[Owner(id)].requests[id].kind # "fetch",
         ep[Peer(Owner(id))].requests[id].state \in Undecided
  PROVE  ep[Owner(id)].requests[id].state \in Undecided
BY DEF AliasInv, Inv, Heard, Verdicts

(* What the two ends are before and after a step at one of them.           *)
LEMMA EndsOf ==
  ASSUME Inv, NEW e \in Roles, NEW t, Stepped(e, t)
  PROVE  /\ ep'[e] = t /\ ep'[Peer(e)] = ep[Peer(e)] /\ t \in Endpoints /\ t.role = e
         /\ ep[e] \in Endpoints /\ ep[Peer(e)] \in Endpoints
         /\ ep[e].role = e /\ ep[Peer(e)].role = Peer(e)
         /\ Peer(e) \in Roles /\ Peer(Peer(e)) = e /\ Peer(e) # e
         /\ \A id : Owner(id) \in {e, Peer(e)}
<1>1. TypeOK /\ At(e, t)
  BY DEF Inv, Stepped
<1>2. t \in Endpoints /\ t.role = e
  BY <1>1 DEF At
<1> QED
  BY <1>1, <1>2, AtIs, RolesAre

(* The asker of anything but a fetch moves on only once it is answered.    *)
LEMMA HeardKept ==
  ASSUME AliasInv, NEW e \in Roles, NEW t, Stepped(e, t)
  PROVE  Heard'
<1> SUFFICES ASSUME NEW id \in Ids, ep'[Owner(id)].requests[id].kind # "fetch",
                    ep'[Owner(id)].requests[id].state \notin Undecided
             PROVE  verdict'[id] # None
  BY DEF Heard
<1>1. Inv /\ Heard /\ None \notin {"ok", "error"}
  BY SessionAssumption DEF AliasInv
<1>2. ep'[e] = t /\ ep'[Peer(e)] = ep[Peer(e)] /\ Owner(id) \in {e, Peer(e)}
  BY <1>1, EndsOf
<1>3. verdict[id] # None => verdict'[id] # None
  BY <1>1, Lasting
<1>4. CASE Owner(id) = Peer(e)
  BY <1>1, <1>2, <1>3, <1>4 DEF Heard
<1>5. CASE Owner(id) = e
  <2>1. CASE Kept(e, t, id)
    BY <1>1, <1>2, <1>3, <1>5, <2>1 DEF Heard, Kept
  <2>2. CASE Fresh(e, t, id)
    BY <1>2, <1>5, <2>2 DEF Fresh, Opened, Undecided
  <2>3. ASSUME NEW event \in Events, Turned(e, t, id, event)
        PROVE  verdict'[id] # None
    <3>1. CASE event \in {"ok", "error"}
      BY <1>1, <1>3, <1>5, <2>3, <3>1 DEF Turned
    <3>2. CASE event \notin {"ok", "error"}
      <4>1. ep[e].requests[id].kind # "fetch" /\ t.requests[id].state \notin Undecided
        BY <1>2, <1>5, <2>3 DEF Turned
      <4>2. ep[e].requests[id].state \notin Undecided
        BY <2>3, <3>2, <4>1, MoveFacts DEF Turned, Events
      <4> QED
        BY <1>1, <1>3, <1>5, <4>1, <4>2 DEF Heard
    <3> QED
      BY <3>1, <3>2
  <2> QED
    BY <1>1, <2>1, <2>2, <2>3, RecordStep
<1> QED
  BY <1>2, <1>4, <1>5

(* A message that was not on the wire is one that was sent.                *)
LEMMA SentIs ==
  ASSUME Inv, NEW e \in Roles, NEW t, Stepped(e, t), NEW x \in Roles, NEW m \in OnWire(x)',
         m \notin OnWire(x)
  PROVE  \/ x = Peer(e) /\ (Opening(e, t, m) \/ Deciding(e, t, m))
         \/ m.type \in EndTypes \union CountTypes \union AboutTypes \union SetupTypes
<1>1. TypeOK
  BY DEF Inv
<1>2. ASSUME NEW ms, Posts(e, ms)
      PROVE  x = Peer(e) /\ \E n \in DOMAIN ms : m = ms[n]
  <2>1. /\ OnWire(e)' = OnWire(e)
        /\ \A k \in OnWire(Peer(e))' : k \in OnWire(Peer(e)) \/ \E n \in DOMAIN ms : k = ms[n]
    BY <1>1, <1>2, PostsIs
  <2> QED
    BY <2>1, RolesAre
<1>3. ASSUME NEW k, Posts(e, <<k>>)
      PROVE  x = Peer(e) /\ m = k
  BY <1>2, <1>3
<1>4. wire' # wire
  BY DEF OnWire
<1>5. ASSUME NEW k, Opening(e, t, k) \/ Deciding(e, t, k)
      PROVE  x = Peer(e) /\ m = k
  BY <1>3, <1>4, <1>5 DEF Opening, Deciding
<1>6. CASE Ending(e, t)
  <2>1. PICK ms \in Seq(Messages) :
          Posts(e, ms) /\ \A n \in DOMAIN ms : ms[n].type \in EndTypes \union CountTypes \union AboutTypes
    BY <1>4, <1>6 DEF Ending
  <2> QED
    BY <1>2, <2>1
<1>7. ASSUME NEW k, Reading(e, t, k)
      PROVE  FALSE
  <2>1. OnWire(e)' \subseteq OnWire(e) /\ OnWire(Peer(e))' = OnWire(Peer(e))
    BY <1>1, <1>7, ReadsIs DEF Reading
  <2> QED
    BY <2>1, RolesAre
<1>8. CASE Shaking(e, t)
  BY <1>8 DEF Shaking
<1> QED
  BY <1>5, <1>6, <1>7, <1>8 DEF Stepped

(* What a request on the wire names is what its sender has on record.      *)
LEMMA SaidKept ==
  ASSUME AliasInv, NEW e \in Roles, NEW t, Stepped(e, t)
  PROVE  Said'
<1> SUFFICES ASSUME NEW x \in Roles, NEW m \in OnWire(x)', m.type \in {"SUBSCRIBE", "PUBLISH"}
             PROVE  /\ ep'[Peer(x)].requests[m.id].what = m.what
                    /\ m.type = "PUBLISH" => ep'[Peer(x)].requests[m.id].alias = m.alias
  BY DEF Said
<1>1. Inv /\ TypeOK /\ Said /\ Meaning
  BY DEF AliasInv, Inv
<1>2. m.type \in RequestTypes /\ m.type # "SUBSCRIBE_UPDATE"
  BY DEF RequestTypes
<1>3. CASE m \in OnWire(x)
  <2>1. m.id \in Ids /\ ep[Peer(x)].requests[m.id].kind = KindOf(m.type) /\ Peer(x) \in Roles
    BY <1>1, <1>2, <1>3, RolesAre DEF Meaning, WellFormed, Meant
  <2>2. /\ ep[Peer(x)].requests[m.id].kind # "none"
        /\ m.type = "PUBLISH" => ep[Peer(x)].requests[m.id].kind = "publish"
    BY <2>1 DEF KindOf
  <2>3. /\ ep'[Peer(x)].requests[m.id].what = ep[Peer(x)].requests[m.id].what
        /\ m.type = "PUBLISH" => ep'[Peer(x)].requests[m.id].alias = ep[Peer(x)].requests[m.id].alias
    BY <1>1, <2>1, <2>2, Lasting
  <2> QED
    BY <1>1, <1>3, <2>3 DEF Said
<1>4. CASE m \notin OnWire(x)
  <2>1. x = Peer(e) /\ Opening(e, t, m)
    BY <1>1, <1>2, <1>4, SentIs, TypesApart DEF Deciding
  <2>2. ep'[e] = t /\ Peer(x) = e
    BY <1>1, <2>1, EndsOf
  <2> QED
    BY <2>1, <2>2 DEF Opening
<1> QED
  BY <1>3, <1>4

(* The answerer has the request it was sent.                               *)
LEMMA AgreeKept ==
  ASSUME AliasInv, NEW e \in Roles, NEW t, Stepped(e, t)
  PROVE  Agree'
<1> SUFFICES ASSUME NEW id \in Ids, ep'[Peer(Owner(id))].requests[id].kind # "none"
             PROVE  LET r == ep'[Peer(Owner(id))].requests[id]
                        o == ep'[Owner(id)].requests[id]
                    IN  /\ o.kind = r.kind
                        /\ r.kind \in {"subscribe", "publish"} => o.what = r.what
                        /\ r.kind = "publish" => o.alias = r.alias
  BY DEF Agree
<1>1. Inv /\ TypeOK /\ Said /\ Meaning /\ Agree
  BY DEF AliasInv, Inv
<1>2. ep'[e] = t /\ ep'[Peer(e)] = ep[Peer(e)] /\ Owner(id) \in {e, Peer(e)} /\ Peer(Peer(e)) = e
      /\ Peer(e) \in Roles /\ Peer(e) # e
  BY <1>1, EndsOf
<1>3. CASE Owner(id) = e
  <2>1. ep[Peer(e)].requests[id].kind # "none"
    BY <1>2, <1>3
  <2>2. /\ ep[e].requests[id].kind = ep[Peer(e)].requests[id].kind
        /\ ep[Peer(e)].requests[id].kind \in {"subscribe", "publish"} =>
             ep[e].requests[id].what = ep[Peer(e)].requests[id].what
        /\ ep[Peer(e)].requests[id].kind = "publish" =>
             ep[e].requests[id].alias = ep[Peer(e)].requests[id].alias
    BY <1>1, <1>3, <2>1 DEF Agree
  <2>3. /\ t.requests[id].kind = ep[e].requests[id].kind
        /\ t.requests[id].what = ep[e].requests[id].what
        /\ ep[e].requests[id].kind = "publish" => t.requests[id].alias = ep[e].requests[id].alias
    BY <1>1, <1>2, <2>1, <2>2, Lasting
  <2> QED
    BY <1>2, <1>3, <2>2, <2>3
<1>4. CASE Owner(id) = Peer(e)
  <2> DEFINE s == ep[e].requests[id]
             u == t.requests[id]
             o == ep[Peer(e)].requests[id]
  <2>1. /\ s.kind # "none" =>
             /\ o.kind = s.kind
             /\ s.kind \in {"subscribe", "publish"} => o.what = s.what
             /\ s.kind = "publish" => o.alias = s.alias
    BY <1>1, <1>2, <1>4 DEF Agree
  <2>2. s.kind # "none" =>
          u.kind = s.kind /\ u.what = s.what /\ (s.kind = "publish" => u.alias = s.alias)
    BY <1>1, <1>2, Lasting
  <2>3. CASE s.kind = "none"
    <3>1. Fresh(e, t, id)
      <4>1. ASSUME NEW event \in Events, Turned(e, t, id, event)
            PROVE  FALSE
        <5>1. s.kind \in Kinds
          BY <4>1, MoveFacts DEF Turned
        <5> QED
          BY <2>3, <5>1 DEF Kinds
      <4>2. ~Kept(e, t, id)
        BY <1>2, <1>4, <2>3 DEF Kept
      <4> QED
        BY <1>1, <4>1, <4>2, RecordStep
    <3>2. PICK m \in Messages : /\ Reading(e, t, m) /\ Admitted(ep[e], t, m) /\ m.id = id
                                /\ m.type # "SUBSCRIBE_UPDATE"
      BY <1>2, <1>4, <3>1 DEF Fresh, Admits
    <3>3. m \in OnWire(e) /\ m.type \in RequestTypes
      BY <1>1, <3>2, ReadsIs DEF Reading, Admitted
    <3>4. o.kind = KindOf(m.type) /\ Meant(e, m)
      BY <1>1, <3>2, <3>3 DEF Meaning, Meant
    <3>5. /\ m.type \in {"SUBSCRIBE", "PUBLISH"} => o.what = m.what
          /\ m.type = "PUBLISH" => o.alias = m.alias
      BY <1>1, <3>2, <3>3 DEF Said
    <3>6. u.kind = KindOf(m.type) /\ u.what = m.what /\ (m.type = "PUBLISH" => u.alias = m.alias)
      BY <2>3, <1>2, <1>4, <3>2 DEF Admitted
    <3>7. /\ KindOf(m.type) \in {"subscribe", "publish"} => m.type \in {"SUBSCRIBE", "PUBLISH"}
          /\ KindOf(m.type) = "publish" => m.type = "PUBLISH"
      BY <3>3 DEF RequestTypes, KindOf
    <3> QED
      BY <1>2, <1>4, <3>4, <3>5, <3>6, <3>7
  <2> QED
    BY <1>2, <1>4, <2>1, <2>2, <2>3
<1> QED
  BY <1>2, <1>3, <1>4

(* Only binding id is new, with an alias no other track held.              *)
MakesBinding(e, t, id) ==
  /\ \A j \in Ids \ {id} : t.requests[j] = ep[e].requests[j]
  /\ ~alias_held_elsewhere(ep[e], t.requests[id].alias, t.requests[id].what)

(* A binding this end answers for was one before, or has just been made    *)
(* with an alias no other track held.                                      *)
LEMMA HeldFrom ==
  ASSUME Inv, NEW e \in Roles, NEW t, Stepped(e, t), NEW id \in Ids, Held(t, id)
  PROVE  \/ Held(ep[e], id) /\ t.requests[id].alias = ep[e].requests[id].alias
                           /\ t.requests[id].what = ep[e].requests[id].what
         \/ MakesBinding(e, t, id)
<1> DEFINE s == ep[e].requests[id]
           u == t.requests[id]
<1>1. t.role = e /\ ep[e].role = e /\ Owner(id) \in {e, Peer(e)} /\ Peer(e) # e
  BY EndsOf
<1>2. CASE Kept(e, t, id)
  BY <1>1, <1>2 DEF Kept, Held, IsOwn, IsPeers
<1>3. CASE Fresh(e, t, id)
  <2>1. u.state # "Active"
    BY <1>3 DEF Fresh, Opened
  <2>2. Owner(id) = e /\ u.kind = "publish" /\ Opens(e, t, id)
    BY <1>1, <1>3, <2>1 DEF Held, IsOwn, IsPeers, Fresh
  <2>3. PICK m \in Messages : Opening(e, t, m) /\ m.id = id /\ m.type # "SUBSCRIBE_UPDATE"
    BY <2>2 DEF Opens
  <2>4. m.type \in RequestTypes /\ KindOf(m.type) = "publish"
    BY <2>2, <2>3 DEF Opening
  <2>5. m.type = "PUBLISH"
    BY <2>4 DEF RequestTypes, KindOf
  <2> QED
    BY <2>3, <2>5 DEF Opening, MakesBinding
<1>4. ASSUME NEW event \in Events, Turned(e, t, id, event)
      PROVE  \/ Held(ep[e], id) /\ u.alias = s.alias /\ u.what = s.what
             \/ MakesBinding(e, t, id)
  <2>1. <<s.state, event, u.state>> \in Moves(s.kind) /\ u.kind = s.kind /\ u.what = s.what
    BY <1>4 DEF Turned
  <2>2. CASE s.kind = "publish"
    <3>1. u.alias = s.alias
      BY <1>4, <2>2 DEF Turned
    <3>2. s.state # "Done" /\ Owner(id) = e
      BY <1>1, <2>1, <2>2, MoveFacts DEF Held, IsOwn, IsPeers
    <3> QED
      BY <1>1, <2>1, <2>2, <3>1, <3>2 DEF Held, IsOwn
  <2>3. CASE s.kind = "subscribe"
    <3>1. u.state = "Active" /\ Owner(id) # e
      BY <1>1, <2>1, <2>3 DEF Held, IsOwn, IsPeers
    <3>2. CASE event = "ok"
      <4>1. PICK m \in Messages : /\ m.type = "SUBSCRIBE_OK" /\ m.id = id
                                  /\ Deciding(e, t, m) \/ (Reading(e, t, m) /\ Learned(ep[e], t, m))
        BY <1>4, <2>3, <3>2 DEF Turned, Establishes
      <4>2. ~Learned(ep[e], t, m)
        BY <1>1, <3>1, <4>1 DEF Learned, IsOwn
      <4>3. Deciding(e, t, m)
        BY <4>1, <4>2
      <4>4. /\ u.alias = m.alias /\ ~alias_held_elsewhere(ep[e], m.alias, s.what)
            /\ \A j \in Ids \ {id} : t.requests[j] = ep[e].requests[j]
        BY <4>1, <4>3 DEF Deciding, Changed
      <4> QED
        BY <2>1, <4>4 DEF MakesBinding
    <3>3. CASE event # "ok"
      <4>1. s.state = "Active" /\ u.alias = s.alias
        BY <1>4, <2>1, <2>3, <3>1, <3>3, MoveFacts DEF Turned
      <4> QED
        BY <1>1, <2>1, <2>3, <3>1, <4>1 DEF Held, IsPeers
    <3> QED
      BY <3>2, <3>3
  <2> QED
    BY <2>1, <2>2, <2>3 DEF Held, IsOwn, IsPeers
<1> QED
  BY <1>2, <1>3, <1>4, RecordStep

(* An alias this end gives out names one track.                            *)
LEMMA GivesKept ==
  ASSUME AliasInv, NEW e \in Roles, NEW t, Stepped(e, t)
  PROVE  GivesOneTrack(t)
<1> SUFFICES ASSUME NEW i \in Ids, NEW j \in Ids, Held(t, i), Held(t, j), i # j,
                    t.requests[i].alias = t.requests[j].alias
             PROVE  t.requests[i].what = t.requests[j].what
  BY DEF GivesOneTrack, Same
<1> DEFINE s == ep[e]
<1>1. Inv /\ GivesOneTrack(s) /\ t.role = e /\ s.role = e
  BY EndsOf DEF AliasInv
<1>2. ASSUME NEW k \in Ids, NEW l \in Ids, k # l, MakesBinding(e, t, k), Held(t, l),
             t.requests[l].alias = t.requests[k].alias
      PROVE  t.requests[l].what = t.requests[k].what
  <2>1. t.requests[l] = s.requests[l] /\ ~alias_held_elsewhere(s, t.requests[k].alias, t.requests[k].what)
    BY <1>2 DEF MakesBinding
  <2>2. binding_is_in_use(s.requests[l])
    BY <1>1, <1>2, <2>1 DEF Held, IsOwn, IsPeers, binding_is_in_use, HasBinding
  <2> QED
    BY <1>2, <2>1, <2>2 DEF alias_held_elsewhere
<1>3. ASSUME NEW k \in {i, j}
      PROVE  \/ Held(s, k) /\ t.requests[k].alias = s.requests[k].alias
                          /\ t.requests[k].what = s.requests[k].what
             \/ MakesBinding(e, t, k)
  BY <1>1, HeldFrom
<1>4. CASE MakesBinding(e, t, i)
  BY <1>2, <1>4
<1>5. CASE MakesBinding(e, t, j)
  BY <1>2, <1>5
<1>6. CASE ~MakesBinding(e, t, i) /\ ~MakesBinding(e, t, j)
  <2>1. Held(s, i) /\ Held(s, j) /\ s.requests[i].alias = s.requests[j].alias
        /\ t.requests[i].what = s.requests[i].what /\ t.requests[j].what = s.requests[j].what
    BY <1>3, <1>6
  <2> QED
    BY <1>1, <2>1 DEF GivesOneTrack, Same
<1> QED
  BY <1>4, <1>5, <1>6

(* A track is received by a binding that was there before, or by one just  *)
(* made.                                                                   *)
LEMMA LiveFrom ==
  ASSUME Inv, NEW e \in Roles, NEW t, Stepped(e, t), NEW id \in Ids, Live(t, id)
  PROVE  \/ /\ Live(ep[e], id) /\ t.requests[id].alias = ep[e].requests[id].alias
            /\ t.requests[id].what = ep[e].requests[id].what
            /\ t.requests[id].state = "Publishing" => t.requests[id] = ep[e].requests[id]
         \/ Owner(id) = e /\ Establishes(e, t, id)
         \/ Owner(id) # e /\ Admits(e, t, id)
<1> DEFINE s == ep[e].requests[id]
           u == t.requests[id]
<1>1. t.role = e /\ ep[e].role = e /\ Owner(id) \in {e, Peer(e)} /\ Peer(e) # e
  BY EndsOf
<1>2. CASE Kept(e, t, id)
  BY <1>1, <1>2 DEF Kept, Live, IsOwn, IsPeers
<1>3. CASE Fresh(e, t, id)
  <2>1. u.state # "Active"
    BY <1>3 DEF Fresh, Opened
  <2> QED
    BY <1>1, <1>3, <2>1 DEF Live, IsOwn, IsPeers, Fresh
<1>4. ASSUME NEW event \in Events, Turned(e, t, id, event)
      PROVE  \/ Live(ep[e], id) /\ u.alias = s.alias /\ u.what = s.what /\ u.state # "Publishing"
             \/ Owner(id) = e /\ Establishes(e, t, id)
  <2>1. <<s.state, event, u.state>> \in Moves(s.kind) /\ u.kind = s.kind /\ u.what = s.what
    BY <1>4 DEF Turned
  <2>2. CASE s.kind = "publish"
    <3>1. u.alias = s.alias
      BY <1>4, <2>2 DEF Turned
    <3>2. s.state \in {"Publishing", "Active"} /\ Owner(id) # e /\ u.state # "Publishing"
      BY <1>1, <2>1, <2>2, MoveFacts DEF Live, IsOwn, IsPeers
    <3> QED
      BY <1>1, <2>1, <2>2, <3>1, <3>2 DEF Live, IsPeers
  <2>3. CASE s.kind = "subscribe"
    <3>1. u.state = "Active" /\ Owner(id) = e
      BY <1>1, <2>1, <2>3 DEF Live, IsOwn, IsPeers
    <3>2. CASE event = "ok"
      BY <1>4, <2>3, <3>1, <3>2 DEF Turned
    <3>3. CASE event # "ok"
      <4>1. s.state = "Active" /\ u.alias = s.alias
        BY <1>4, <2>1, <2>3, <3>1, <3>3, MoveFacts DEF Turned
      <4> QED
        BY <1>1, <2>1, <2>3, <3>1, <4>1 DEF Live, IsOwn
    <3> QED
      BY <3>2, <3>3
  <2> QED
    BY <2>1, <2>2, <2>3 DEF Live, IsOwn, IsPeers
<1> QED
  BY <1>2, <1>3, <1>4, RecordStep

(* An offer that is not yet answered is held by the end that made it.      *)
LEMMA OfferHeld ==
  ASSUME AliasInv, NEW x \in Roles, NEW j \in Ids, IsPeers(ep[x], j, "publish"),
         ep[x].requests[j].state = "Publishing"
  PROVE  /\ Held(ep[Peer(x)], j) /\ ep[Peer(x)].requests[j].what = ep[x].requests[j].what
         /\ ep[Peer(x)].requests[j].alias = ep[x].requests[j].alias
<1>1. /\ ep[x].role = x /\ ep[Peer(x)].role = Peer(x)
      /\ Owner(j) = Peer(x) /\ Peer(Owner(j)) = x
  BY RolesAre DEF AliasInv, Inv, TypeOK, IsPeers
<1>2. /\ ep[Peer(x)].requests[j].kind = "publish"
      /\ ep[Peer(x)].requests[j].what = ep[x].requests[j].what
      /\ ep[Peer(x)].requests[j].alias = ep[x].requests[j].alias
  BY <1>1 DEF AliasInv, Agree, IsPeers
<1>3. ep[Peer(x)].requests[j].state \in Undecided
  BY <1>1, <1>2, StillWaiting DEF Undecided
<1> QED
  BY <1>1, <1>2, <1>3 DEF Held, IsOwn, Undecided

(* So is one that has not yet arrived. *)
LEMMA SentOfferHeld ==
  ASSUME AliasInv, NEW x \in Roles, NEW m \in OnWire(x), m.type = "PUBLISH",
         m.id >= ep[x].peer_next_id
  PROVE  /\ m.id \in Ids /\ Held(ep[Peer(x)], m.id) /\ ep[Peer(x)].requests[m.id].what = m.what
         /\ ep[Peer(x)].requests[m.id].alias = m.alias
<1>1. m.type \in RequestTypes /\ KindOf(m.type) = "publish"
  BY DEF RequestTypes, KindOf
<1>2. /\ m.id \in Ids /\ Owner(m.id) = Peer(x) /\ Peer(Owner(m.id)) = x
      /\ ep[Peer(x)].requests[m.id].kind = "publish"
  BY <1>1, RolesAre DEF AliasInv, Inv, Meaning, WellFormed, Meant
<1>3. /\ ep[x].role = x /\ ep[Peer(x)].role = Peer(x) /\ Counted(ep[x]) /\ Peer(x) # x
      /\ ep[Peer(x)].requests[m.id].what = m.what /\ ep[Peer(x)].requests[m.id].alias = m.alias
  BY RolesAre DEF AliasInv, Inv, TypeOK, Counters, Said
<1>4. ep[x].requests[m.id].state = "Idle"
  BY <1>2, <1>3 DEF Counted, NoRequest
<1>5. ep[Peer(x)].requests[m.id].state \in Undecided
  BY <1>2, <1>4, StillWaiting DEF Undecided
<1> QED
  BY <1>2, <1>3, <1>5 DEF Held, IsOwn, Undecided

(* An alias names one track to the end that receives by it.                *)
LEMMA TakesKept ==
  ASSUME AliasInv, NEW e \in Roles, NEW t, Stepped(e, t)
  PROVE  TakesOneTrack(t)
<1> SUFFICES ASSUME NEW i \in Ids, NEW j \in Ids, Live(t, i), Live(t, j), i # j,
                    t.requests[i].alias = t.requests[j].alias
             PROVE  t.requests[i].what = t.requests[j].what
  BY DEF TakesOneTrack, Same
<1> DEFINE s == ep[e]
           g == ep[Peer(e)]
<1>1. /\ Inv /\ TypeOK /\ TakesOneTrack(s) /\ GivesOneTrack(g) /\ Behind /\ Agree
      /\ t.role = e /\ s.role = e
      /\ s \in Endpoints /\ Peer(e) \in Roles /\ Peer(Peer(e)) = e /\ Peer(e) # e
  BY EndsOf DEF AliasInv, Inv
<1>2. ASSUME NEW k \in Ids, NEW l \in Ids, k # l, Owner(k) = e, Establishes(e, t, k),
             Live(t, l), t.requests[l].alias = t.requests[k].alias
      PROVE  t.requests[l].what = t.requests[k].what
  <2>1. PICK m \in Messages : m.type = "SUBSCRIBE_OK" /\ m.id = k /\ Reading(e, t, m)
                              /\ Learned(s, t, m)
    BY <1>1, <1>2 DEF Establishes, Deciding, IsPeers
  <2>2. /\ t.requests[k].alias = m.alias /\ t.requests[k].what = s.requests[k].what
        /\ ~conflicting_track_alias(s, k, m.alias, s.requests[k].what)
        /\ t.requests[l] = s.requests[l] /\ s.requests[k].kind = "subscribe"
    BY <1>2, <2>1 DEF Learned, Changed, IsOwn, KindOf
  <2>3. Live(s, l)
    BY <1>1, <1>2, <2>2 DEF Live, IsOwn, IsPeers
  <2>4. CASE s.requests[l].state = "Active"
    BY <1>2, <2>2, <2>3, <2>4 DEF conflicting_track_alias, binding_is_established, HasBinding, Live,
                                  IsOwn, IsPeers
  <2>5. CASE s.requests[l].state # "Active"
    <3>1. IsPeers(s, l, "publish") /\ s.requests[l].state = "Publishing"
      BY <2>3, <2>5 DEF Live
    <3>2. 1 \in DOMAIN wire[e] /\ wire[e][1] = m /\ m \in OnWire(e)
      <4>1. wire[e] # <<>> /\ m = Head(wire[e]) /\ wire[e] \in Seq(Messages)
        BY <1>1, <2>1 DEF Reading, TypeOK
      <4>2. Head(wire[e]) = wire[e][1] /\ 1 \in DOMAIN wire[e]
        BY <4>1
      <4> QED
        BY <4>1, <4>2 DEF OnWire
    <3>3. Offered(e, m.alias, g.requests[k].what)
      BY <1>1, <2>1, <3>2 DEF Behind
    <3>4. s.requests[l].what = g.requests[k].what
      BY <1>2, <2>2, <3>1, <3>3 DEF Offered
    <3>5. g.requests[k].kind = "subscribe" /\ g.requests[k].what = s.requests[k].what
      <4>1. verdict[k] = "ok"
        BY <1>1, <2>1, <3>2 DEF Inv, Meaning, Meant, OkTypes
      <4>2. g.requests[k].state \notin Undecided
        BY <1>2, <4>1, SessionAssumption DEF AliasInv, Inv, Verdicts
      <4>3. g.requests[k].kind # "none"
        BY <1>1, <4>2 DEF Inv, Counters, Counted, NoRequest, Undecided
      <4> QED
        BY <1>1, <1>2, <2>2, <4>3 DEF Agree
    <3> QED
      BY <2>2, <3>4, <3>5
  <2> QED
    BY <2>4, <2>5
<1>3. ASSUME NEW k \in Ids, NEW l \in Ids, k # l, Owner(k) # e, Admits(e, t, k), Live(t, k),
             Live(t, l), t.requests[l].alias = t.requests[k].alias
      PROVE  t.requests[l].what = t.requests[k].what
  <2>1. PICK m \in Messages : /\ Reading(e, t, m) /\ Admitted(s, t, m) /\ m.id = k
                              /\ m.type # "SUBSCRIBE_UPDATE"
    BY <1>3 DEF Admits
  <2>2. m \in OnWire(e) /\ m.id = s.peer_next_id /\ m.type \in RequestTypes
        /\ t.requests[l] = s.requests[l]
    BY <1>1, <1>3, <2>1, ReadsIs DEF Reading, Admitted
  <2>3. s.requests[k] = NoRequest /\ s.peer_next_id \in Nat
    BY <1>1, <1>3, <2>1, <2>2 DEF Inv, Counters, Counted, Endpoints
  <2>4. t.requests[k].kind = "publish"
    BY <1>1, <1>3 DEF Live, IsOwn, IsPeers
  <2>5. /\ t.requests[k].kind = KindOf(m.type) /\ t.requests[k].what = m.what
        /\ t.requests[k].alias = IF m.type = "PUBLISH" THEN m.alias ELSE None
        /\ m.type = "PUBLISH" =>
             \A n \in Ids \ {k} :
               s.requests[n].alias = m.alias /\ binding_is_established(s.requests[n]) =>
                 s.requests[n].what = m.what
    BY <2>1, <2>3, <2>4 DEF Admitted, NoRequest
  <2>6. m.type = "PUBLISH"
    BY <2>2, <2>4, <2>5 DEF RequestTypes, KindOf
  <2>7. Live(s, l)
    BY <1>1, <1>3, <2>2 DEF Live, IsOwn, IsPeers
  <2>8. CASE s.requests[l].state = "Active"
    BY <1>3, <2>2, <2>5, <2>6, <2>7, <2>8 DEF binding_is_established, HasBinding, Live, IsOwn, IsPeers
  <2>9. CASE s.requests[l].state # "Active"
    <3>1. IsPeers(s, l, "publish") /\ s.requests[l].state = "Publishing"
      BY <2>7, <2>9 DEF Live
    <3>2. Held(g, l) /\ g.requests[l].what = s.requests[l].what
          /\ g.requests[l].alias = s.requests[l].alias
      BY <3>1, OfferHeld
    <3>3. m.id >= s.peer_next_id
      BY <2>2, <2>3
    <3>4. Held(g, k) /\ g.requests[k].what = m.what /\ g.requests[k].alias = m.alias
      BY <2>1, <2>2, <2>6, <3>3, SentOfferHeld
    <3> QED
      BY <1>1, <1>3, <2>2, <2>5, <2>6, <3>2, <3>4 DEF GivesOneTrack, Same
  <2> QED
    BY <2>8, <2>9
<1>4. ASSUME NEW k \in {i, j}
      PROVE  \/ Live(s, k) /\ t.requests[k].alias = s.requests[k].alias
                          /\ t.requests[k].what = s.requests[k].what
             \/ Owner(k) = e /\ Establishes(e, t, k)
             \/ Owner(k) # e /\ Admits(e, t, k)
  BY <1>1, LiveFrom
<1>5. CASE \/ Owner(i) = e /\ Establishes(e, t, i)
           \/ Owner(i) # e /\ Admits(e, t, i)
  BY <1>2, <1>3, <1>5
<1>6. CASE \/ Owner(j) = e /\ Establishes(e, t, j)
           \/ Owner(j) # e /\ Admits(e, t, j)
  BY <1>2, <1>3, <1>6
<1>7. CASE /\ Live(s, i) /\ t.requests[i].alias = s.requests[i].alias
           /\ t.requests[i].what = s.requests[i].what
           /\ Live(s, j) /\ t.requests[j].alias = s.requests[j].alias
           /\ t.requests[j].what = s.requests[j].what
  BY <1>1, <1>7 DEF TakesOneTrack, Same
<1> QED
  BY <1>4, <1>5, <1>6, <1>7

(* Every SUBSCRIBE_OK stays behind the offers it agrees with.              *)
LEMMA BehindKept ==
  ASSUME AliasInv, NEW e \in Roles, NEW t, Stepped(e, t)
  PROVE  Behind'
<1> SUFFICES ASSUME NEW x \in Roles, NEW n \in DOMAIN wire'[x], wire'[x][n].type = "SUBSCRIBE_OK"
             PROVE  /\ \A j \in Ids :
                         /\ IsPeers(ep'[x], j, "publish") /\ ep'[x].requests[j].state = "Publishing"
                         /\ ep'[x].requests[j].alias = wire'[x][n].alias
                         => ep'[x].requests[j].what = ep'[Peer(x)].requests[wire'[x][n].id].what
                    /\ \A k \in DOMAIN wire'[x] :
                         /\ k < n /\ wire'[x][k].type = "PUBLISH"
                         /\ wire'[x][k].id >= ep'[x].peer_next_id
                         /\ wire'[x][k].alias = wire'[x][n].alias
                         => wire'[x][k].what = ep'[Peer(x)].requests[wire'[x][n].id].what
  BY DEF Behind, Offered, IsPeers
<1> DEFINE m == wire'[x][n]
           what == ep'[Peer(x)].requests[m.id].what
           Goal == /\ \A j \in Ids :
                        /\ IsPeers(ep'[x], j, "publish") /\ ep'[x].requests[j].state = "Publishing"
                        /\ ep'[x].requests[j].alias = m.alias
                        => ep'[x].requests[j].what = what
                   /\ \A k \in DOMAIN wire'[x] :
                        /\ k < n /\ wire'[x][k].type = "PUBLISH"
                        /\ wire'[x][k].id >= ep'[x].peer_next_id
                        /\ wire'[x][k].alias = m.alias
                        => wire'[x][k].what = what
<1> SUFFICES Goal
  OBVIOUS
<1> HIDE DEF Goal
<1>1. /\ Inv /\ TypeOK /\ TypeOK' /\ Meaning /\ Behind /\ Verdicts /\ Counters
      /\ Peer(x) \in Roles /\ Peer(Peer(x)) = x /\ Peer(x) # x /\ x \in {e, Peer(e)}
  BY RolesAre, TypeKept DEF AliasInv, Inv
<1>2. /\ ep'[e] = t /\ ep'[Peer(e)] = ep[Peer(e)] /\ t.role = e /\ ep[e].role = e
      /\ ep[Peer(e)].role = Peer(e)
  BY <1>1, EndsOf
<1>3. m.type = "SUBSCRIBE_OK" /\ m.type \in OkTypes /\ m.type \notin SetupTypes
      /\ m.type \notin EndTypes \union CountTypes \union AboutTypes /\ m.type \notin RequestTypes
  BY DEF OkTypes, SetupTypes, EndTypes, CountTypes, AboutTypes, RequestTypes
<1>4. wire \in [Roles -> Seq(Messages)] /\ wire' \in [Roles -> Seq(Messages)]
      /\ DOMAIN wire[x] = 1..Len(wire[x]) /\ Len(wire[x]) \in Nat
      /\ DOMAIN wire'[x] = 1..Len(wire'[x]) /\ Len(wire'[x]) \in Nat
  BY <1>1 DEF TypeOK
<1> HIDE DEF m
<1>5. ep[x].peer_next_id <= ep'[x].peer_next_id /\ ep[x].peer_next_id \in Nat
      /\ ep'[x].peer_next_id \in Nat
  <2>1. ep[x].peer_next_id \in Nat /\ ep'[x].peer_next_id \in Nat
    BY <1>1 DEF TypeOK, Endpoints
  <2>2. t.peer_next_id = ep[e].peer_next_id \/ t.peer_next_id = ep[e].peer_next_id + 2
    BY DEF Stepped, Opening, Deciding, Reading, Ending, Shaking, Receipt, Quiet, Learned, ToldOver,
           Admitted, Changed, Alike
  <2> QED
    BY <1>1, <1>2, <2>1, <2>2
<1>6. ASSUME NEW q \in DOMAIN wire[x], wire[x][q] = m,
             \A j \in Ids : x = e /\ Admits(e, t, j) => q > 1
      PROVE  /\ what = ep[Peer(x)].requests[m.id].what
             /\ \A j \in Ids :
                  /\ IsPeers(ep'[x], j, "publish") /\ ep'[x].requests[j].state = "Publishing"
                  /\ ep'[x].requests[j].alias = m.alias
                  => ep'[x].requests[j].what = what
  <2>1. m \in OnWire(x)
    BY <1>6 DEF OnWire
  <2>2. m.id \in Ids /\ Owner(m.id) = x /\ verdict[m.id] = "ok"
    BY <1>1, <1>3, <2>1 DEF Meaning, WellFormed, Meant
  <2>3. ep[Peer(x)].requests[m.id].kind # "none"
    <3>1. ep[Peer(x)].requests[m.id].state \notin Undecided
      BY <1>1, <2>2, SessionAssumption DEF Verdicts
    <3> QED
      BY <1>1, <2>2, <3>1 DEF Counters, Counted, NoRequest, Undecided
  <2>4. what = ep[Peer(x)].requests[m.id].what
    BY <1>1, <2>2, <2>3, Lasting
  <2>5. Offered(x, m.alias, what)
    BY <1>3, <1>6, <2>4 DEF Behind, AliasInv
  <2> HIDE DEF what
  <2>6. ASSUME NEW j \in Ids, IsPeers(ep'[x], j, "publish"),
               ep'[x].requests[j].state = "Publishing", ep'[x].requests[j].alias = m.alias
        PROVE  ep'[x].requests[j].what = what
    <3>1. CASE x = Peer(e)
      BY <1>2, <2>5, <2>6, <3>1 DEF Offered
    <3>2. CASE x = e
      <4>1. Live(t, j) /\ Owner(j) # e /\ t.requests[j].state = "Publishing"
            /\ t.requests[j].kind = "publish"
        BY <1>2, <2>6, <3>2 DEF Live, IsPeers
      <4>2. CASE Live(ep[e], j) /\ t.requests[j] = ep[e].requests[j]
        <5>1. IsPeers(ep[x], j, "publish") /\ ep[x].requests[j] = ep'[x].requests[j]
          BY <1>2, <3>2, <4>1, <4>2 DEF IsPeers
        <5> QED
          BY <2>5, <2>6, <5>1 DEF Offered
      <4>3. CASE Admits(e, t, j)
        <5>1. PICK k \in Messages : /\ Reading(e, t, k) /\ Admitted(ep[e], t, k) /\ k.id = j
                                    /\ k.type # "SUBSCRIBE_UPDATE"
          BY <4>3 DEF Admits
        <5>2. q > 1 /\ 1 \in DOMAIN wire[x] /\ wire[x][1] = k
          <6>1. q > 1
            BY <1>6, <3>2, <4>3
          <6>2. wire[e] # <<>> /\ k = Head(wire[e]) /\ wire[e] \in Seq(Messages)
            BY <1>4, <5>1 DEF Reading
          <6> QED
            BY <3>2, <6>1, <6>2
        <5>3. k.id = ep[x].peer_next_id /\ k.type \in RequestTypes
          BY <3>2, <5>1 DEF Admitted
        <5>4. ep[e].requests[j] = NoRequest
          BY <1>1, <1>2, <1>5, <3>2, <4>1, <5>1, <5>3 DEF Counters, Counted
        <5>5. t.requests[j].kind = KindOf(k.type) /\ t.requests[j].what = k.what
              /\ t.requests[j].alias = (IF k.type = "PUBLISH" THEN k.alias ELSE None)
          BY <4>1, <5>1, <5>4 DEF Admitted, NoRequest
        <5>6. k.type = "PUBLISH"
          BY <4>1, <5>3, <5>5 DEF RequestTypes, KindOf
        <5>7. k.id >= ep[x].peer_next_id
          BY <1>5, <5>3
        <5>8. k.what = what
          BY <1>1, <1>2, <1>3, <1>6, <2>4, <2>6, <3>2, <5>2, <5>5, <5>6, <5>7 DEF Behind
        <5> QED
          BY <1>2, <3>2, <5>5, <5>8
      <4> QED
        BY <1>1, <4>1, <4>2, <4>3, LiveFrom
    <3> QED
      BY <1>1, <3>1, <3>2
  <2> QED
    BY <2>4, <2>6
<1>7. ASSUME NEW d \in {0, 1},
             \A j \in Ids : x = e /\ Admits(e, t, j) => d = 1,
             \A k \in DOMAIN wire'[x] : k <= n =>
               k + d \in DOMAIN wire[x] /\ wire'[x][k] = wire[x][k + d]
      PROVE  Goal
  <2>1. n \in Nat /\ n > 0 /\ n + d \in DOMAIN wire[x] /\ m = wire[x][n + d]
    BY <1>4, <1>7 DEF m
  <2>2. \A j \in Ids : x = e /\ Admits(e, t, j) => n + d > 1
    BY <1>7, <2>1
  <2>3. /\ what = ep[Peer(x)].requests[m.id].what
        /\ \A j \in Ids :
             /\ IsPeers(ep'[x], j, "publish") /\ ep'[x].requests[j].state = "Publishing"
             /\ ep'[x].requests[j].alias = m.alias
             => ep'[x].requests[j].what = what
    BY <1>6, <2>1, <2>2
  <2> HIDE DEF what
  <2>4. ASSUME NEW k \in DOMAIN wire'[x], k < n, wire'[x][k].type = "PUBLISH",
               wire'[x][k].id >= ep'[x].peer_next_id, wire'[x][k].alias = m.alias
        PROVE  wire'[x][k].what = what
    <3>1. k \in Nat /\ k + d \in DOMAIN wire[x] /\ k + d < n + d /\ wire'[x][k] = wire[x][k + d]
      BY <1>4, <1>7, <2>1, <2>4
    <3>2. wire'[x][k].id \in Nat
      <4>1. wire'[x][k] \in OnWire(x)
        BY <3>1 DEF OnWire
      <4>2. wire'[x][k].id \in Ids
        BY <1>1, <2>4, <4>1 DEF Meaning, WellFormed, RequestTypes
      <4> QED
        BY <4>2, EndpointAssumption
    <3>3. wire'[x][k].id >= ep[x].peer_next_id
      BY <1>5, <2>4, <3>2
    <3> QED
      BY <1>1, <1>3, <2>1, <2>3, <2>4, <3>1, <3>3, SMTT(30) DEF Behind
  <2> QED
    BY <2>3, <2>4 DEF Goal
<1>8. CASE wire'[x] = wire[x]
  <2>1. \A k \in DOMAIN wire'[x] : k + 0 \in DOMAIN wire[x] /\ wire'[x][k] = wire[x][k + 0]
    BY <1>4, <1>8
  <2>2. ASSUME NEW j \in Ids, x = e, Admits(e, t, j)
        PROVE  FALSE
    <3>1. wire[e] # <<>> /\ wire' = [wire EXCEPT ![e] = Tail(@)]
      BY <2>2 DEF Admits, Reading
    <3>2. Len(wire'[x]) = Len(wire[x]) - 1
      BY <1>1, <2>2, <3>1, ReadsIs
    <3> QED
      BY <1>4, <1>8, <3>2
  <2> HIDE DEF what
  <2> QED
    BY <1>7, <2>1, <2>2
<1>9. CASE x = e /\ wire[e] # <<>> /\ wire' = [wire EXCEPT ![e] = Tail(@)]
  <2>1. \A k \in DOMAIN wire'[x] : k + 1 \in DOMAIN wire[x] /\ wire'[x][k] = wire[x][k + 1]
    BY <1>1, <1>9, ReadsIs
  <2> HIDE DEF what
  <2> QED
    BY <1>7, <2>1
<1>10. CASE Shaking(e, t) /\ \A y \in Roles : Len(wire'[y]) <= 1
  <2>1. \A k \in DOMAIN wire'[x] : ~(k < n)
    BY <1>4, <1>10
  <2>2. m \in OnWire(x)'
    BY DEF OnWire, m
  <2>3. m \in OnWire(x)
    BY <1>3, <1>10, <2>2 DEF Shaking
  <2>4. PICK q \in DOMAIN wire[x] : wire[x][q] = m
    BY <2>3 DEF OnWire
  <2>5. ASSUME NEW j \in Ids, Admits(e, t, j)
        PROVE  FALSE
    <3>1. t.peer_next_id = ep[e].peer_next_id + 2 /\ t.peer_next_id = ep[e].peer_next_id
      BY <1>10, <2>5 DEF Admits, Admitted, Shaking, Quiet, Alike
    <3>2. ep[e].peer_next_id \in Nat
      BY <1>1 DEF TypeOK, Endpoints
    <3> QED
      BY <3>1, <3>2
  <2> HIDE DEF what
  <2> QED
    BY <1>6, <2>1, <2>4, <2>5 DEF Goal
<1>11. ASSUME NEW ms, Posts(e, ms), x = Peer(e), n <= Len(wire[x])
       PROVE  Goal
  <2>1. \A k \in DOMAIN wire'[Peer(e)] :
          \/ k \in DOMAIN wire[Peer(e)] /\ wire'[Peer(e)][k] = wire[Peer(e)][k]
          \/ /\ k > Len(wire[Peer(e)]) /\ k - Len(wire[Peer(e)]) \in DOMAIN ms
             /\ wire'[Peer(e)][k] = ms[k - Len(wire[Peer(e)])]
    BY <1>1, <1>11, PostsIs
  <2>2. \A k \in DOMAIN wire'[x] : k <= n =>
          k + 0 \in DOMAIN wire[x] /\ wire'[x][k] = wire[x][k + 0]
    <3> SUFFICES ASSUME NEW k \in DOMAIN wire'[x], k <= n
                 PROVE  k + 0 \in DOMAIN wire[x] /\ wire'[x][k] = wire[x][k + 0]
      OBVIOUS
    <3>1. k \in Nat /\ n \in Nat /\ ~(k > Len(wire[x]))
      BY <1>4, <1>11
    <3> QED
      BY <1>11, <2>1, <3>1
  <2>3. x # e
    BY <1>11, RolesAre
  <2> HIDE DEF what
  <2> QED
    BY <1>7, <2>2, <2>3
<1>12. ASSUME NEW k, Deciding(e, t, k), Posts(e, <<k>>), x = Peer(e), n > Len(wire[x])
       PROVE  Goal
  <2>1. \A l \in DOMAIN wire'[Peer(e)] :
          \/ l \in DOMAIN wire[Peer(e)] /\ wire'[Peer(e)][l] = wire[Peer(e)][l]
          \/ /\ l > Len(wire[Peer(e)]) /\ l - Len(wire[Peer(e)]) \in DOMAIN <<k>>
             /\ wire'[Peer(e)][l] = <<k>>[l - Len(wire[Peer(e)])]
    <3> DEFINE ms == <<k>>
    <3>1. Posts(e, ms)
      BY <1>12
    <3> HIDE DEF ms
    <3>2. \A l \in DOMAIN wire'[Peer(e)] :
            \/ l \in DOMAIN wire[Peer(e)] /\ wire'[Peer(e)][l] = wire[Peer(e)][l]
            \/ /\ l > Len(wire[Peer(e)]) /\ l - Len(wire[Peer(e)]) \in DOMAIN ms
               /\ wire'[Peer(e)][l] = ms[l - Len(wire[Peer(e)])]
      BY <1>1, <3>1, PostsIs
    <3> QED
      BY <3>2 DEF ms
  <2>2. \A l \in DOMAIN wire'[x] : l < n => l \in DOMAIN wire[x] /\ wire'[x][l] = wire[x][l]
    <3> SUFFICES ASSUME NEW l \in DOMAIN wire'[x], l < n
                 PROVE  l \in DOMAIN wire[x] /\ wire'[x][l] = wire[x][l]
      OBVIOUS
    <3>1. l \in Nat /\ n \in Nat /\ n - Len(wire[x]) \in DOMAIN <<k>>
      BY <1>4, <1>12, <2>1
    <3>2. n - Len(wire[x]) = 1
      BY <3>1
    <3>3. ~(l > Len(wire[x]))
      BY <1>4, <3>1, <3>2
    <3> QED
      BY <1>12, <2>1, <3>3
  <2>3. m = k
    <3>1. n - Len(wire[x]) \in DOMAIN <<k>> /\ m = <<k>>[n - Len(wire[x])]
      BY <1>4, <1>12, <2>1 DEF m
    <3> QED
      BY <3>1
  <2>4. /\ Peer(x) = e /\ x # e /\ ep'[x] = ep[x]
        /\ what = ep[e].requests[m.id].what
        /\ ~alias_held_elsewhere(ep[e], m.alias, what)
    BY <1>1, <1>2, <1>3, <1>12, <2>3, RolesAre DEF Deciding, Changed
  <2> HIDE DEF what
  <2>5. ASSUME NEW j \in Ids, Held(ep[e], j), ep[e].requests[j].alias = m.alias
        PROVE  ep[e].requests[j].what = what
    <3>1. binding_is_in_use(ep[e].requests[j])
      BY <2>5 DEF Held, IsOwn, IsPeers, binding_is_in_use, HasBinding
    <3> QED
      BY <2>4, <2>5, <3>1 DEF alias_held_elsewhere
  <2>6. ASSUME NEW j \in Ids, IsPeers(ep[x], j, "publish"), ep[x].requests[j].state = "Publishing",
               ep[x].requests[j].alias = m.alias
        PROVE  ep[x].requests[j].what = what
    <3>1. Held(ep[e], j) /\ ep[e].requests[j].what = ep[x].requests[j].what
          /\ ep[e].requests[j].alias = ep[x].requests[j].alias
      BY <2>4, <2>6, OfferHeld
    <3> QED
      BY <2>5, <2>6, <3>1
  <2>7. ASSUME NEW l \in DOMAIN wire'[x], l < n, wire'[x][l].type = "PUBLISH",
               wire'[x][l].id >= ep[x].peer_next_id, wire'[x][l].alias = m.alias
        PROVE  wire'[x][l].what = what
    <3>1. wire'[x][l] \in OnWire(x)
      BY <2>2, <2>7 DEF OnWire
    <3> DEFINE p == wire'[x][l]
    <3>2. p \in OnWire(x) /\ p.type = "PUBLISH" /\ p.id >= ep[x].peer_next_id /\ p.alias = m.alias
      BY <2>7, <3>1
    <3> HIDE DEF p
    <3>3. p.id \in Ids /\ Held(ep[e], p.id) /\ ep[e].requests[p.id].what = p.what
          /\ ep[e].requests[p.id].alias = p.alias
      BY <2>4, <3>2, SentOfferHeld
    <3>4. p.what = what
      BY <2>5, <3>2, <3>3
    <3> QED
      BY <3>4 DEF p
  <2> QED
    BY <2>4, <2>6, <2>7 DEF Goal
<1>13. ASSUME NEW ms, Posts(e, ms), \A i \in DOMAIN ms : ms[i].type # "SUBSCRIBE_OK",
              x = Peer(e), n > Len(wire[x])
       PROVE  FALSE
  <2>1. \A k \in DOMAIN wire'[Peer(e)] :
          \/ k \in DOMAIN wire[Peer(e)] /\ wire'[Peer(e)][k] = wire[Peer(e)][k]
          \/ /\ k > Len(wire[Peer(e)]) /\ k - Len(wire[Peer(e)]) \in DOMAIN ms
             /\ wire'[Peer(e)][k] = ms[k - Len(wire[Peer(e)])]
    BY <1>1, <1>13, PostsIs
  <2>2. n - Len(wire[x]) \in DOMAIN ms /\ m = ms[n - Len(wire[x])]
    BY <1>4, <1>13, <2>1 DEF m
  <2> QED
    BY <1>3, <1>13, <2>2
<1>14. ASSUME NEW ms, Posts(e, ms), x = e
       PROVE  wire'[x] = wire[x]
  BY <1>1, <1>14, PostsIs
<1>15. n \in Nat /\ (n <= Len(wire[x]) \/ n > Len(wire[x]))
  BY <1>4
<1>16. ASSUME NEW k, Opening(e, t, k)
       PROVE  Goal
  <2>1. CASE wire' = wire
    BY <1>8, <2>1
  <2>2. CASE Posts(e, <<k>>)
    <3>1. \A i \in DOMAIN <<k>> : <<k>>[i].type # "SUBSCRIBE_OK"
      BY <1>16 DEF Opening, RequestTypes
    <3> QED
      BY <1>1, <1>8, <1>11, <1>13, <1>14, <1>15, <2>2, <3>1
  <2> QED
    BY <1>16, <2>1, <2>2 DEF Opening
<1>17. ASSUME NEW k, Deciding(e, t, k)
       PROVE  Goal
  <2>1. CASE wire' = wire
    BY <1>8, <2>1
  <2>2. CASE Posts(e, <<k>>)
    BY <1>1, <1>8, <1>11, <1>12, <1>14, <1>15, <1>17, <2>2
  <2> QED
    BY <1>17, <2>1, <2>2 DEF Deciding
<1>18. CASE Ending(e, t)
  <2>1. CASE wire' = wire
    BY <1>8, <2>1
  <2>2. ASSUME NEW ms, Posts(e, ms),
               \A i \in DOMAIN ms : ms[i].type \in EndTypes \union CountTypes \union AboutTypes
        PROVE  Goal
    <3>1. \A i \in DOMAIN ms : ms[i].type # "SUBSCRIBE_OK"
      BY <2>2 DEF EndTypes, CountTypes, AboutTypes
    <3> QED
      BY <1>1, <1>8, <1>11, <1>13, <1>14, <1>15, <2>2, <3>1
  <2> QED
    BY <1>18, <2>1, <2>2 DEF Ending
<1>19. ASSUME wire[e] # <<>>, wire' = [wire EXCEPT ![e] = Tail(@)]
       PROVE  Goal
  <2>1. CASE x = e
    BY <1>9, <1>19, <2>1
  <2>2. CASE x = Peer(e)
    <3>1. wire'[x] = wire[x]
      BY <1>1, <1>19, <2>2, ReadsIs
    <3> QED
      BY <1>8, <3>1
  <2> QED
    BY <1>1, <2>1, <2>2
<1>20. Goal
  <2>1. ASSUME NEW k, Reading(e, t, k)
        PROVE  Goal
    BY <1>19, <2>1 DEF Reading
  <2>2. CASE Shaking(e, t)
    BY <1>10, <1>19, <2>2 DEF Shaking
  <2> QED
    BY <1>16, <1>17, <1>18, <2>1, <2>2 DEF Stepped
<1> QED
  BY <1>20 DEF Goal

(* A step keeps it. *)
LEMMA NextAliasInv ==
  ASSUME AliasInv, [Next]_vars
  PROVE  AliasInv'
<1>1. Inv'
  BY NextInv DEF AliasInv
<1>2. CASE Next
  <2>1. PICK e \in Roles, t \in Endpoints : Stepped(e, t)
    BY <1>2, NextStep DEF AliasInv, Inv
  <2>2. ep'[e] = t /\ ep'[Peer(e)] = ep[Peer(e)]
    BY <2>1, EndsOf DEF AliasInv
  <2>3. GivesOneTrack(t) /\ TakesOneTrack(t)
    BY <2>1, GivesKept, TakesKept
  <2>4. \A x \in Roles : GivesOneTrack(ep'[x]) /\ TakesOneTrack(ep'[x])
    BY <2>2, <2>3, RolesAre DEF AliasInv
  <2> QED
    BY <1>1, <2>1, <2>4, HeardKept, SaidKept, AgreeKept, BehindKept DEF AliasInv
<1>3. CASE UNCHANGED vars
  BY <1>1, <1>3, SMTT(30) DEF AliasInv, vars, Heard, Said, Agree, Behind, Offered, OnWire
<1> QED
  BY <1>2, <1>3

(* A session starts with nothing asked and nothing on its way. *)
LEMMA InitAliasInv ==
  ASSUME Init
  PROVE  AliasInv
<1>1. Inv
  BY InitInv
<1>2. \A e \in Roles : \A id \in Ids : ep[e].requests[id] = NoRequest
  BY DEF Init, new
<1>3. \A e \in Roles : wire[e] = <<>> /\ OnWire(e) = {}
  BY DEF Init, OnWire
<1>4. Heard /\ Agree
  BY <1>2, RolesAre DEF Heard, Agree, NoRequest, Undecided
<1>5. Said /\ Behind
  BY <1>3 DEF Said, Behind
<1>6. \A e \in Roles : GivesOneTrack(ep[e]) /\ TakesOneTrack(ep[e])
  BY <1>2 DEF GivesOneTrack, TakesOneTrack, Same
<1> QED
  BY <1>1, <1>4, <1>5, <1>6 DEF AliasInv

(* At the receiving end one alias never names two tracks, whichever order  *)
(* SUBSCRIBE_OKs, PUBLISHes and their ends cross in: the alias of an offer *)
(* that is accepted is not checked again, and does not need to be.         *)
THEOREM AliasesNameOneTrack == Spec => []AliasNamesOneTrack
<1>1. Init => AliasInv
  BY InitAliasInv
<1>2. AliasInv /\ [Next]_vars => AliasInv'
  BY NextAliasInv
<1>3. AliasInv => AliasNamesOneTrack
  <2> SUFFICES ASSUME AliasInv, NEW e \in Roles, NEW i \in Ids, NEW j \in Ids,
                      Received(ep[e], i), Received(ep[e], j),
                      binding_is_established(ep[e].requests[i]),
                      binding_is_established(ep[e].requests[j]),
                      ep[e].requests[i].alias = ep[e].requests[j].alias
               PROVE  ep[e].requests[i].what = ep[e].requests[j].what
    BY DEF AliasNamesOneTrack
  <2>1. Live(ep[e], i) /\ Live(ep[e], j)
    BY DEF Live, Received, binding_is_established
  <2> QED
    BY <2>1 DEF AliasInv, TakesOneTrack, Same
<1> QED
  BY <1>1, <1>2, <1>3, PTL DEF Spec
=============================================================================
