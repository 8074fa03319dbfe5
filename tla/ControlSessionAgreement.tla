---------------------- MODULE ControlSessionAgreement ----------------------
(***************************************************************************)
(* Why a session is closed, and that its two ends agree once nothing is on *)
(* its way, for any tracks, aliases, namespaces, Request IDs and           *)
(* workloads.  To AliasInv this adds what the control stream holds in      *)
(* order: the Request IDs still to arrive, the answers still to be heard,  *)
(* and the ends still to be told.  Part of it holds of every session, and  *)
(* part only while neither end has closed and no send was dropped.         *)
(***************************************************************************)
EXTENDS ControlSessionProofs

(* A session neither end has closed and in which every send was written.   *)
Clean == Open /\ dropped = 0

(* The two records of a request. *)
Asking(id)    == ep[Owner(id)].requests[id]
Answering(id) == ep[Peer(Owner(id))].requests[id]

AnswerTypes == OkTypes \union ErrorTypes

-----------------------------------------------------------------------------
(* What holds of every session *)

(* An endpoint has a reason to be closed only once it is.                  *)
Closers == \A e \in Roles : ep[e].session # "Closed" => ep[e].closed_for = None

(* The handshake grants at most what was advertised, and the client is up  *)
(* only once it has read the SERVER_SETUP.                                 *)
Greeting ==
  /\ \A e \in Roles : Early(e) => ep[e].max_id = 0
  /\ Early("client") /\ ~Early("server") =>
       /\ wire["client"] # <<>>
       /\ wire["client"][1].type = "SERVER_SETUP" /\ wire["client"][1].id = None
  /\ Early("server") => \A m \in OnWire("server") :
       m.type = "CLIENT_SETUP" /\ (m.id # None => m.id <= ep["client"].advertised_max_id)

(* An endpoint has been granted no more than its peer advertised, and what *)
(* is on its way to it grants more, each time.                             *)
Ceilings ==
  \A e \in Roles :
    /\ ep[e].max_id <= ep[Peer(e)].advertised_max_id
    /\ \A m \in OnWire(e) :
         /\ m.type \in RequestTypes => m.id < ep[e].advertised_max_id
         /\ m.type = "MAX_REQUEST_ID" =>
              ep[e].max_id < m.id /\ m.id <= ep[Peer(e)].advertised_max_id
    /\ \A i, n \in DOMAIN wire[e] :
         i < n /\ wire[e][i].type = "MAX_REQUEST_ID" /\ wire[e][n].type = "MAX_REQUEST_ID"
         => wire[e][i].id < wire[e][n].id

(* A GOAWAY is sent once. *)
GoAways ==
  \A e \in Roles :
    /\ ep[e].session = "Draining" => goaway[Peer(e)] /\ \A m \in OnWire(e) : m.type # "GOAWAY"
    /\ \A m \in OnWire(e) : m.type = "GOAWAY" => goaway[Peer(e)] /\ (e = "server" => m.id = 0)
    /\ \A i, n \in DOMAIN wire[e] :
         i < n => ~(wire[e][i].type = "GOAWAY" /\ wire[e][n].type = "GOAWAY")

(* An update names an earlier subscription of its sender's, and spends a   *)
(* Request ID on no request.                                               *)
Updates ==
  \A e \in Roles : \A m \in OnWire(e) :
    m.type = "SUBSCRIBE_UPDATE" =>
      /\ m.ref < m.id /\ Owner(m.ref) = Peer(e)
      /\ ep[Peer(e)].requests[m.ref].kind = "subscribe"
      /\ ep[Peer(e)].requests[m.id].kind = "none"

(* The states a request of a kind can be in. *)
StatesOf(kind) ==
  CASE kind = "subscribe"    -> {"Subscribing", "Active", "Done"}
    [] kind = "publish"      -> {"Publishing", "Active", "Done"}
    [] kind = "fetch"        -> {"Pending", "Unanswered", "Receiving", "Done"}
    [] kind = "track_status" -> {"Pending", "Done"}
    [] kind = "none"         -> {"Idle"}
    [] OTHER                 -> {"Pending", "Active", "Done"}

Proper ==
  \A e \in Roles : \A id \in Ids :
    ep[e].requests[id].state \in StatesOf(ep[e].requests[id].kind)

(* Both ends have a request of one kind for one track or namespace; only a *)
(* Joining Fetch does not name it.                                         *)
SameTarget ==
  /\ \A id \in Ids : Answering(id).kind \notin {"none", "fetch"} =>
       Asking(id).what = Answering(id).what
  /\ \A e \in Roles : \A m \in OnWire(e) :
       m.type \in RequestTypes \ {"FETCH", "SUBSCRIBE_UPDATE"} =>
         ep[Peer(e)].requests[m.id].what = m.what

(* One answer is on its way for one request, and the asker waits for it.   *)
Replies ==
  \A e \in Roles :
    /\ \A m \in OnWire(e) : m.type \in AnswerTypes =>
         /\ ep[e].requests[m.id].kind = KindOf(m.type)
         /\ KindOf(m.type) # "fetch" => ep[e].requests[m.id].state \in Undecided
    /\ \A i, n \in DOMAIN wire[e] :
         i < n /\ wire[e][i].type \in AnswerTypes /\ wire[e][n].type \in AnswerTypes
         => wire[e][i].id # wire[e][n].id

Refused == \A id \in Ids : verdict[id] = "error" => Answering(id).state = "Done"

(* The answerer decides by answering, or learns that a fetch is cancelled. *)
Decided ==
  \A id \in Ids : Answering(id).state \notin Undecided =>
    verdict[id] # None \/ (Asking(id).kind = "fetch" /\ Asking(id).state = "Done")

(* Both ends of a subscription have its alias.                             *)
AliasAgree ==
  \A id \in Ids : Asking(id).kind = "subscribe" =>
    /\ Asking(id).state = "Active" => Answering(id).alias = Asking(id).alias
    /\ \A m \in OnWire(Owner(id)) : m.type = "SUBSCRIBE_OK" /\ m.id = id =>
         Answering(id).alias = m.alias

(* How e is told that request id is over at the other end, and by what: a  *)
(* namespace by its name, so it must have been announced once.             *)
EndOf(kind, own) ==
  CASE kind = "publish_namespace" ->
         IF own THEN "PUBLISH_NAMESPACE_CANCEL" ELSE "PUBLISH_NAMESPACE_DONE"
    [] kind = "subscribe" -> IF own THEN "PUBLISH_DONE" ELSE "UNSUBSCRIBE"
    [] OTHER -> IF own THEN "UNSUBSCRIBE" ELSE "PUBLISH_DONE"

Tells(e, id, m) ==
  /\ m.type = EndOf(Asking(id).kind, e = Owner(id))
  /\ IF Asking(id).kind = "publish_namespace" THEN m.what = Asking(id).what ELSE m.id = id

Plain(id) ==
  \/ Asking(id).kind \in {"subscribe", "publish"}
  \/ Asking(id).kind = "publish_namespace" /\ ~Reannounced(id)

(* An announcement of ns that e made.                                      *)
Announced(e, ns) ==
  \E id \in Ids : /\ Owner(id) = e /\ ep[e].requests[id].kind = "publish_namespace"
                  /\ ep[e].requests[id].what = ns

(* What is said to be over is over where it was said, and was there.       *)
Told ==
  \A e \in Roles : \A m \in OnWire(e) :
    /\ m.type = "PUBLISH_DONE" => GivenOut(ep[Peer(e)], m.id)
    /\ m.type = "UNSUBSCRIBE" => Received(ep[Peer(e)], m.id)
    /\ m.type = "PUBLISH_NAMESPACE_DONE" => Announced(Peer(e), m.what)
    /\ m.type = "PUBLISH_NAMESPACE_CANCEL" => Announced(e, m.what)
    /\ \A id \in Ids : Plain(id) /\ Tells(e, id, m) => ep[Peer(e)].requests[id].state = "Done"

(* The data stream of a fetch and its two records.                         *)
Fetches ==
  \A id \in Ids :
    /\ stream[id] # "none" => Asking(id).kind = "fetch"
    /\ Asking(id).kind = "fetch" /\ stream[id] \notin {"reset", "was_reset"} =>
         /\ Answering(id).state \in {"Idle", "Pending", "Receiving"} => stream[id] = "none"
         /\ Answering(id).state = "Unanswered" => stream[id] \in {"fin", "finished"}
         /\ Asking(id).state \in {"Pending", "Receiving"} => stream[id] # "finished"
         /\ Asking(id).state = "Unanswered" => stream[id] = "finished"
         /\ Asking(id).state = "Receiving" => verdict[id] = "ok"
         /\ verdict[id] = "ok" /\ Answering(id).state = "Done" /\ Asking(id).state # "Done" =>
              stream[id] \in {"fin", "finished"}

(* No two namespace subscriptions an endpoint has open are for one prefix. *)
OwnPrefixes ==
  \A i, j \in Ids :
    /\ i # j /\ Owner(i) = Owner(j)
    /\ Asking(i).kind = "subscribe_namespace" /\ Asking(j).kind = "subscribe_namespace"
    /\ Asking(i).state # "Done" /\ Asking(j).state # "Done"
    => Asking(i).what # Asking(j).what

-----------------------------------------------------------------------------
(* What holds of a clean one *)

(* The Request IDs the peer has used and e has not seen are on their way,  *)
(* in order.                                                               *)
Sequence ==
  \A e \in Roles :
    /\ ep[e].peer_next_id <= ep[Peer(e)].next_id
    /\ \A m \in OnWire(e) : m.type \in RequestTypes => ep[e].peer_next_id <= m.id
    /\ \A i, n \in DOMAIN wire[e] :
         i < n /\ wire[e][i].type \in RequestTypes /\ wire[e][n].type \in RequestTypes
         => wire[e][i].id < wire[e][n].id
    /\ \A id \in Nat :
         Owner(id) = Peer(e) /\ ep[e].peer_next_id <= id /\ id < ep[Peer(e)].next_id
         => \E m \in OnWire(e) : m.type \in RequestTypes /\ m.id = id

(* What has arrived is on record, unless the endpoint drains.              *)
Noted ==
  \A id \in Ids :
    LET e == Peer(Owner(id))
    IN  /\ ep[e].session # "Draining" /\ id < ep[e].peer_next_id /\ Asking(id).kind # "none"
        => Answering(id).kind # "none"

(* An asker that waits for a verdict that was given has it on the way.     *)
Answered ==
  \A id \in Ids : verdict[id] # None /\ Asking(id).state \in Undecided =>
    \E m \in OnWire(Owner(id)) : m.type \in AnswerTypes /\ m.id = id

(* An end that still has a request the other has ended is being told, and  *)
(* not before it is told that the request was accepted.                    *)
Over ==
  \A id \in Ids : Plain(id) =>
    /\ \A e \in Roles :
         ep[e].requests[id].state = "Active" /\ ep[Peer(e)].requests[id].state = "Done" =>
           \E m \in OnWire(e) : Tells(e, id, m)
    /\ Answering(id).state = "Done" =>
         \A i \in DOMAIN wire[Owner(id)] :
           wire[Owner(id)][i].type \in OkTypes /\ wire[Owner(id)][i].id = id =>
             \E k \in DOMAIN wire[Owner(id)] : i < k /\ Tells(Owner(id), id, wire[Owner(id)][k])

(* A fetch its asker gave up is over, was never recorded, or is cancelled  *)
(* by a message behind the one that asks for it.                           *)
Cancelled ==
  \A id \in { i \in Ids : /\ Asking(i).kind = "fetch" /\ Asking(i).state = "Done"
                          /\ stream[i] \notin {"reset", "was_reset"} } :
    LET e == Peer(Owner(id))
    IN  /\ Answering(id).state \notin {"Idle", "Done"} =>
             \E m \in OnWire(e) : m.type = "FETCH_CANCEL" /\ m.id = id
        /\ ep[e].peer_next_id <= id =>
             \E k, n \in DOMAIN wire[e] :
               /\ k < n /\ wire[e][k].type \in RequestTypes /\ wire[e][k].id = id
               /\ wire[e][n].type = "FETCH_CANCEL" /\ wire[e][n].id = id

(* Namespace subscriptions: the two ends have the same ones open, but for  *)
(* what is on its way, and a prefix is asked for again only behind the     *)
(* message that gives it up.                                               *)
GivesUp(m, prefix) == m.type = "UNSUBSCRIBE_NAMESPACE" /\ m.what = prefix

Inbound(e, id, prefix) ==
  /\ IsPeers(ep[e], id, "subscribe_namespace") /\ ep[e].requests[id].what = prefix
  /\ ep[e].requests[id].state # "Done"

PeerPrefixes ==
  \A e \in Roles : \A i, j \in Ids :
    \A prefix : Inbound(e, i, prefix) /\ Inbound(e, j, prefix) => i = j

Prefixes ==
  \A e \in Roles : \A n \in DOMAIN wire[e] :
    /\ wire[e][n].type = "SUBSCRIBE_NAMESPACE" =>
         \A id \in Ids : Inbound(e, id, wire[e][n].what) =>
           \E k \in DOMAIN wire[e] : k < n /\ GivesUp(wire[e][k], wire[e][n].what)
    /\ wire[e][n].type = "UNSUBSCRIBE_NAMESPACE" =>
         /\ \E id \in Ids : /\ Inbound(e, id, wire[e][n].what)
                            /\ ep[Peer(e)].requests[id].state = "Done"
                            /\ ep[e].requests[id].state = "Active"
         /\ \A k \in DOMAIN wire[e] : GivesUp(wire[e][k], wire[e][n].what) => k = n

NamespaceStates ==
  \A id \in Ids : Asking(id).kind = "subscribe_namespace" =>
    /\ Asking(id).state = "Active" => Answering(id).state = "Active"
    /\ verdict[id] = "ok" /\ Asking(id).state \in Undecided => Answering(id).state = "Active"
    /\ Asking(id).state = "Done" /\ Answering(id).state = "Active" =>
         \E m \in OnWire(Peer(Owner(id))) : GivesUp(m, Asking(id).what)

(* An alias on its way to e is that of one track by the time it arrives.   *)
TrackOf(e, m) == IF m.type = "PUBLISH" THEN m.what ELSE ep[Peer(e)].requests[m.id].what

Freed ==
  \A e \in Roles : \A n \in DOMAIN wire[e] :
    wire[e][n].type \in {"PUBLISH", "SUBSCRIBE_OK"} =>
      /\ \A id \in Ids :
           /\ Received(ep[e], id) /\ ep[e].requests[id].state = "Active"
           /\ ep[e].requests[id].alias = wire[e][n].alias
           /\ ep[e].requests[id].what # TrackOf(e, wire[e][n])
           => \E k \in DOMAIN wire[e] :
                k < n /\ wire[e][k].type = "PUBLISH_DONE" /\ wire[e][k].id = id
      /\ \A i \in DOMAIN wire[e] :
           /\ i < n /\ wire[e][i].type = "SUBSCRIBE_OK" /\ wire[e][i].alias = wire[e][n].alias
           /\ TrackOf(e, wire[e][i]) # TrackOf(e, wire[e][n])
           => \E k \in DOMAIN wire[e] : /\ i < k /\ k < n /\ wire[e][k].type = "PUBLISH_DONE"
                                        /\ wire[e][k].id = wire[e][i].id

-----------------------------------------------------------------------------
(* The state machines, move by move *)

(* Where each move leads. *)
LEMMA Moving ==
  ASSUME NEW kind, NEW state, NEW event, NEW to, <<state, event, to>> \in Moves(kind)
  PROVE  /\ kind \in Kinds /\ state \in StatesOf(kind) /\ to \in StatesOf(kind)
         /\ event = "ok" => \/ to = "Active" /\ kind \notin {"fetch", "track_status"}
                            \/ to = "Done" /\ kind = "track_status"
                            \/ kind = "fetch" /\ state = "Pending" /\ to = "Receiving"
                            \/ kind = "fetch" /\ state = "Unanswered" /\ to = "Done"
         /\ event \in {"unsubscribe", "done", "cancel"} =>
              /\ to = "Done"
              /\ kind # "fetch" => state \in {"Active", "Done"}
              /\ state = "Done" => kind = "subscribe" /\ event = "done"
              /\ event = "cancel" => kind \in {"fetch", "publish_namespace"}
         /\ event = "end" => \/ state = "Pending" /\ to = "Unanswered"
                             \/ state \in {"Receiving", "Done"} /\ to = "Done"
<1>1. CASE kind = "subscribe"
  <2>1. <<state, event, to>> \in SubscriptionMoves
    BY <1>1 DEF Moves
  <2> QED
    BY <1>1, <2>1 DEF SubscriptionMoves, StatesOf, Kinds
<1>2. CASE kind = "publish"
  <2>1. <<state, event, to>> \in PublishMoves
    BY <1>2 DEF Moves
  <2> QED
    BY <1>2, <2>1 DEF PublishMoves, StatesOf, Kinds
<1>3. CASE kind = "fetch"
  <2>1. <<state, event, to>> \in FetchMoves
    BY <1>3 DEF Moves
  <2> QED
    BY <1>3, <2>1 DEF FetchMoves, StatesOf, Kinds
<1>4. CASE kind = "subscribe_namespace"
  <2>1. <<state, event, to>> \in SubscribeNamespaceMoves
    BY <1>4 DEF Moves
  <2> QED
    BY <1>4, <2>1 DEF SubscribeNamespaceMoves, StatesOf, Kinds
<1>5. CASE kind = "publish_namespace"
  <2>1. <<state, event, to>> \in PublishNamespaceMoves
    BY <1>5 DEF Moves
  <2> QED
    BY <1>5, <2>1 DEF PublishNamespaceMoves, StatesOf, Kinds
<1>6. CASE kind = "track_status"
  <2>1. <<state, event, to>> \in TrackStatusMoves
    BY <1>6 DEF Moves
  <2> QED
    BY <1>6, <2>1 DEF TrackStatusMoves, StatesOf, Kinds
<1> QED
  BY <1>1, <1>2, <1>3, <1>4, <1>5, <1>6 DEF Moves

(* And when there is one. *)
LEMMA Able ==
  ASSUME NEW kind \in Kinds, NEW state \in StatesOf(kind)
  PROVE  /\ state \in Undecided => Can(kind, state, "ok") /\ Can(kind, state, "error")
         /\ state = "Active" =>
              /\ kind # "publish_namespace" => Can(kind, state, "unsubscribe")
              /\ kind # "subscribe_namespace" => Can(kind, state, "done")
              /\ kind = "publish_namespace" => Can(kind, state, "cancel")
         /\ kind = "fetch" => /\ state # "Done" => Can(kind, state, "cancel")
                              /\ state # "Unanswered" => Can(kind, state, "end")
<1>1. CASE kind = "subscribe"
  BY <1>1 DEF Can, Moves, SubscriptionMoves, StatesOf, States, Undecided
<1>2. CASE kind = "publish"
  BY <1>2 DEF Can, Moves, PublishMoves, StatesOf, States, Undecided
<1>3. CASE kind = "fetch"
  BY <1>3 DEF Can, Moves, FetchMoves, StatesOf, States, Undecided
<1>4. CASE kind = "subscribe_namespace"
  BY <1>4 DEF Can, Moves, SubscribeNamespaceMoves, StatesOf, States, Undecided
<1>5. CASE kind = "publish_namespace"
  BY <1>5 DEF Can, Moves, PublishNamespaceMoves, StatesOf, States, Undecided
<1>6. CASE kind = "track_status"
  BY <1>6 DEF Can, Moves, TrackStatusMoves, StatesOf, States, Undecided
<1> QED
  BY <1>1, <1>2, <1>3, <1>4, <1>5, <1>6 DEF Kinds

-----------------------------------------------------------------------------
(* Steps, and what each writes and moves *)

(* Message m of e's says that request id is over. *)
Names(e, id, m) ==
  \/ m.type = "UNSUBSCRIBE" /\ m.id = id /\ Received(ep[e], id)
  \/ m.type = "PUBLISH_DONE" /\ m.id = id /\ GivenOut(ep[e], id)
  \/ m.type = "FETCH_CANCEL" /\ m.id = id /\ IsOwn(ep[e], id, "fetch")
  \/ /\ m.what = ep[e].requests[id].what
     /\ \/ m.type = "UNSUBSCRIBE_NAMESPACE" /\ IsOwn(ep[e], id, "subscribe_namespace")
        \/ m.type = "PUBLISH_NAMESPACE_DONE" /\ IsOwn(ep[e], id, "publish_namespace")
        \/ m.type = "PUBLISH_NAMESPACE_CANCEL" /\ IsPeers(ep[e], id, "publish_namespace")

Farewell(e, t, id, m) ==
  /\ Names(e, id, m) /\ t.requests[id].state = "Done"
  /\ ep[e].requests[id].kind # "fetch" => ep[e].requests[id].state \in {"Active", "Done"}
  /\ ep[e].requests[id].state = "Done" => ep[e].requests[id].kind = "subscribe"

(* The first of the messages are written, and then the future is dropped.  *)
PostsSome(e, ms) ==
  \E some \in Seq(Messages) :
    /\ Posts(e, some)
    /\ \A n \in DOMAIN some : n \in DOMAIN ms /\ some[n] = ms[n]

(* Requests end at e, and the peer is told of each. *)
Leaving(e, t, ms) ==
  /\ Open /\ Wrote(e, ms) /\ (PostsSome(e, ms) \/ wire' = wire)
  /\ Alike(ep[e], t) /\ Steady(ep[e], t) /\ t.session = ep[e].session
  /\ UNCHANGED <<stream, goaway, verdict>>
  /\ \A n \in DOMAIN ms : \E id \in Ids : Farewell(e, t, id, ms[n])
  /\ \A id \in Ids :
       \/ t.requests[id] = ep[e].requests[id]
       \/ /\ \E n \in DOMAIN ms : Farewell(e, t, id, ms[n])
          /\ t.requests[id].kind = ep[e].requests[id].kind
          /\ t.requests[id].what = ep[e].requests[id].what
          /\ t.requests[id].alias = ep[e].requests[id].alias
  /\ \A n, k \in DOMAIN ms : n = k \/ ms[n].type \in {"UNSUBSCRIBE", "FETCH_CANCEL"}

(* The data stream of fetch id ends, at the end that writes it or at the   *)
(* other.                                                                  *)
Streaming(e, t, id) ==
  LET Turns == Changed(ep[e], t, id, "end", ep[e].requests[id].alias)
  IN  /\ Open /\ UNCHANGED <<wire, goaway, verdict, dropped>>
      /\ ep[e].requests[id].kind = "fetch"
      /\ \/ /\ Owner(id) # e /\ stream[id] = "none" /\ stream' = [stream EXCEPT ![id] = "fin"]
            /\ ep[e].requests[id].state \in {"Pending", "Receiving"} /\ Turns
         \/ /\ Owner(id) # e /\ stream[id] = "none" /\ stream' = [stream EXCEPT ![id] = "reset"]
            /\ t = ep[e]
         \/ /\ Owner(id) = e /\ stream[id] = "fin" /\ stream' = [stream EXCEPT ![id] = "finished"]
            /\ IF CanMove(ep[e], id, "end") THEN Turns ELSE t = ep[e]
         \/ /\ Owner(id) = e /\ stream[id] = "reset" /\ stream' = [stream EXCEPT ![id] = "was_reset"]
            /\ t = ep[e] \/ Turns

(* A ceiling, a request for one, or the GOAWAY. *)
Counting(e, t, m) ==
  /\ Open /\ Wrote(e, <<m>>) /\ (Posts(e, <<m>>) \/ wire' = wire)
  /\ Quiet(ep[e], t) /\ t.session = ep[e].session /\ t.closed_for = ep[e].closed_for
  /\ t.max_id = ep[e].max_id /\ UNCHANGED <<stream, verdict>>
  /\ \/ /\ m.type = "MAX_REQUEST_ID" /\ m.id = t.advertised_max_id
        /\ t.advertised_max_id > ep[e].advertised_max_id /\ goaway' = goaway
     \/ m.type = "REQUESTS_BLOCKED" /\ Steady(ep[e], t) /\ goaway' = goaway
     \/ /\ m.type = "GOAWAY" /\ Steady(ep[e], t) /\ ~goaway[e] /\ goaway' = [goaway EXCEPT ![e] = TRUE]
        /\ m.id = IF e = "server" THEN 1 ELSE 0

(* A message is read. *)
Taking(e, t, m) ==
  /\ Open /\ Reading(e, t, m) /\ t \in receive_message(ep[e], m)
  /\ ep[e].session \in {"Active", "Draining"}
  /\ UNCHANGED <<stream, goaway, dropped>>

(* The handshake. *)
Shaken(e, t) ==
  /\ Early(e) /\ Quiet(ep[e], t) /\ t.closed_for = ep[e].closed_for
  /\ t.session # "Closed" /\ t.session # "Draining"
  /\ UNCHANGED <<stream, goaway, verdict, dropped>>
  /\ adopt_offering \/ AcceptConnection \/ AcceptSetup \/ FinishSetup

Shape(e, t) ==
  \/ \E m \in Messages : \/ Opening(e, t, m) \/ Deciding(e, t, m)
                         \/ Counting(e, t, m) \/ Taking(e, t, m)
  \/ \E ms \in Seq(Messages) : Leaving(e, t, ms)
  \/ \E id \in Ids : Streaming(e, t, id)
  \/ Shaken(e, t)

Step(e, t) == Stepped(e, t) /\ Shape(e, t)

(* The endpoint that a step is at. *)
LEMMA SteppedAt ==
  ASSUME TypeOK, NEW e \in Roles, NEW t, Stepped(e, t)
  PROVE  t = ep'[e] /\ ep[e] \in Endpoints /\ ep[e].role = e
BY AtIs DEF Stepped

(* An end and its message. *)
LEMMA SendMoveLeaves ==
  ASSUME TypeOK, Setup, NEW e \in Roles, NEW id \in Ids,
         NEW event \in {"unsubscribe", "done", "cancel"}, NEW m \in Messages, WellFormed(m),
         m.type \in EndTypes \union AboutTypes, Names(e, id, m), SendMove(e, id, event, m)
  PROVE  <<m>> \in Seq(Messages) /\ Leaving(e, ep'[e], <<m>>)
<1> DEFINE s == ep[e]
           t == Moved(s, id, event)
<1>1. CanMove(s, id, event) /\ Send(e, t, m) /\ UNCHANGED <<load, stream, goaway, verdict>>
  BY DEF SendMove
<1>2. ~Early(e) /\ s \in Endpoints /\ s.role = e
  BY <1>1, MovableIs
<1>3. t \in Endpoints /\ Changed(s, t, id, event, s.requests[id].alias)
  BY <1>1, <1>2, MovedIs
<1> HIDE DEF t
<1>4. t.role = e
  BY <1>2, <1>3 DEF Changed, Alike
<1>5. m.type \notin SetupTypes
  BY DEF EndTypes, AboutTypes, SetupTypes
<1>6. At(e, t) /\ (Posts(e, <<m>>) \/ wire' = wire) /\ Wrote(e, <<m>>)
  BY <1>1, <1>2, <1>3, <1>4, <1>5, SendIs
<1>7. ep'[e] = t
  BY <1>6, AtIs
<1>8. Farewell(e, t, id, m)
  BY <1>3, Moving DEF Farewell, Changed
<1>9. DOMAIN <<m>> = {1} /\ <<m>>[1] = m /\ <<m>> \in Seq(Messages)
  OBVIOUS
<1>9a. PostsSome(e, <<m>>) \/ wire' = wire
  BY <1>6, <1>9 DEF PostsSome
<1>10. Leaving(e, t, <<m>>)
  BY <1>1, <1>3, <1>6, <1>8, <1>9, <1>9a DEF Leaving, Changed, Send
<1> QED
  BY <1>7, <1>9, <1>10

(* One that names a Request ID. *)
LEMMA PlainMoveLeaves ==
  ASSUME TypeOK, Setup, NEW e \in Roles, NEW id \in Ids, NEW type \in EndTypes,
         NEW event \in {"unsubscribe", "done", "cancel"},
         type = "UNSUBSCRIBE" => Received(ep[e], id), type = "PUBLISH_DONE" => GivenOut(ep[e], id),
         type = "FETCH_CANCEL" => IsOwn(ep[e], id, "fetch"),
         SendMove(e, id, event, Msg(type, id))
  PROVE  \E ms \in Seq(Messages) : Leaving(e, ep'[e], ms)
<1> DEFINE m == Msg(type, id)
<1>1. id \in Nat /\ type \in MessageTypes
  BY EndpointAssumption DEF MessageTypes
<1>2. m \in Messages /\ m.type = type /\ m.id = id /\ m.alias = None
  BY <1>1, PlainMsgIs
<1>3. SendMove(e, id, event, m)
  OBVIOUS
<1> HIDE DEF m
<1>4. WellFormed(m) /\ m.type \in EndTypes \union AboutTypes
  BY <1>2 DEF WellFormed, EndTypes, CountTypes
<1>5. Names(e, id, m)
  BY <1>2 DEF Names, EndTypes
<1> QED
  BY <1>2, <1>3, <1>4, <1>5, SendMoveLeaves

(* One that names a namespace. *)
LEMMA AboutMoveLeaves ==
  ASSUME TypeOK, Setup, NEW e \in Roles, NEW id \in Ids, NEW type \in AboutTypes,
         NEW event \in {"unsubscribe", "done", "cancel"},
         type = "UNSUBSCRIBE_NAMESPACE" => IsOwn(ep[e], id, "subscribe_namespace"),
         type = "PUBLISH_NAMESPACE_DONE" => IsOwn(ep[e], id, "publish_namespace"),
         type = "PUBLISH_NAMESPACE_CANCEL" => IsPeers(ep[e], id, "publish_namespace"),
         NEW what, what = ep[e].requests[id].what,
         SendMove(e, id, event, About(type, what))
  PROVE  \E ms \in Seq(Messages) : Leaving(e, ep'[e], ms)
<1> DEFINE m == About(type, what)
<1>1. type \in MessageTypes /\ what \in Tracks \union Namespaces \union {None}
  BY DEF MessageTypes, TypeOK, Endpoints, Requests
<1>2. m \in Messages /\ m.type = type /\ m.what = what
  <2>1. m = [type |-> type, id |-> None, what |-> what, alias |-> None, ref |-> None]
    BY DEF About, Msg
  <2> HIDE DEF m
  <2> QED
    BY <1>1, <2>1 DEF Messages
<1>3. SendMove(e, id, event, m)
  OBVIOUS
<1> HIDE DEF m
<1>4. WellFormed(m) /\ m.type \in EndTypes \union AboutTypes
  BY <1>2 DEF WellFormed, EndTypes, CountTypes, AboutTypes, RequestTypes, OkTypes, ErrorTypes
<1>5. Names(e, id, m)
  BY <1>2 DEF Names, AboutTypes
<1> QED
  BY <1>2, <1>3, <1>4, <1>5, SendMoveLeaves

(* The messages of a withdrawal: one for each request, in order.           *)
LEMMA SortedIs ==
  ASSUME NEW ids, ids \subseteq Ids, NEW order \in Sorted(ids)
  PROVE  /\ Cardinality(ids) \in Nat /\ order \in [1..Cardinality(ids) -> ids]
         /\ \A id \in ids : \E n \in 1..Cardinality(ids) : order[n] = id
<1> DEFINE c == Cardinality(ids)
<1>1. IsFiniteSet(ids)
  BY SessionAssumption, FS_Subset
<1>2. c \in Nat
  BY <1>1, FS_CardinalityType
<1> HIDE DEF c
<1>3. order \in [1..c -> ids] /\ \A m, n \in 1..c : m < n => order[m] < order[n]
  BY DEF Sorted, c
<1>4. \A m, n \in 1..c : order[m] = order[n] => m = n
  <2> SUFFICES ASSUME NEW m \in 1..c, NEW n \in 1..c, order[m] = order[n]
               PROVE  m = n
    OBVIOUS
  <2>1. order[m] \in Nat /\ order[n] \in Nat
    BY <1>3, EndpointAssumption
  <2>2. m \in Nat /\ n \in Nat
    BY <1>2
  <2> QED
    BY <1>3, <2>1, <2>2
<1>5. order \in Injection(1..c, ids)
  BY <1>3, <1>4 DEF Injection, IsInjective
<1>6. Cardinality(1..c) = c
  <2>1. 1 \in Int /\ c \in Int /\ 0 + 1 = 1
    BY <1>2
  <2>2. Cardinality(1..c) = IF 1 > c THEN 0 ELSE c - 1 + 1
    BY <2>1, FS_Interval
  <2> QED
    BY <1>2, <2>2
<1>7. order \in Surjection(1..c, ids)
  BY <1>1, <1>5, <1>6, FS_Injection DEF c
<1> QED
  BY <1>2, <1>3, <1>7 DEF Surjection, c

(* Which request a withdrawal ends, and by which message.                  *)
LEMMA WithdrawnIs ==
  ASSUME NEW s \in Endpoints, NEW id \in Ids, withdraw_one(s, id) # s, NEW what,
         InUse(s, id, what)
  PROVE  /\ withdraw_one(s, id) \in Endpoints
         /\ \E event \in {"unsubscribe", "cancel"} :
              Changed(s, withdraw_one(s, id), id, event, s.requests[id].alias)
         /\ IF s.requests[id].kind = "fetch" THEN IsOwn(s, id, "fetch") ELSE Received(s, id)
<1>1. CASE IsOwn(s, id, "fetch")
  <2>1. withdraw_one(s, id) = Move(s, id, "cancel") /\ s.requests[id].kind = "fetch"
    BY <1>1 DEF withdraw_one, IsOwn, IsPeers
  <2> QED
    BY <1>1, <2>1, MoveIs
<1>2. CASE IsOwn(s, id, "subscribe")
  <2>1. withdraw_one(s, id) = Move(s, id, "unsubscribe") /\ s.requests[id].kind # "fetch"
    BY <1>2 DEF withdraw_one, IsOwn, IsPeers
  <2> QED
    BY <1>2, <2>1, MoveIs DEF Received
<1>3. CASE IsPeers(s, id, "publish")
  <2>1. withdraw_one(s, id) = Move(s, id, "unsubscribe") /\ s.requests[id].kind # "fetch"
    BY <1>3 DEF withdraw_one, IsOwn, IsPeers
  <2> QED
    BY <1>3, <2>1, MoveIs DEF Received
<1> QED
  BY <1>1, <1>2, <1>3 DEF withdraw_one

(* A withdrawal from a malformed track. *)
LEMMA WithdrawLeaves ==
  ASSUME TypeOK, Setup, NEW e \in Roles, NEW alias \in Aliases, withdraw_malformed_track(e, alias)
  PROVE  \E ms \in Seq(Messages) : Leaving(e, ep'[e], ms)
<1> DEFINE s == ep[e]
<1>1. s \in Endpoints /\ s.role = e /\ s.requests \in [Ids -> Requests] /\ ep \in [Roles -> Endpoints]
  BY DEF TypeOK, Endpoints
<1>2. PICK track \in track_for_alias(s, alias) :
        /\ Open /\ WithdrawnIds(s, track) # {}
        /\ ep' = [ep EXCEPT ![e].requests =
                     [id \in Ids |-> IF id \in WithdrawnIds(s, track)
                                     THEN withdraw_one(s, id).requests[id] ELSE @[id]]]
        /\ \E order \in Sorted(WithdrawnIds(s, track)),
              written \in 0..Cardinality(WithdrawnIds(s, track)) :
             /\ wire' = [wire EXCEPT ![Peer(e)] =
                            @ \o SubSeq(Withdrawals(s, order), 1, written)]
             /\ dropped' = IF written = Cardinality(WithdrawnIds(s, track))
                           THEN dropped ELSE dropped + 1
             /\ dropped' <= load.drops
        /\ UNCHANGED <<load, stream, goaway, verdict>>
  BY DEF withdraw_malformed_track
<1> DEFINE ids == WithdrawnIds(s, track)
           reqs == [id \in Ids |-> IF id \in ids THEN withdraw_one(s, id).requests[id]
                                   ELSE s.requests[id]]
           t == [s EXCEPT !.requests = reqs]
<1>3. ASSUME NEW id \in ids
      PROVE  /\ id \in Ids /\ withdraw_one(s, id) \in Endpoints
             /\ \E event \in {"unsubscribe", "cancel"} :
                  Changed(s, withdraw_one(s, id), id, event, s.requests[id].alias)
             /\ IF s.requests[id].kind = "fetch" THEN IsOwn(s, id, "fetch") ELSE Received(s, id)
  <2>1. id \in Ids /\ withdraw_one(s, id) # s /\ InUse(s, id, track)
    BY DEF WithdrawnIds
  <2> HIDE DEF s
  <2> QED
    BY <1>1, <2>1, WithdrawnIs
<1>4. ep'[e] = t
  BY <1>1, <1>2 DEF ids
<1>5. PICK order \in Sorted(ids), written \in 0..Cardinality(ids) :
        /\ wire' = [wire EXCEPT ![Peer(e)] = @ \o SubSeq(Withdrawals(s, order), 1, written)]
        /\ dropped' = IF written = Cardinality(ids) THEN dropped ELSE dropped + 1
  BY <1>2 DEF ids
<1>6. ids \subseteq Ids
  BY DEF WithdrawnIds
<1>7. ids # {}
  BY <1>2
<1> HIDE DEF ids
<1>8. /\ Alike(s, t) /\ Steady(s, t) /\ t.session = s.session /\ t.requests = reqs
  BY <1>1 DEF Endpoints, Alike, Steady
<1> HIDE DEF t
<1>9. ASSUME NEW id \in ids
      PROVE  /\ t.requests[id].state = "Done" /\ t.requests[id].kind = s.requests[id].kind
             /\ t.requests[id].what = s.requests[id].what
             /\ t.requests[id].alias = s.requests[id].alias
             /\ s.requests[id].state # "Done" /\ s.requests[id].kind \in Kinds
             /\ s.requests[id].kind # "fetch" => s.requests[id].state = "Active"
  <2>1. t.requests[id] = withdraw_one(s, id).requests[id]
    BY <1>6, <1>8
  <2>2. PICK event \in {"unsubscribe", "cancel"} :
          Changed(s, withdraw_one(s, id), id, event, s.requests[id].alias)
    BY <1>3
  <2> QED
    BY <2>1, <2>2, Moving DEF Changed
<1>10. \A id \in Ids \ ids : t.requests[id] = s.requests[id]
  BY <1>8
<1> HIDE DEF reqs
<1> DEFINE c == Cardinality(ids)
           ms == Withdrawals(s, order)
           some == SubSeq(ms, 1, written)
<1>11. /\ c \in Nat /\ order \in [1..c -> ids]
       /\ \A id \in ids : \E n \in 1..c : order[n] = id
  BY <1>5, <1>6, SortedIs
<1>11a. written \in Nat /\ written <= c /\ dropped' = IF written = c THEN dropped ELSE dropped + 1
  BY <1>5, <1>11
<1> HIDE DEF c
<1>12. ASSUME NEW n \in 1..c
       PROVE  /\ ms[n] \in Messages /\ WellFormed(ms[n]) /\ ms[n].type \notin SetupTypes
              /\ ms[n].type \in {"UNSUBSCRIBE", "FETCH_CANCEL"}
              /\ order[n] \in Ids /\ Farewell(e, t, order[n], ms[n])
  <2> DEFINE id == order[n]
             type == IF s.requests[id].kind = "fetch" THEN "FETCH_CANCEL" ELSE "UNSUBSCRIBE"
  <2>1. id \in ids /\ id \in Ids /\ id \in Nat
    BY <1>6, <1>11, EndpointAssumption
  <2>2. ms[n] = Msg(type, id)
    BY <1>11 DEF Withdrawals
  <2>3. type \in {"UNSUBSCRIBE", "FETCH_CANCEL"} /\ type \in MessageTypes
    BY DEF EndTypes, MessageTypes
  <2>4. ms[n] \in Messages /\ ms[n].type = type /\ ms[n].id = id
    BY <2>1, <2>2, <2>3, PlainMsgIs
  <2>5. IF type = "FETCH_CANCEL" THEN IsOwn(s, id, "fetch") ELSE type = "UNSUBSCRIBE" /\ Received(s, id)
    BY <1>3, <2>1
  <2> HIDE DEF type, id, ms
  <2>6. WellFormed(ms[n]) /\ ms[n].type \notin SetupTypes
    BY <2>1, <2>3, <2>4 DEF WellFormed, EndTypes, SetupTypes, CountTypes
  <2>7. Farewell(e, t, id, ms[n])
    BY <1>9, <2>1, <2>4, <2>5 DEF Farewell, Names
  <2> QED
    BY <2>1, <2>3, <2>4, <2>6, <2>7 DEF id
<1>13. ms \in Seq(Messages) /\ DOMAIN ms = 1..c
  <2>1. ms = [n \in 1..c |-> ms[n]]
    BY <1>11 DEF Withdrawals
  <2> HIDE DEF ms
  <2> QED
    BY <1>11, <1>12, <2>1
<1> HIDE DEF ms
<1>14. ~Early(e)
  <2>1. PICK id : id \in ids
    BY <1>7
  <2>2. s.requests[id] # NoRequest /\ id \in Ids
    BY <1>6, <1>9, <2>1 DEF NoRequest, Kinds
  <2> QED
    BY <2>2 DEF Setup
<1>14a. /\ some \in Seq(Messages) /\ DOMAIN some = 1..written
        /\ \A n \in DOMAIN some : n \in 1..c /\ some[n] = ms[n]
        /\ written = c => some = ms
  <2>1. Len(ms) = c
    BY <1>11, <1>13
  <2> QED
    BY <1>11, <1>11a, <1>13, <2>1
<1>14b. wire' = [wire EXCEPT ![Peer(e)] = @ \o some]
  BY <1>5 DEF ms
<1> HIDE DEF some
<1>14c. Posts(e, some)
  BY <1>12, <1>14, <1>14a, <1>14b DEF Posts
<1>15. PostsSome(e, ms) /\ Wrote(e, ms)
  <2>1. PostsSome(e, ms)
    BY <1>13, <1>14a, <1>14c DEF PostsSome
  <2>2. dropped' = 0 => dropped = 0 /\ written = c
    BY <1>11a DEF TypeOK
  <2> QED
    BY <1>14a, <1>14c, <2>1, <2>2 DEF Wrote
<1>16. \A id \in Ids :
         \/ t.requests[id] = ep[e].requests[id]
         \/ /\ \E n \in DOMAIN ms : Farewell(e, t, id, ms[n])
            /\ t.requests[id].kind = ep[e].requests[id].kind
            /\ t.requests[id].what = ep[e].requests[id].what
            /\ t.requests[id].alias = ep[e].requests[id].alias
  <2> SUFFICES ASSUME NEW id \in ids
               PROVE  /\ \E n \in DOMAIN ms : Farewell(e, t, id, ms[n])
                      /\ t.requests[id].kind = ep[e].requests[id].kind
                      /\ t.requests[id].what = ep[e].requests[id].what
                      /\ t.requests[id].alias = ep[e].requests[id].alias
    BY <1>10
  <2>1. PICK n \in 1..c : order[n] = id
    BY <1>11
  <2> QED
    BY <1>9, <1>12, <1>13, <2>1
<1>17. Leaving(e, t, ms)
  <2>1. \A n \in DOMAIN ms : \E id \in Ids : Farewell(e, t, id, ms[n])
    BY <1>12, <1>13
  <2>2. \A n, k \in DOMAIN ms : n = k \/ ms[n].type \in {"UNSUBSCRIBE", "FETCH_CANCEL"}
    BY <1>12, <1>13
  <2> QED
    BY <1>2, <1>8, <1>15, <1>16, <2>1, <2>2 DEF Leaving
<1> QED
  BY <1>4, <1>13, <1>17

(* Every way to end a request tells the peer, or is the end of a stream.   *)
LEMMA EndsShape ==
  ASSUME TypeOK, Setup, NEW e \in Roles, Ends(e)
  PROVE  Shape(e, ep'[e])
<1> DEFINE s == ep[e]
<1>1. s \in Endpoints /\ s.role = e /\ ep \in [Roles -> Endpoints]
  BY DEF TypeOK
<1>2. ASSUME \E ms \in Seq(Messages) : Leaving(e, ep'[e], ms)
      PROVE  Shape(e, ep'[e])
  BY <1>2 DEF Shape
<1>3. ASSUME NEW id \in Ids, unsubscribe(e, id)
      PROVE  Shape(e, ep'[e])
  <2>1. /\ SendMove(e, id, "unsubscribe", Msg("UNSUBSCRIBE", id)) /\ "UNSUBSCRIBE" \in EndTypes
        /\ Received(s, id)
    BY <1>3 DEF unsubscribe, EndTypes, Received
  <2> QED
    BY <1>2, <2>1, PlainMoveLeaves
<1>4. ASSUME NEW id \in Ids, send_publish_done(e, id)
      PROVE  Shape(e, ep'[e])
  <2>1. /\ SendMove(e, id, "done", Msg("PUBLISH_DONE", id)) /\ "PUBLISH_DONE" \in EndTypes
        /\ GivenOut(s, id)
    BY <1>4 DEF send_publish_done, EndTypes, GivenOut
  <2> QED
    BY <1>2, <2>1, PlainMoveLeaves
<1>5. ASSUME NEW id \in Ids, fetch_cancel(e, id)
      PROVE  Shape(e, ep'[e])
  <2>1. /\ SendMove(e, id, "cancel", Msg("FETCH_CANCEL", id)) /\ "FETCH_CANCEL" \in EndTypes
        /\ IsOwn(s, id, "fetch")
    BY <1>5 DEF fetch_cancel, EndTypes
  <2> QED
    BY <1>2, <2>1, PlainMoveLeaves
<1>6. ASSUME NEW id \in Ids, unsubscribe_namespace(e, id)
      PROVE  Shape(e, ep'[e])
  <2>1. /\ SendMove(e, id, "unsubscribe", About("UNSUBSCRIBE_NAMESPACE", s.requests[id].what))
        /\ "UNSUBSCRIBE_NAMESPACE" \in AboutTypes /\ IsOwn(s, id, "subscribe_namespace")
    BY <1>6 DEF unsubscribe_namespace, AboutTypes
  <2> QED
    BY <1>2, <2>1, AboutMoveLeaves
<1>7. ASSUME NEW ns \in Namespaces, publish_namespace_done(e, ns)
      PROVE  Shape(e, ep'[e])
  <2>1. PICK id \in own_publish_namespace_ids(s, ns) :
          SendMove(e, id, "done", About("PUBLISH_NAMESPACE_DONE", ns))
    BY <1>7 DEF publish_namespace_done
  <2>2. /\ id \in Ids /\ IsOwn(s, id, "publish_namespace") /\ ns = s.requests[id].what
        /\ "PUBLISH_NAMESPACE_DONE" \in AboutTypes
    BY <2>1 DEF own_publish_namespace_ids, AboutTypes
  <2> QED
    BY <1>2, <2>1, <2>2, AboutMoveLeaves
<1>8. ASSUME NEW ns \in Namespaces, publish_namespace_cancel(e, ns)
      PROVE  Shape(e, ep'[e])
  <2>1. PICK id \in inbound_publish_namespace_ids(s, ns) :
          SendMove(e, id, "cancel", About("PUBLISH_NAMESPACE_CANCEL", ns))
    BY <1>8 DEF publish_namespace_cancel
  <2>2. /\ id \in Ids /\ IsPeers(s, id, "publish_namespace") /\ ns = s.requests[id].what
        /\ "PUBLISH_NAMESPACE_CANCEL" \in AboutTypes
    BY <2>1 DEF inbound_publish_namespace_ids, AboutTypes
  <2> QED
    BY <1>2, <2>1, <2>2, AboutMoveLeaves
<1>9. ASSUME NEW id \in Ids, FinishFetchStream(e, id)
      PROVE  Streaming(e, ep'[e], id)
  <2>1. /\ Open /\ IsPeers(s, id, "fetch") /\ stream[id] = "none"
        /\ s.requests[id].state \in {"Pending", "Receiving"}
        /\ ep'[e] = MovePeers(s, id, "fetch", "end") /\ stream' = [stream EXCEPT ![id] = "fin"]
        /\ UNCHANGED <<load, wire, goaway, verdict, dropped>>
    BY <1>1, <1>9 DEF FinishFetchStream, on_peer_fetch_stream_fin
  <2>2. CanMove(s, id, "end")
    BY <2>1, Able DEF CanMove, IsPeers, StatesOf, Kinds
  <2>3. Changed(s, ep'[e], id, "end", s.requests[id].alias)
    BY <1>1, <2>1, <2>2, MovedIs DEF MovePeers, Move
  <2> QED
    BY <1>1, <2>1, <2>3 DEF Streaming, IsPeers
<1>10. ASSUME NEW id \in Ids, ResetFetchStream(e, id)
       PROVE  Streaming(e, ep'[e], id)
  BY <1>1, <1>10 DEF ResetFetchStream, Streaming, IsPeers
<1>11. ASSUME NEW id \in Ids, FetchStreamEnds(e, id)
       PROVE  Streaming(e, ep'[e], id)
  <2>1. /\ Open /\ IsOwn(s, id, "fetch") /\ ep'[e] = MoveOwn(s, id, "fetch", "end")
        /\ \/ stream[id] = "fin" /\ stream' = [stream EXCEPT ![id] = "finished"]
           \/ stream[id] = "reset" /\ stream' = [stream EXCEPT ![id] = "was_reset"]
        /\ UNCHANGED <<load, wire, goaway, verdict, dropped>>
    BY <1>1, <1>11 DEF FetchStreamEnds, on_fetch_stream_fin, on_fetch_stream_reset
  <2>2. IF CanMove(s, id, "end") THEN Changed(s, ep'[e], id, "end", s.requests[id].alias)
        ELSE ep'[e] = s
    BY <1>1, <2>1, MovedIs DEF MoveOwn, Move
  <2> QED
    BY <1>1, <2>1, <2>2 DEF Streaming, IsOwn
<1>12. ASSUME NEW alias \in Aliases, withdraw_malformed_track(e, alias)
       PROVE  Shape(e, ep'[e])
  BY <1>2, <1>12, WithdrawLeaves
<1> QED
  BY <1>3, <1>4, <1>5, <1>6, <1>7, <1>8, <1>9, <1>10, <1>11, <1>12 DEF Ends, Shape

(* Ceilings and the GOAWAY. *)
LEMMA SessionShape ==
  ASSUME TypeOK, NEW e \in Roles, Session(e)
  PROVE  \E m \in Messages : Counting(e, ep'[e], m)
<1> DEFINE s == ep[e]
<1>1. s \in Endpoints /\ s.role = e
  BY DEF TypeOK
<1>2. ASSUME NEW type \in CountTypes, NEW n \in Nat, NEW t \in Endpoints, t.role = e,
             s.session \in {"Active", "Draining"}, Send(e, t, Msg(type, n))
      PROVE  /\ Msg(type, n) \in Messages /\ Msg(type, n).type = type /\ Msg(type, n).id = n
             /\ Open /\ Wrote(e, <<Msg(type, n)>>) /\ (Posts(e, <<Msg(type, n)>>) \/ wire' = wire)
             /\ ep'[e] = t
  <2> DEFINE m == Msg(type, n)
  <2>1. type \in MessageTypes
    BY DEF MessageTypes
  <2>2. m \in Messages /\ m.type = type /\ m.id = n
    BY <2>1, PlainMsgIs
  <2>3. Send(e, t, m)
    BY <1>2
  <2> HIDE DEF m
  <2>4. WellFormed(m) /\ m.type \notin SetupTypes
    BY <2>2 DEF WellFormed, SetupTypes, CountTypes, RequestTypes, OkTypes, ErrorTypes, EndTypes
  <2>5. ~Early(e)
    BY <1>2 DEF Early
  <2>6. At(e, t) /\ (Posts(e, <<m>>) \/ wire' = wire) /\ Wrote(e, <<m>>)
    BY <1>2, <2>2, <2>3, <2>4, <2>5, SendIs
  <2> QED
    BY <2>2, <2>3, <2>6, AtIs DEF m, Send
<1>3. "GOAWAY" \in CountTypes /\ "MAX_REQUEST_ID" \in CountTypes /\ "REQUESTS_BLOCKED" \in CountTypes
  BY DEF CountTypes
<1>4. Quiet(s, s) /\ Steady(s, s)
  BY DEF Quiet, Alike, Steady
<1>5. ASSUME NEW ceiling \in load.ceilings, send_max_request_id(e, ceiling)
      PROVE  \E m \in Messages : Counting(e, ep'[e], m)
  <2> DEFINE t == [s EXCEPT !.advertised_max_id = ceiling]
             m == Msg("MAX_REQUEST_ID", ceiling)
  <2>1. /\ s.session \in {"Active", "Draining"} /\ Send(e, t, m)
        /\ UNCHANGED <<load, stream, goaway, verdict>> /\ ceiling > s.advertised_max_id
    BY <1>5 DEF send_max_request_id
  <2>2. ceiling \in Nat
    BY SessionAssumption DEF TypeOK, WorkloadType
  <2>3. t \in Endpoints /\ Quiet(s, t) /\ t.session = s.session /\ t.closed_for = s.closed_for
        /\ t.max_id = s.max_id /\ t.advertised_max_id = ceiling /\ t.role = e
    BY <1>1, <2>2 DEF Endpoints, Quiet, Alike
  <2> HIDE DEF t
  <2>4. /\ m \in Messages /\ m.type = "MAX_REQUEST_ID" /\ m.id = ceiling
        /\ Open /\ Wrote(e, <<m>>) /\ (Posts(e, <<m>>) \/ wire' = wire) /\ ep'[e] = t
    BY <1>2, <1>3, <2>1, <2>2, <2>3
  <2> HIDE DEF m
  <2> QED
    BY <2>1, <2>3, <2>4 DEF Counting
<1>6. CASE send_requests_blocked(e)
  <2> DEFINE m == Msg("REQUESTS_BLOCKED", s.max_id)
  <2>1. /\ s.session \in {"Active", "Draining"} /\ Send(e, s, m)
        /\ UNCHANGED <<load, stream, goaway, verdict>>
    BY <1>6 DEF send_requests_blocked
  <2>2. s.max_id \in Nat
    BY <1>1 DEF Endpoints
  <2>3. /\ m \in Messages /\ m.type = "REQUESTS_BLOCKED"
        /\ Open /\ Wrote(e, <<m>>) /\ (Posts(e, <<m>>) \/ wire' = wire) /\ ep'[e] = s
    BY <1>1, <1>2, <1>3, <2>1, <2>2
  <2> HIDE DEF m
  <2> QED
    BY <1>4, <2>1, <2>3 DEF Counting
<1>7. CASE SendGoAway(e)
  <2> DEFINE n == IF e = "server" THEN 1 ELSE 0
             m == Msg("GOAWAY", n)
  <2>1. /\ s.session \in {"Active", "Draining"} /\ Send(e, s, m) /\ ~goaway[e]
        /\ goaway' = [goaway EXCEPT ![e] = TRUE] /\ UNCHANGED <<load, stream, verdict>>
    BY <1>7 DEF SendGoAway
  <2>2. n \in Nat
    OBVIOUS
  <2> HIDE DEF n
  <2>3. /\ m \in Messages /\ m.type = "GOAWAY" /\ m.id = n
        /\ Open /\ Wrote(e, <<m>>) /\ (Posts(e, <<m>>) \/ wire' = wire) /\ ep'[e] = s
    BY <1>1, <1>2, <1>3, <2>1, <2>2
  <2> HIDE DEF m
  <2> QED
    BY <1>4, <2>1, <2>3 DEF Counting, n, Steady
<1> QED
  BY <1>5, <1>6, <1>7 DEF Session

(* The handshake moves an endpoint on, and nothing else of it.             *)
LEMMA HandshakeShape ==
  ASSUME TypeOK
  PROVE  /\ adopt_offering \/ FinishSetup => Shaken("client", ep'["client"])
         /\ AcceptConnection \/ AcceptSetup => Shaken("server", ep'["server"])
<1> DEFINE c == ep["client"]
           s == ep["server"]
<1>1. /\ c \in Endpoints /\ s \in Endpoints /\ ep \in [Roles -> Endpoints]
      /\ Roles = {"client", "server"}
  BY DEF TypeOK, Roles
<1>2. ASSUME adopt_offering
      PROVE  Shaken("client", ep'["client"])
  <2>1. PICK ceiling : ep'["client"] = send_client_setup(connect(c), ceiling)
    BY <1>1, <1>2 DEF adopt_offering
  <2>2. c.session = "Connecting" /\ UNCHANGED <<stream, goaway, verdict, dropped>>
    BY <1>2 DEF adopt_offering, OnConnect
  <2>3. /\ Quiet(c, ep'["client"]) /\ ep'["client"].closed_for = c.closed_for
        /\ ep'["client"].session = "SetupExchange"
    BY <1>1, <2>1 DEF send_client_setup, connect, Endpoints, Quiet, Alike
  <2> QED
    BY <1>2, <2>2, <2>3 DEF Shaken, Early
<1>3. ASSUME AcceptConnection
      PROVE  Shaken("server", ep'["server"])
  <2>1. ep'["server"] = connect(s)
    BY <1>1, <1>3 DEF AcceptConnection
  <2>2. s.session = "Connecting" /\ UNCHANGED <<stream, goaway, verdict, dropped>>
    BY <1>3 DEF AcceptConnection, OnConnect
  <2>3. /\ Quiet(s, ep'["server"]) /\ ep'["server"].closed_for = s.closed_for
        /\ ep'["server"].session = "SetupExchange"
    BY <1>1, <2>1 DEF connect, Endpoints, Quiet, Alike
  <2> QED
    BY <1>3, <2>2, <2>3 DEF Shaken, Early
<1>4. ASSUME AcceptSetup
      PROVE  Shaken("server", ep'["server"])
  <2> DEFINE m == Head(wire["server"])
  <2>1. /\ ep'["server"] = receive_client_setup_and_respond(s, m)
        /\ s.session = "SetupExchange" /\ UNCHANGED <<stream, goaway, verdict, dropped>>
    BY <1>1, <1>4 DEF AcceptSetup
  <2>2. /\ Quiet(s, ep'["server"]) /\ ep'["server"].closed_for = s.closed_for
        /\ ep'["server"].session \in {"SetupExchange", "Active"}
    <3> HIDE DEF m
    <3> QED
      BY <1>1, <2>1
      DEF receive_client_setup_and_respond, Granted, update_max, OnSetupComplete, Endpoints, Quiet, Alike
  <2> QED
    BY <1>4, <2>1, <2>2 DEF Shaken, Early
<1>5. ASSUME FinishSetup
      PROVE  Shaken("client", ep'["client"])
  <2> DEFINE m == Head(wire["client"])
  <2>1. /\ ep'["client"] = receive_server_setup(c, m)
        /\ c.session = "SetupExchange" /\ UNCHANGED <<stream, goaway, verdict, dropped>>
    BY <1>1, <1>5 DEF FinishSetup
  <2>2. /\ Quiet(c, ep'["client"]) /\ ep'["client"].closed_for = c.closed_for
        /\ ep'["client"].session \in {"SetupExchange", "Active"}
    <3> HIDE DEF m
    <3> QED
      BY <1>1, <2>1
      DEF receive_server_setup, Granted, update_max, OnSetupComplete, Endpoints, Quiet, Alike
  <2> QED
    BY <1>5, <2>1, <2>2 DEF Shaken, Early
<1> QED
  BY <1>2, <1>3, <1>4, <1>5

(* Every step has one of these shapes, at one of the two ends.             *)
LEMMA NextShape ==
  ASSUME Inv, Next
  PROVE  \E e \in Roles : \E t \in Endpoints : Step(e, t)
<1>1. TypeOK /\ Setup /\ Meaning
  BY DEF Inv
<1>2. ASSUME NEW e \in Roles, \E t \in Endpoints : Stepped(e, t), Shape(e, ep'[e])
      PROVE  \E t \in Endpoints : Step(e, t)
  BY <1>1, <1>2, SteppedAt DEF Step
<1>3. CASE adopt_offering \/ FinishSetup
  BY <1>1, <1>2, <1>3, ShakeStep, HandshakeShape DEF Shape, Roles
<1>4. CASE AcceptConnection \/ AcceptSetup
  BY <1>1, <1>2, <1>4, ShakeStep, HandshakeShape DEF Shape, Roles
<1>5. ASSUME NEW e \in Roles, Session(e)
      PROVE  \E t \in Endpoints : Step(e, t)
  BY <1>1, <1>2, <1>5, SessionStep, SessionShape DEF Shape
<1>6. ASSUME NEW e \in Roles, Ends(e)
      PROVE  \E t \in Endpoints : Step(e, t)
  BY <1>1, <1>2, <1>6, EndsStep, EndsShape
<1>7. ASSUME NEW e \in Roles, Asks(e)
      PROVE  \E t \in Endpoints : Step(e, t)
  BY <1>1, <1>7, AsksStep DEF Step, Shape, Stepped
<1>8. ASSUME NEW e \in Roles, NEW id \in Ids, Answers(e, id)
      PROVE  \E t \in Endpoints : Step(e, t)
  BY <1>1, <1>8, AnswersStep DEF Step, Shape, Stepped
<1>9. ASSUME NEW e \in Roles, recv_and_dispatch(e)
      PROVE  \E t \in Endpoints : Step(e, t)
  <2> DEFINE s == ep[e]
             m == Head(wire[e])
  <2>1. s \in Endpoints /\ s.role = e
    BY <1>1 DEF TypeOK
  <2>2. /\ Open /\ s.session \in {"Active", "Draining"} /\ wire[e] # <<>>
        /\ wire' = [wire EXCEPT ![e] = Tail(@)]
        /\ UNCHANGED <<load, stream, goaway, verdict, dropped>>
    BY <1>9 DEF recv_and_dispatch
  <2>3. m \in OnWire(e) /\ m \in Messages
    BY <1>1, <2>2, ReadsIs
  <2>4. ~Early(e) /\ m.type \notin SetupTypes /\ WellFormed(m)
    BY <1>1, <2>2, <2>3 DEF Early, Setup, Meaning, Roles
  <2>5. PICK t \in receive_message(s, m) : ep' = [ep EXCEPT ![e] = t]
    BY <1>9 DEF recv_and_dispatch
  <2>6. ep'[e] = t
    BY <1>1, <2>5 DEF TypeOK
  <2>7. m = Head(wire[e])
    OBVIOUS
  <2> HIDE DEF m
  <2>8. /\ t \in Endpoints /\ Receipt(s, t, m)
        /\ t.session \in {s.session, "Closed"} \/ (s.session = "Active" /\ t.session = "Draining")
    BY <2>1, <2>3, <2>4, <2>5, ReceiptIs
  <2>9. Taking(e, t, m)
    BY <2>2, <2>4, <2>5, <2>7, <2>8 DEF Taking, Reading
  <2> QED
    BY <1>1, <1>2, <1>9, <2>3, <2>6, <2>9, ReadStep DEF Shape
<1> QED
  BY <1>3, <1>4, <1>5, <1>6, <1>7, <1>8, <1>9 DEF Next

-----------------------------------------------------------------------------
(* What a message does to the endpoint that reads it *)

EventOf(type) ==
  CASE type \in OkTypes -> "ok"
    [] type \in ErrorTypes -> "error"
    [] type \in {"UNSUBSCRIBE", "UNSUBSCRIBE_NAMESPACE"} -> "unsubscribe"
    [] type \in {"PUBLISH_DONE", "PUBLISH_NAMESPACE_DONE"} -> "done"
    [] OTHER -> "cancel"

(* The request it is applied to. *)
Concerns(s, id, m) ==
  \/ m.type \in AnswerTypes /\ m.id = id /\ IsOwn(s, id, KindOf(m.type))
  \/ m.type = "UNSUBSCRIBE" /\ m.id = id /\ GivenOut(s, id)
  \/ /\ m.type = "PUBLISH_DONE" /\ m.id = id
     /\ IsOwn(s, id, "subscribe") \/ s.requests[id].kind = "publish"
  \/ m.type = "FETCH_CANCEL" /\ m.id = id /\ IsPeers(s, id, "fetch")
  \/ m.type = "UNSUBSCRIBE_NAMESPACE" /\ id \in inbound_subscribe_namespace_ids(s, m.what)
  \/ m.type = "PUBLISH_NAMESPACE_DONE" /\ id \in inbound_publish_namespace_ids(s, m.what)
  \/ m.type = "PUBLISH_NAMESPACE_CANCEL" /\ id \in own_publish_namespace_ids(s, m.what)

BindsTo(s, id, m) == IF m.type = "SUBSCRIBE_OK" THEN m.alias ELSE s.requests[id].alias

Heeds(s, t, m) ==
  /\ m.type \in AnswerTypes \union EndTypes \union AboutTypes
  /\ \/ t = s /\ \A id \in Ids : ~Concerns(s, id, m)
     \/ \E id \in Ids : /\ Concerns(s, id, m)
                        /\ IF CanMove(s, id, EventOf(m.type))
                           THEN Changed(s, t, id, EventOf(m.type), BindsTo(s, id, m))
                           ELSE t = s

Enters(s, t, m) ==
  /\ m.type \in RequestTypes /\ m.id \in Ids /\ m.id = s.peer_next_id /\ Owner(m.id) # s.role
  /\ Steady(s, t) /\ t.session = s.session
  /\ t.next_id = s.next_id /\ t.peer_next_id = s.peer_next_id + 2
  /\ \A j \in Ids \ {m.id} : t.requests[j] = s.requests[j]
  /\ IF s.session = "Active" /\ m.type # "SUBSCRIBE_UPDATE"
     THEN /\ t.requests[m.id].kind = KindOf(m.type)
          /\ t.requests[m.id].state = Opened(KindOf(m.type))
          /\ t.requests[m.id].what = m.what
          /\ t.requests[m.id].alias = IF m.type = "PUBLISH" THEN m.alias ELSE None
     ELSE t.requests[m.id] = s.requests[m.id]

Counts(s, t, m) ==
  /\ Quiet(s, t) /\ t.closed_for = s.closed_for /\ t.advertised_max_id = s.advertised_max_id
  /\ \/ m.type = "MAX_REQUEST_ID" /\ t.max_id = m.id /\ t.session = s.session
     \/ m.type = "REQUESTS_BLOCKED" /\ t = s
     \/ m.type = "GOAWAY" /\ t.session = "Draining" /\ t.max_id = s.max_id

Reason(s, m, error) ==
  \/ /\ m.type \in RequestTypes
     /\ \/ error = "WrongParity" /\ Owner(m.id) = s.role
        \/ error = "ExceedsMax" /\ m.id >= s.advertised_max_id
        \/ error = "OutOfSequence" /\ m.id # s.peer_next_id
  \/ error = "Decreased" /\ m.type = "MAX_REQUEST_ID" /\ ~(m.id > s.max_id)
  \/ error = "GoAwayUriAtServer" /\ m.type = "GOAWAY" /\ s.role = "server" /\ m.id # 0
  \/ error = "RepeatedGoAway" /\ m.type = "GOAWAY" /\ s.session = "Draining"
  \/ error = "UpdateForUnknownRequest" /\ m.type = "SUBSCRIBE_UPDATE" /\ ~Existed(s, m.ref)
  \/ /\ error = "DuplicateTrackAlias"
     /\ \/ m.type = "PUBLISH" /\ conflicting_track_alias(s, m.id, m.alias, m.what)
        \/ /\ m.type = "SUBSCRIBE_OK" /\ IsOwn(s, m.id, "subscribe")
           /\ conflicting_track_alias(s, m.id, m.alias, s.requests[m.id].what)

Closes(s, t, m) ==
  /\ t.session = "Closed" /\ Reason(s, m, t.closed_for)
  /\ t.requests = s.requests /\ t.next_id = s.next_id /\ t.max_id = s.max_id
  /\ t.advertised_max_id = s.advertised_max_id

(* An endpoint that is up closes when it fails the session.                *)
LEMMA FailCloses ==
  ASSUME NEW s \in Endpoints, s.session \in {"Active", "Draining"}, NEW error,
         NEW t, t = fail_session(s, error)
  PROVE  /\ t.session = "Closed" /\ t.closed_for = error
         /\ t.requests = s.requests /\ t.next_id = s.next_id /\ t.max_id = s.max_id
         /\ t.advertised_max_id = s.advertised_max_id
BY DEF fail_session, OnClose, Endpoints

(* A request that is recorded, field by field.                             *)
LEMMA RecordedEnters ==
  ASSUME NEW s \in Endpoints, NEW m \in Messages, m.id \in Ids, NEW kind \in Kinds,
         NEW alias \in Aliases \union {None}, NEW bad \in BOOLEAN,
         NEW t, t = Recorded(s, m, kind, alias, bad)
  PROVE  /\ Steady(s, t) /\ t.session = s.session /\ Alike(s, t)
         /\ \A j \in Ids \ {m.id} : t.requests[j] = s.requests[j]
         /\ IF s.session = "Active"
            THEN /\ t.requests[m.id].kind = kind /\ t.requests[m.id].state = Opened(kind)
                 /\ t.requests[m.id].what = m.what /\ t.requests[m.id].alias = alias
            ELSE t.requests[m.id] = s.requests[m.id]
<1> DEFINE r == Request(kind, m.what, alias, bad)
<1>1. r.kind = kind /\ r.state = Opened(kind) /\ r.what = m.what /\ r.alias = alias
  BY DEF Request
<1>2. t = IF s.session = "Active" THEN [s EXCEPT !.requests[m.id] = r] ELSE s
  BY DEF Recorded, require_active
<1> HIDE DEF r
<1>3. s.requests \in [Ids -> Requests]
  BY DEF Endpoints
<1> QED
  BY <1>1, <1>2, <1>3 DEF Endpoints, Steady, Alike

(* A new request is admitted, or the session fails.                        *)
LEMMA RequestTaken ==
  ASSUME NEW s \in Endpoints, s.session \in {"Active", "Draining"}, NEW m \in Messages,
         WellFormed(m), m.type \in RequestTypes, NEW t, t \in receive_message(s, m)
  PROVE  Enters(s, t, m) \/ Closes(s, t, m)
<1> DEFINE error == request_id_error(s, m.id)
           u == record_peer_id(s)
<1>1. m.id \in Ids /\ m.alias \in Aliases \union {None}
  BY DEF WellFormed, Messages
<1>2. CASE error # None
  <2>1. t = fail_session(s, error)
    BY <1>2 DEF receive_message
  <2>2. Reason(s, m, error)
    BY <1>2 DEF request_id_error, wrong_parity, Reason
  <2> HIDE DEF error
  <2> QED
    BY <2>1, <2>2, FailCloses DEF Closes
<1>3. CASE error = None
  <2>1. t \in dispatch(u, m)
    BY <1>3 DEF receive_message
  <2>2. m.id = s.peer_next_id /\ Owner(m.id) # s.role
    BY <1>3, EndpointAssumption DEF request_id_error, SessionErrors, wrong_parity
  <2>3. /\ u \in Endpoints /\ u.role = s.role /\ u.next_id = s.next_id
        /\ u.peer_next_id = s.peer_next_id + 2 /\ u.requests = s.requests
        /\ u.session = s.session /\ Steady(s, u)
    BY DEF record_peer_id, Endpoints, Steady
  <2> HIDE DEF u, error
  <2>4. ASSUME NEW bad \in BOOLEAN, NEW alias \in Aliases \union {None},
               m.type # "SUBSCRIBE_UPDATE", alias = IF m.type = "PUBLISH" THEN m.alias ELSE None,
               t = Recorded(u, m, KindOf(m.type), alias, bad)
        PROVE  Enters(s, t, m)
    <3>1. KindOf(m.type) \in Kinds
      BY <2>4, TypesApart
    <3>2. /\ Steady(u, t) /\ t.session = u.session /\ Alike(u, t)
          /\ \A j \in Ids \ {m.id} : t.requests[j] = u.requests[j]
          /\ IF u.session = "Active"
             THEN /\ t.requests[m.id].kind = KindOf(m.type)
                  /\ t.requests[m.id].state = Opened(KindOf(m.type))
                  /\ t.requests[m.id].what = m.what /\ t.requests[m.id].alias = alias
             ELSE t.requests[m.id] = u.requests[m.id]
      BY <1>1, <2>3, <2>4, <3>1, RecordedEnters
    <3> QED
      BY <1>1, <2>2, <2>3, <2>4, <3>2 DEF Enters, Steady, Alike
  <2>5. CASE m.type = "SUBSCRIBE_UPDATE"
    <3>1. t = IF Existed(u, m.ref) THEN u ELSE fail_session(u, "UpdateForUnknownRequest")
      BY <2>1, <2>5 DEF dispatch, receive_subscribe_update
    <3>2. CASE t = u
      BY <1>1, <2>2, <2>3, <2>5, <3>2 DEF Enters
    <3>3. CASE t # u
      <4>1. ~Existed(s, m.ref) /\ t = fail_session(u, "UpdateForUnknownRequest")
        BY <2>3, <3>1, <3>3 DEF Existed
      <4>2. Reason(s, m, "UpdateForUnknownRequest")
        BY <2>5, <4>1 DEF Reason
      <4> QED
        BY <2>3, <4>1, <4>2, FailCloses DEF Closes, Steady
    <3> QED
      BY <3>2, <3>3
  <2>6. CASE m.type = "PUBLISH"
    <3>1. t = receive_publish(u, m)
      BY <2>1, <2>6 DEF dispatch
    <3>2. CASE conflicting_track_alias(u, m.id, m.alias, m.what) /\ require_active(u)
      <4>1. t = fail_session(u, "DuplicateTrackAlias")
        BY <3>1, <3>2 DEF receive_publish
      <4>2. Reason(s, m, "DuplicateTrackAlias")
        BY <2>3, <2>6, <3>2 DEF Reason, conflicting_track_alias
      <4> QED
        BY <2>3, <4>1, <4>2, FailCloses DEF Closes, Steady
    <3>3. CASE ~(conflicting_track_alias(u, m.id, m.alias, m.what) /\ require_active(u))
      <4>1. t = Recorded(u, m, "publish", m.alias, FALSE) /\ KindOf(m.type) = "publish"
        BY <2>6, <3>1, <3>3 DEF receive_publish, KindOf
      <4> QED
        BY <1>1, <2>4, <2>6, <4>1
    <3> QED
      BY <3>2, <3>3
  <2>7. CASE m.type \notin {"SUBSCRIBE_UPDATE", "PUBLISH"}
    <3>1. \E bad \in BOOLEAN : t = Recorded(u, m, KindOf(m.type), None, bad)
      <4>1. CASE m.type = "SUBSCRIBE"
        BY <2>1, <4>1 DEF dispatch, KindOf, receive_subscribe
      <4>2. CASE m.type = "FETCH"
        BY <2>1, <4>2 DEF dispatch, KindOf, receive_fetch, joining_subscription_missing
      <4>3. CASE m.type = "PUBLISH_NAMESPACE"
        BY <2>1, <4>3 DEF dispatch, KindOf, receive_publish_namespace
      <4>4. CASE m.type = "SUBSCRIBE_NAMESPACE"
        BY <2>1, <4>4 DEF dispatch, KindOf, receive_subscribe_namespace, peer_prefix_overlap
      <4>5. CASE m.type = "TRACK_STATUS"
        BY <2>1, <4>5 DEF dispatch, KindOf, receive_track_status
      <4> QED
        BY <2>7, <4>1, <4>2, <4>3, <4>4, <4>5 DEF RequestTypes
    <3> QED
      BY <2>4, <2>7, <3>1
  <2> QED
    BY <2>5, <2>6, <2>7
<1> QED
  BY <1>2, <1>3

(* A message about a request moves it, if it can.                          *)
LEMMA HeedsIs ==
  ASSUME NEW s \in Endpoints, NEW m \in Messages, NEW id \in Ids, Concerns(s, id, m),
         m.type \in AnswerTypes \union EndTypes \union AboutTypes, m.type # "SUBSCRIBE_OK",
         NEW t, t = Move(s, id, EventOf(m.type))
  PROVE  Heeds(s, t, m)
<1> DEFINE event == EventOf(m.type)
<1>1. IF CanMove(s, id, event) THEN Changed(s, t, id, event, s.requests[id].alias) ELSE t = s
  BY MovedIs DEF Move
<1> QED
  BY <1>1 DEF Heeds, BindsTo

(* The types of the messages that are about a request.                     *)
LEMMA EventsOf ==
  ASSUME NEW type \in AnswerTypes \union EndTypes \union AboutTypes
  PROVE  /\ type \notin RequestTypes
         /\ type \in OkTypes => EventOf(type) = "ok"
         /\ type \in ErrorTypes => EventOf(type) = "error"
         /\ type = "UNSUBSCRIBE" => EventOf(type) = "unsubscribe"
         /\ type = "PUBLISH_DONE" => EventOf(type) = "done"
         /\ type = "FETCH_CANCEL" => EventOf(type) = "cancel"
         /\ type = "UNSUBSCRIBE_NAMESPACE" => EventOf(type) = "unsubscribe"
         /\ type = "PUBLISH_NAMESPACE_DONE" => EventOf(type) = "done"
         /\ type = "PUBLISH_NAMESPACE_CANCEL" => EventOf(type) = "cancel"
BY DEF AnswerTypes, OkTypes, ErrorTypes, EndTypes, AboutTypes, RequestTypes, EventOf

(* An answer is heeded, or its alias fails the session.                    *)
LEMMA AnswerTaken ==
  ASSUME NEW s \in Endpoints, s.session \in {"Active", "Draining"}, NEW m \in Messages,
         WellFormed(m), m.type \in AnswerTypes, NEW t, t \in receive_message(s, m)
  PROVE  Heeds(s, t, m) \/ Closes(s, t, m)
<1>1. t \in dispatch(s, m) /\ m.id \in Ids
  BY EventsOf DEF receive_message, WellFormed, AnswerTypes
<1>2. CASE ~IsOwn(s, m.id, KindOf(m.type)) /\ t = s
  <2>1. \A id \in Ids : ~Concerns(s, id, m)
    BY <1>2 DEF Concerns, AnswerTypes, OkTypes, ErrorTypes
  <2> QED
    BY <1>2, <2>1 DEF Heeds
<1>3. CASE m.type = "SUBSCRIBE_OK"
  <2>1. t = receive_subscribe_ok(s, m) /\ KindOf(m.type) = "subscribe"
    BY <1>1, <1>3 DEF dispatch, KindOf
  <2>2. CASE ~IsOwn(s, m.id, "subscribe")
    BY <1>2, <2>1, <2>2 DEF receive_subscribe_ok
  <2>3. CASE /\ IsOwn(s, m.id, "subscribe")
             /\ conflicting_track_alias(s, m.id, m.alias, s.requests[m.id].what)
    <3>1. t = fail_session(s, "DuplicateTrackAlias")
      BY <2>1, <2>3 DEF receive_subscribe_ok
    <3>2. Reason(s, m, "DuplicateTrackAlias")
      BY <1>3, <2>3 DEF Reason
    <3> QED
      BY <3>1, <3>2, FailCloses DEF Closes
  <2>4. CASE /\ IsOwn(s, m.id, "subscribe")
             /\ ~conflicting_track_alias(s, m.id, m.alias, s.requests[m.id].what)
    <3>1. Concerns(s, m.id, m) /\ EventOf(m.type) = "ok" /\ BindsTo(s, m.id, m) = m.alias
      <4>1. EventOf(m.type) = "ok"
        BY <1>3, EventsOf DEF OkTypes
      <4>2. Concerns(s, m.id, m)
        BY <2>1, <2>4 DEF Concerns
      <4> QED
        BY <1>3, <4>1, <4>2 DEF BindsTo
    <3>2. CASE ~CanMove(s, m.id, "ok")
      <4>1. t = s
        BY <2>1, <2>4, <3>2 DEF receive_subscribe_ok
      <4> QED
        BY <1>1, <3>1, <3>2, <4>1 DEF Heeds
    <3>3. CASE CanMove(s, m.id, "ok")
      <4>1. t = Bound(Moved(s, m.id, "ok"), m.id, m.alias) /\ m.alias \in Aliases \union {None}
        BY <2>1, <2>4, <3>3 DEF receive_subscribe_ok, Bound, Messages
      <4>2. Changed(s, t, m.id, "ok", m.alias)
        BY <1>1, <3>3, <4>1, BoundIs
      <4> QED
        BY <1>1, <3>1, <3>3, <4>2 DEF Heeds
    <3> QED
      BY <3>2, <3>3
  <2> QED
    BY <2>2, <2>3, <2>4
<1>4. CASE m.type # "SUBSCRIBE_OK"
  <2>1. t = MoveOwn(s, m.id, KindOf(m.type), EventOf(m.type))
    <3>1. CASE m.type \in OkTypes
      <4>1. EventOf(m.type) = "ok"
        BY <3>1, EventsOf DEF AnswerTypes
      <4> QED
        BY <1>1, <1>4, <3>1, <4>1
        DEF OkTypes, dispatch, KindOf, receive_publish_ok, receive_fetch_ok,
            receive_subscribe_namespace_ok, receive_publish_namespace_ok,
            receive_track_status_ok
    <3>2. CASE m.type \in ErrorTypes
      <4>1. EventOf(m.type) = "error"
        BY <3>2, EventsOf DEF AnswerTypes
      <4> QED
        BY <1>1, <1>4, <3>2, <4>1
        DEF ErrorTypes, dispatch, KindOf, receive_publish_error, receive_fetch_error,
            receive_subscribe_namespace_error, receive_publish_namespace_error,
            receive_track_status_error, receive_subscribe_error
    <3> QED
      BY <3>1, <3>2 DEF AnswerTypes
  <2>2. CASE IsOwn(s, m.id, KindOf(m.type))
    <3>1. Concerns(s, m.id, m) /\ t = Move(s, m.id, EventOf(m.type))
      BY <2>1, <2>2 DEF Concerns, MoveOwn
    <3> QED
      BY <1>1, <1>4, <3>1, HeedsIs
  <2> QED
    BY <1>2, <2>1, <2>2 DEF MoveOwn
<1> QED
  BY <1>3, <1>4

(* An end is heeded. *)
LEMMA EndTaken ==
  ASSUME NEW s \in Endpoints, NEW m \in Messages, WellFormed(m),
         m.type \in EndTypes \union AboutTypes, NEW t, t \in receive_message(s, m)
  PROVE  Heeds(s, t, m)
<1>1. t \in dispatch(s, m) /\ m.type # "SUBSCRIBE_OK"
  BY EventsOf DEF receive_message, EndTypes, AboutTypes
<1>2. ASSUME t = s, \A id \in Ids : ~Concerns(s, id, m)
      PROVE  Heeds(s, t, m)
  BY <1>2 DEF Heeds
<1>3. ASSUME NEW id \in Ids, Concerns(s, id, m), t = Move(s, id, EventOf(m.type))
      PROVE  Heeds(s, t, m)
  BY <1>1, <1>3, HeedsIs
<1>4. CASE m.type \in EndTypes
  <2>1. m.id \in Ids
    BY <1>4 DEF WellFormed
  <2>2. CASE m.type = "UNSUBSCRIBE"
    <3>1. t = receive_unsubscribe(s, m) /\ EventOf(m.type) = "unsubscribe"
      BY <1>1, <2>2, EventsOf DEF dispatch
    <3>2. t = IF GivenOut(s, m.id) THEN Move(s, m.id, "unsubscribe") ELSE s
      BY <3>1 DEF receive_unsubscribe, GivenOut, MovePeers
    <3>3. \A id \in Ids : Concerns(s, id, m) <=> m.id = id /\ GivenOut(s, id)
      BY <2>2 DEF Concerns, AnswerTypes, OkTypes, ErrorTypes
    <3> QED
      BY <1>2, <1>3, <2>1, <3>1, <3>2, <3>3
  <2>3. CASE m.type = "PUBLISH_DONE"
    <3>1. t = receive_publish_done(s, m) /\ EventOf(m.type) = "done"
      BY <1>1, <2>3, EventsOf DEF dispatch
    <3>2. \A id \in Ids : Concerns(s, id, m) <=>
            m.id = id /\ (IsOwn(s, id, "subscribe") \/ s.requests[id].kind = "publish")
      BY <2>3 DEF Concerns, AnswerTypes, OkTypes, ErrorTypes
    <3> QED
      BY <1>2, <1>3, <2>1, <3>1, <3>2 DEF receive_publish_done
  <2>4. CASE m.type = "FETCH_CANCEL"
    <3>1. t = MovePeers(s, m.id, "fetch", "cancel") /\ EventOf(m.type) = "cancel"
      BY <1>1, <2>4, EventsOf DEF dispatch, receive_fetch_cancel
    <3>2. \A id \in Ids : Concerns(s, id, m) <=> m.id = id /\ IsPeers(s, id, "fetch")
      BY <2>4 DEF Concerns, AnswerTypes, OkTypes, ErrorTypes
    <3> QED
      BY <1>2, <1>3, <2>1, <3>1, <3>2 DEF MovePeers
  <2> QED
    BY <1>4, <2>2, <2>3, <2>4 DEF EndTypes
<1>5. CASE m.type \in AboutTypes
  <2>1. ASSUME NEW ids, ids \subseteq Ids, \A id \in Ids : Concerns(s, id, m) <=> id \in ids,
               t \in Found(s, ids, EventOf(m.type))
        PROVE  Heeds(s, t, m)
    <3>1. CASE ids = {}
      BY <1>2, <2>1, <3>1 DEF Found
    <3>2. CASE ids # {}
      <4>1. PICK id \in ids : t = Move(s, id, EventOf(m.type))
        BY <2>1, <3>2 DEF Found
      <4> QED
        BY <1>3, <2>1, <4>1
    <3> QED
      BY <3>1, <3>2
  <2>2. CASE m.type = "UNSUBSCRIBE_NAMESPACE"
    <3> DEFINE ids == inbound_subscribe_namespace_ids(s, m.what)
    <3>1. t \in Found(s, ids, "unsubscribe") /\ EventOf(m.type) = "unsubscribe"
      BY <1>1, <2>2, EventsOf DEF dispatch, receive_unsubscribe_namespace
    <3>2. ids \subseteq Ids /\ \A id \in Ids : Concerns(s, id, m) <=> id \in ids
      BY <2>2 DEF Concerns, AnswerTypes, OkTypes, ErrorTypes, inbound_subscribe_namespace_ids
    <3> HIDE DEF ids
    <3> QED
      BY <2>1, <3>1, <3>2
  <2>3. CASE m.type = "PUBLISH_NAMESPACE_DONE"
    <3> DEFINE ids == inbound_publish_namespace_ids(s, m.what)
    <3>1. t \in Found(s, ids, "done") /\ EventOf(m.type) = "done"
      BY <1>1, <2>3, EventsOf DEF dispatch, receive_publish_namespace_done
    <3>2. ids \subseteq Ids /\ \A id \in Ids : Concerns(s, id, m) <=> id \in ids
      BY <2>3 DEF Concerns, AnswerTypes, OkTypes, ErrorTypes, inbound_publish_namespace_ids
    <3> HIDE DEF ids
    <3> QED
      BY <2>1, <3>1, <3>2
  <2>4. CASE m.type = "PUBLISH_NAMESPACE_CANCEL"
    <3> DEFINE ids == own_publish_namespace_ids(s, m.what)
    <3>1. t \in Found(s, ids, "cancel") /\ EventOf(m.type) = "cancel"
      BY <1>1, <2>4, EventsOf DEF dispatch, receive_publish_namespace_cancel
    <3>2. ids \subseteq Ids /\ \A id \in Ids : Concerns(s, id, m) <=> id \in ids
      BY <2>4 DEF Concerns, AnswerTypes, OkTypes, ErrorTypes, own_publish_namespace_ids
    <3> HIDE DEF ids
    <3> QED
      BY <2>1, <3>1, <3>2
  <2> QED
    BY <1>5, <2>2, <2>3, <2>4 DEF AboutTypes
<1> QED
  BY <1>4, <1>5

(* A ceiling or a GOAWAY is noted, or fails the session.                   *)
LEMMA CountTaken ==
  ASSUME NEW s \in Endpoints, s.session \in {"Active", "Draining"}, NEW m \in Messages,
         m.type \in CountTypes, NEW t, t \in receive_message(s, m)
  PROVE  Counts(s, t, m) \/ Closes(s, t, m)
<1>1. t \in dispatch(s, m)
  BY DEF receive_message, CountTypes, RequestTypes
<1>2. ASSUME NEW error, Reason(s, m, error), t = fail_session(s, error)
      PROVE  Closes(s, t, m)
  BY <1>2, FailCloses DEF Closes
<1>3. CASE m.type = "REQUESTS_BLOCKED"
  <2>1. t = s
    BY <1>1, <1>3 DEF dispatch, receive_requests_blocked
  <2> QED
    BY <1>3, <2>1 DEF Counts, Quiet, Alike
<1>4. CASE m.type = "MAX_REQUEST_ID"
  <2>1. t = receive_max_request_id(s, m)
    BY <1>1, <1>4 DEF dispatch
  <2>2. CASE Increases(s, m.id)
    <3>1. t = [s EXCEPT !.max_id = m.id]
      BY <2>1, <2>2 DEF receive_max_request_id, update_max
    <3> QED
      BY <1>4, <3>1 DEF Counts, Quiet, Alike, Endpoints
  <2>3. CASE ~Increases(s, m.id)
    <3>1. t = fail_session(s, "Decreased") /\ Reason(s, m, "Decreased")
      BY <1>4, <2>1, <2>3 DEF receive_max_request_id, Increases, Reason
    <3> QED
      BY <1>2, <3>1
  <2> QED
    BY <2>2, <2>3
<1>5. CASE m.type = "GOAWAY"
  <2>1. t = receive_goaway(s, m)
    BY <1>1, <1>5 DEF dispatch
  <2>2. CASE s.role = "server" /\ m.id # 0
    <3>1. t = fail_session(s, "GoAwayUriAtServer") /\ Reason(s, m, "GoAwayUriAtServer")
      BY <1>5, <2>1, <2>2 DEF receive_goaway, Reason
    <3> QED
      BY <1>2, <3>1
  <2>3. CASE ~(s.role = "server" /\ m.id # 0) /\ s.session = "Draining"
    <3>1. t = fail_session(s, "RepeatedGoAway") /\ Reason(s, m, "RepeatedGoAway")
      BY <1>5, <2>1, <2>3 DEF receive_goaway, Reason
    <3> QED
      BY <1>2, <3>1
  <2>4. CASE ~(s.role = "server" /\ m.id # 0) /\ s.session = "Active"
    <3>1. t = [s EXCEPT !.session = "Draining"]
      BY <2>1, <2>4 DEF receive_goaway, OnGoAway
    <3> QED
      BY <1>5, <3>1 DEF Counts, Quiet, Alike, Endpoints
  <2> QED
    BY <2>2, <2>3, <2>4
<1> QED
  BY <1>3, <1>4, <1>5 DEF CountTypes

(* What a message that is read does. *)
Taken(e, t, m) ==
  \/ Enters(ep[e], t, m) \/ Heeds(ep[e], t, m) \/ Counts(ep[e], t, m) \/ Closes(ep[e], t, m)

(* It is the next one on the wire. *)
LEMMA TakingIs ==
  ASSUME Inv, NEW e \in Roles, NEW t, NEW m, Taking(e, t, m)
  PROVE  /\ m \in Messages /\ m \in OnWire(e) /\ WellFormed(m) /\ Meant(e, m)
         /\ 1 \in DOMAIN wire[e] /\ wire[e][1] = m /\ m.type \notin SetupTypes
         /\ ep[e].role = e /\ Taken(e, t, m)
<1>1. /\ TypeOK /\ Meaning /\ wire[e] # <<>> /\ m = Head(wire[e]) /\ m.type \notin SetupTypes
      /\ wire' = [wire EXCEPT ![e] = Tail(@)] /\ ep[e] \in Endpoints /\ ep[e].role = e
      /\ t \in receive_message(ep[e], m) /\ ep[e].session \in {"Active", "Draining"}
      /\ wire[e] \in Seq(Messages)
  BY DEF Inv, TypeOK, Taking, Reading
<1>2. m \in Messages /\ m \in OnWire(e) /\ wire[e][1] = m
  BY <1>1, ReadsIs
<1>3. WellFormed(m) /\ Meant(e, m) /\ 1 \in DOMAIN wire[e]
  BY <1>1, <1>2 DEF Meaning
<1>4. \/ m.type \in RequestTypes \/ m.type \in AnswerTypes \/ m.type \in CountTypes
      \/ m.type \in EndTypes \union AboutTypes
  BY <1>1, <1>2 DEF Messages, MessageTypes, AnswerTypes
<1>5. Taken(e, t, m)
  BY <1>1, <1>2, <1>3, <1>4, RequestTaken, AnswerTaken, CountTaken, EndTaken DEF Taken
<1> QED
  BY <1>1, <1>2, <1>3, <1>5

-----------------------------------------------------------------------------
(* The control stream *)

(* A message this step sends. *)
Sent(e, t, m) ==
  /\ ~Early(e)
  /\ \/ Opening(e, t, m) \/ Deciding(e, t, m) \/ Counting(e, t, m)
     \/ \E ms \in Seq(Messages) : Leaving(e, t, ms) /\ \E n \in DOMAIN ms : m = ms[n]

(* What was in place i of the stream to x is in place i - d.               *)
Carried(x, d) ==
  /\ \A i \in DOMAIN wire[x] \union DOMAIN wire'[x] : i \in Nat /\ i >= 1
  /\ \A i, j \in DOMAIN wire'[x] : i < j /\ j + d \in DOMAIN wire[x] => i + d \in DOMAIN wire[x]
  /\ \A i \in DOMAIN wire'[x] : i + d \in DOMAIN wire[x] => wire'[x][i] = wire[x][i + d]
  /\ \A i \in DOMAIN wire[x] : i > d => i - d \in DOMAIN wire'[x] /\ wire'[x][i - d] = wire[x][i]

(* A step at e takes d messages off the stream to x, and puts others in    *)
(* the places that were free.                                              *)
Flow(e, t, x, d) ==
  /\ d \in {0, 1} /\ Carried(x, d)
  /\ d = 1 => /\ 1 \in DOMAIN wire[x]
              /\ wire[x][1].type \in SetupTypes \/ (x = e /\ Taking(e, t, wire[x][1]))
  /\ d = 0 => ~\E m : x = e /\ Taking(e, t, m)
  /\ \A i \in DOMAIN wire'[x] : i + d \notin DOMAIN wire[x] =>
       wire'[x][i].type \in SetupTypes \/ (x = Peer(e) /\ Sent(e, t, wire'[x][i]))
  /\ \A i, j \in DOMAIN wire'[x] :
       i + d \notin DOMAIN wire[x] /\ j + d \notin DOMAIN wire[x] =>
         i = j \/ wire'[x][i].type \in {"UNSUBSCRIBE", "FETCH_CANCEL"}

(* A stream one message is taken off. *)
LEMMA TailCarries ==
  ASSUME NEW x, NEW Msgs, wire[x] \in Seq(Msgs), wire[x] # <<>>, wire'[x] = Tail(wire[x])
  PROVE  Carried(x, 1) /\ 1 \in DOMAIN wire[x] /\ \A i \in DOMAIN wire'[x] : i + 1 \in DOMAIN wire[x]
<1> DEFINE w == wire[x]
           v == wire'[x]
<1>1. w \in Seq(Msgs) /\ w # <<>> /\ v = Tail(w)
  OBVIOUS
<1> HIDE DEF w, v
<1>2. /\ Len(w) \in Nat /\ Len(w) > 0 /\ DOMAIN w = 1..Len(w) /\ v \in Seq(Msgs)
      /\ DOMAIN v = 1..(Len(w) - 1) /\ \A i \in 1..(Len(w) - 1) : v[i] = w[i + 1]
  BY <1>1
<1>3. ASSUME NEW i \in DOMAIN w, i > 1
      PROVE  i - 1 \in DOMAIN v /\ v[i - 1] = w[i]
  <2>1. i - 1 \in 1..(Len(w) - 1) /\ (i - 1) + 1 = i
    BY <1>2, <1>3
  <2> QED
    BY <1>2, <2>1
<1>4. ASSUME NEW i \in DOMAIN v
      PROVE  i \in Nat /\ i >= 1 /\ i + 1 \in DOMAIN w /\ v[i] = w[i + 1]
  BY <1>2
<1>5. \A i \in DOMAIN w \union DOMAIN v : i \in Nat /\ i >= 1
  BY <1>2
<1> QED
  BY <1>2, <1>3, <1>4, <1>5 DEF Carried, w, v

(* One that is left alone, or empty. *)
LEMMA StillCarries ==
  ASSUME NEW x, NEW Msgs, wire[x] \in Seq(Msgs), wire'[x] \in Seq(Msgs),
         wire'[x] = wire[x] \/ wire[x] = <<>>
  PROVE  Carried(x, 0)
<1> DEFINE w == wire[x]
           v == wire'[x]
<1>1. w \in Seq(Msgs) /\ v \in Seq(Msgs) /\ (v = w \/ w = <<>>)
  OBVIOUS
<1> HIDE DEF w, v
<1>2. \A i \in DOMAIN w \union DOMAIN v : i \in Nat /\ i >= 1 /\ i + 0 = i /\ i - 0 = i
  BY <1>1
<1>3. CASE v = w
  BY <1>2, <1>3 DEF Carried, w, v
<1>4. CASE w = <<>>
  <2>1. \A i : i \notin DOMAIN w
    BY <1>4
  <2> QED
    BY <1>2, <2>1 DEF Carried, w, v
<1> QED
  BY <1>1, <1>3, <1>4

(* One that messages are put on. *)
LEMMA PostCarries ==
  ASSUME TypeOK, NEW e \in Roles, NEW ms, Posts(e, ms)
  PROVE  /\ Carried(e, 0) /\ wire'[e] = wire[e] /\ Carried(Peer(e), 0)
         /\ \A i \in DOMAIN wire'[Peer(e)] : i \notin DOMAIN wire[Peer(e)] =>
              /\ i - Len(wire[Peer(e)]) \in DOMAIN ms
              /\ wire'[Peer(e)][i] = ms[i - Len(wire[Peer(e)])]
         /\ \A n \in DOMAIN ms :
              /\ Len(wire[Peer(e)]) + n \in DOMAIN wire'[Peer(e)]
              /\ Len(wire[Peer(e)]) + n \notin DOMAIN wire[Peer(e)]
              /\ wire'[Peer(e)][Len(wire[Peer(e)]) + n] = ms[n]
<1> DEFINE w == wire[Peer(e)]
           v == wire'[Peer(e)]
<1>1. /\ wire' \in [Roles -> Seq(Messages)] /\ wire'[e] = wire[e] /\ v = w \o ms
      /\ w \in Seq(Messages) /\ ms \in Seq(Messages) /\ wire[e] \in Seq(Messages)
  BY PostsIs, RolesAre DEF TypeOK, Posts
<1>2. Carried(e, 0)
  BY <1>1, StillCarries
<1> HIDE DEF w, v
<1>3. /\ Len(w) \in Nat /\ Len(ms) \in Nat /\ DOMAIN w = 1..Len(w) /\ DOMAIN ms = 1..Len(ms)
      /\ DOMAIN v = 1..(Len(w) + Len(ms))
      /\ \A i \in 1..(Len(w) + Len(ms)) : v[i] = IF i <= Len(w) THEN w[i] ELSE ms[i - Len(w)]
  BY <1>1
<1>4. ASSUME NEW i \in DOMAIN v, i \notin DOMAIN w
      PROVE  i - Len(w) \in DOMAIN ms /\ v[i] = ms[i - Len(w)]
  BY <1>3, <1>4
<1>5. ASSUME NEW n \in DOMAIN ms
      PROVE  Len(w) + n \in DOMAIN v /\ Len(w) + n \notin DOMAIN w /\ v[Len(w) + n] = ms[n]
  <2>1. n \in 1..Len(ms) /\ Len(w) + n \in 1..(Len(w) + Len(ms)) /\ Len(w) + n > Len(w)
        /\ (Len(w) + n) - Len(w) = n
    BY <1>3
  <2> QED
    BY <1>3, <2>1
<1>6. ASSUME NEW i \in DOMAIN w
      PROVE  i \in DOMAIN v /\ v[i] = w[i]
  BY <1>3
<1>7. \A i \in DOMAIN w \union DOMAIN v : i \in Nat /\ i >= 1 /\ i + 0 = i /\ i - 0 = i
  BY <1>3
<1>8. \A i, j \in DOMAIN v : i < j /\ j \in DOMAIN w => i \in DOMAIN w
  BY <1>3
<1>9. Carried(Peer(e), 0)
  BY <1>6, <1>7, <1>8 DEF Carried, w, v
<1> QED
  BY <1>1, <1>2, <1>4, <1>5, <1>9 DEF w, v

(* What a send puts there. *)
LEMMA PostFlows ==
  ASSUME TypeOK, NEW e \in Roles, NEW t, NEW ms, Posts(e, ms) \/ wire' = wire,
         \A m : ~Taking(e, t, m),
         \A n \in DOMAIN ms : Sent(e, t, ms[n]),
         \A n, k \in DOMAIN ms : n = k \/ ms[n].type \in {"UNSUBSCRIBE", "FETCH_CANCEL"},
         NEW x \in Roles
  PROVE  Flow(e, t, x, 0)
<1>1. x = e \/ x = Peer(e)
  BY RolesAre
<1>2. wire[x] \in Seq(Messages)
  BY DEF TypeOK
<1>3. CASE wire'[x] = wire[x]
  <2>1. Carried(x, 0) /\ \A i \in DOMAIN wire'[x] : i + 0 = i /\ i + 0 \in DOMAIN wire[x]
    <3>1. Carried(x, 0) /\ DOMAIN wire'[x] = DOMAIN wire[x]
      BY <1>2, <1>3, StillCarries
    <3> QED
      BY <3>1 DEF Carried
  <2> QED
    BY <2>1 DEF Flow
<1>4. CASE x = Peer(e) /\ Posts(e, ms)
  <2> DEFINE w == wire[x]
             v == wire'[x]
  <2>1. /\ Carried(x, 0)
        /\ \A i \in DOMAIN v : i \notin DOMAIN w =>
             i - Len(w) \in DOMAIN ms /\ v[i] = ms[i - Len(w)]
    BY <1>4, PostCarries
  <2>2. \A i \in DOMAIN v : i + 0 = i /\ i \in Nat
    BY <2>1 DEF Carried
  <2>3. \A i, j \in DOMAIN v : i - Len(w) = j - Len(w) => i = j
    <3>1. Len(w) \in Nat
      BY <1>2
    <3> QED
      BY <2>2, <3>1
  <2> HIDE DEF w, v
  <2>4. \A i \in DOMAIN v : i \notin DOMAIN w => Sent(e, t, v[i])
    BY <2>1
  <2>5. \A i, j \in DOMAIN v : i \notin DOMAIN w /\ j \notin DOMAIN w =>
          i = j \/ v[i].type \in {"UNSUBSCRIBE", "FETCH_CANCEL"}
    BY <2>1, <2>3
  <2>6. \A i \in DOMAIN v : i + 0 \notin DOMAIN w => Sent(e, t, v[i])
    BY <2>2, <2>4
  <2>7. \A i, j \in DOMAIN v : i + 0 \notin DOMAIN w /\ j + 0 \notin DOMAIN w =>
          i = j \/ v[i].type \in {"UNSUBSCRIBE", "FETCH_CANCEL"}
    BY <2>2, <2>5
  <2> QED
    BY <1>4, <2>1, <2>6, <2>7 DEF Flow, w, v
<1> QED
  BY <1>1, <1>3, <1>4, PostCarries

(* A stream that is left alone is not read.                                *)
LEMMA NotTaking ==
  ASSUME TypeOK, NEW e \in Roles, NEW t, wire'[e] = wire[e], NEW m
  PROVE  ~Taking(e, t, m)
<1> SUFFICES ASSUME Taking(e, t, m)
             PROVE  FALSE
  OBVIOUS
<1> DEFINE w == wire[e]
<1>1. wire[e] # <<>> /\ wire' = [wire EXCEPT ![e] = Tail(wire[e])] /\ wire \in [Roles -> Seq(Messages)]
  BY DEF TypeOK, Taking, Reading
<1>2. w \in Seq(Messages) /\ w # <<>>
  BY <1>1
<1>3. w = Tail(w)
  BY <1>1
<1> HIDE DEF w
<1>4. Len(w) \in Nat /\ Len(Tail(w)) = Len(w) - 1
  BY <1>2
<1> QED
  BY <1>3, <1>4

(* What every step does to the two streams.                                *)
LEMMA WireStep ==
  ASSUME Inv, Greeting, NEW e \in Roles, NEW t, Step(e, t), NEW x \in Roles
  PROVE  \E d \in {0, 1} : Flow(e, t, x, d)
<1>1. /\ TypeOK /\ Setup /\ wire \in [Roles -> Seq(Messages)] /\ wire[x] \in Seq(Messages)
      /\ wire' \in [Roles -> Seq(Messages)] /\ wire'[x] \in Seq(Messages)
  BY TypeKept DEF Inv, TypeOK, Step
<1>2. ASSUME NEW ms, Posts(e, ms) \/ wire' = wire
      PROVE  \A m : ~Taking(e, t, m)
  BY <1>1, <1>2, NotTaking, PostCarries
<1>3. ASSUME wire' = wire
      PROVE  Flow(e, t, x, 0)
  <2>1. DOMAIN <<>> = {}
    OBVIOUS
  <2> QED
    BY <1>1, <1>2, <1>3, <2>1, PostFlows
<1>4. ASSUME NEW m, Opening(e, t, m) \/ Deciding(e, t, m) \/ Counting(e, t, m)
      PROVE  Flow(e, t, x, 0)
  <2>1. DOMAIN <<m>> = {1} /\ <<m>>[1] = m
    OBVIOUS
  <2>2. Posts(e, <<m>>) \/ wire' = wire
    BY <1>4 DEF Opening, Deciding, Counting
  <2>3. CASE Posts(e, <<m>>)
    <3>1. Sent(e, t, m)
      BY <1>4, <2>3 DEF Sent, Posts
    <3>2. \A k : ~Taking(e, t, k)
      BY <1>2, <2>3
    <3>3. /\ \A n \in DOMAIN <<m>> : Sent(e, t, <<m>>[n])
          /\ \A n, k \in DOMAIN <<m>> : n = k \/ <<m>>[n].type \in {"UNSUBSCRIBE", "FETCH_CANCEL"}
      BY <2>1, <3>1
    <3> QED
      BY <1>1, <2>3, <3>2, <3>3, PostFlows
  <2> QED
    BY <1>3, <2>2, <2>3
<1>5. ASSUME NEW ms \in Seq(Messages), Leaving(e, t, ms)
      PROVE  Flow(e, t, x, 0)
  <2>1. PostsSome(e, ms) \/ wire' = wire
    BY <1>5 DEF Leaving
  <2>2. CASE PostsSome(e, ms)
    <3>1. PICK some \in Seq(Messages) :
            /\ Posts(e, some)
            /\ \A n \in DOMAIN some : n \in DOMAIN ms /\ some[n] = ms[n]
      BY <2>2 DEF PostsSome
    <3>2. \A n \in DOMAIN some : \E k \in DOMAIN ms : some[n] = ms[k]
      BY <3>1
    <3>3. \A n \in DOMAIN some : Sent(e, t, some[n])
      BY <1>5, <3>1, <3>2 DEF Sent, Posts
    <3>4. \A n, k \in DOMAIN some : n = k \/ some[n].type \in {"UNSUBSCRIBE", "FETCH_CANCEL"}
      BY <1>5, <3>1 DEF Leaving
    <3> QED
      BY <1>1, <1>2, <3>1, <3>3, <3>4, PostFlows
  <2> QED
    BY <1>3, <2>1, <2>2
<1>6. ASSUME wire[x] # <<>>, wire'[x] = Tail(wire[x]),
             wire[x][1].type \in SetupTypes \/ (x = e /\ Taking(e, t, wire[x][1]))
      PROVE  Flow(e, t, x, 1)
  <2>1. /\ Carried(x, 1) /\ 1 \in DOMAIN wire[x]
        /\ \A i \in DOMAIN wire'[x] : i + 1 \in DOMAIN wire[x]
    BY <1>1, <1>6, TailCarries
  <2> QED
    BY <1>6, <2>1 DEF Flow
<1>7. ASSUME \A m : ~Taking(e, t, m), wire'[x] = wire[x]
      PROVE  Flow(e, t, x, 0)
  <2>1. Carried(x, 0) /\ DOMAIN wire'[x] = DOMAIN wire[x]
    BY <1>1, <1>7, StillCarries
  <2>2. \A i \in DOMAIN wire'[x] : i + 0 \in DOMAIN wire[x]
    BY <2>1 DEF Carried
  <2> QED
    BY <1>7, <2>1, <2>2 DEF Flow
<1>8. ASSUME NEW m \in Messages, Taking(e, t, m)
      PROVE  \E d \in {0, 1} : Flow(e, t, x, d)
  <2>1. wire[e] # <<>> /\ wire' = [wire EXCEPT ![e] = Tail(wire[e])] /\ wire[e][1] = m
    BY <1>8, TakingIs DEF Taking, Reading
  <2>2. CASE x = e
    BY <1>1, <1>6, <1>8, <2>1, <2>2
  <2>3. CASE x # e
    <3>1. Carried(x, 0) /\ wire'[x] = wire[x] /\ DOMAIN wire'[x] = DOMAIN wire[x]
      BY <1>1, <2>1, <2>3, StillCarries
    <3>2. \A i \in DOMAIN wire'[x] : i + 0 \in DOMAIN wire[x]
      BY <3>1 DEF Carried
    <3> QED
      BY <2>3, <3>1, <3>2 DEF Flow
  <2> QED
    BY <2>2, <2>3
<1>9. ASSUME Shaken(e, t)
       PROVE  \E d \in {0, 1} : Flow(e, t, x, d)
  <2>1. \A m : ~Taking(e, t, m)
    BY <1>9 DEF Shaken, Taking, Early
  <2>2. ASSUME wire[x] = <<>>,
               wire'[x] = <<>> \/ \E type \in SetupTypes : \E n : wire'[x] = <<Msg(type, n)>>
        PROVE  Flow(e, t, x, 0)
    <3>1. Carried(x, 0)
      BY <1>1, <2>2, StillCarries
    <3>2. \A i \in DOMAIN wire'[x] : i = 1 /\ wire'[x][i].type \in SetupTypes
      <4>1. CASE wire'[x] = <<>>
        BY <4>1
      <4>2. ASSUME NEW type \in SetupTypes, NEW n, wire'[x] = <<Msg(type, n)>>
            PROVE  \A i \in DOMAIN wire'[x] : i = 1 /\ wire'[x][i].type \in SetupTypes
        <5>1. Msg(type, n).type = type
          BY DEF Msg
        <5> QED
          BY <4>2, <5>1
      <4> QED
        BY <2>2, <4>1, <4>2
    <3> QED
      BY <2>1, <3>1, <3>2 DEF Flow
  <2>3. Roles = {"client", "server"}
    BY DEF Roles
  <2>4. CASE adopt_offering
    <3>1. PICK n : wire' = [wire EXCEPT !["server"] = Append(@, Msg("CLIENT_SETUP", n))]
      BY <2>4 DEF adopt_offering
    <3>2. wire["server"] = <<>>
      BY <1>1, <2>4 DEF adopt_offering, OnConnect, Setup
    <3>3. CASE x = "server"
      BY <1>1, <2>2, <2>3, <3>1, <3>2, <3>3 DEF SetupTypes
    <3>4. CASE x = "client"
      BY <1>1, <1>7, <2>1, <2>3, <3>1, <3>4
    <3> QED
      BY <2>3, <3>3, <3>4
  <2>5. CASE AcceptConnection
    BY <1>7, <2>1, <2>5 DEF AcceptConnection
  <2>6. CASE AcceptSetup
    <3> DEFINE s == receive_client_setup_and_respond(ep["server"], Head(wire["server"]))
    <3>1. /\ ep["server"].session = "SetupExchange" /\ wire["server"] # <<>>
          /\ wire' = [wire EXCEPT !["server"] = Tail(@),
                                 !["client"] = IF s.session = "Active"
                                               THEN <<Msg("SERVER_SETUP", None)>> ELSE <<>>]
      BY <2>6 DEF AcceptSetup
    <3> HIDE DEF s
    <3>2. /\ Early("server") /\ wire["client"] = <<>>
          /\ \A m \in OnWire("server") : m.type = "CLIENT_SETUP"
      BY <1>1, <3>1 DEF Early, Setup, Greeting
    <3>3. CASE x = "server"
      <4>1. wire[x] # <<>> /\ wire'[x] = Tail(wire[x])
        BY <1>1, <2>3, <3>1, <3>3
      <4>2. 1 \in DOMAIN wire[x]
        BY <1>1, <4>1
      <4>3. wire[x][1].type \in SetupTypes
        BY <3>2, <3>3, <4>2 DEF OnWire, SetupTypes
      <4> QED
        BY <1>6, <4>1, <4>3
    <3>4. CASE x = "client"
      <4>1. wire'[x] = IF s.session = "Active" THEN <<Msg("SERVER_SETUP", None)>> ELSE <<>>
        BY <1>1, <2>3, <3>1, <3>4
      <4> QED
        BY <2>2, <3>2, <3>4, <4>1 DEF SetupTypes
    <3> QED
      BY <2>3, <3>3, <3>4
  <2>7. CASE FinishSetup
    <3>1. /\ ep["client"].session = "SetupExchange" /\ wire["client"] # <<>>
          /\ wire' = [wire EXCEPT !["client"] = Tail(@)]
      BY <2>7 DEF FinishSetup
    <3>2. wire["client"][1].type \in SetupTypes
      BY <1>1, <3>1 DEF Greeting, Setup, Early, SetupTypes
    <3>3. CASE x = "client"
      BY <1>1, <1>6, <2>3, <3>1, <3>2, <3>3
    <3>4. CASE x = "server"
      BY <1>1, <1>7, <2>1, <2>3, <3>1, <3>4
    <3> QED
      BY <2>3, <3>3, <3>4
  <2> QED
    BY <1>9, <2>4, <2>5, <2>6, <2>7 DEF Shaken
<1>10. ASSUME NEW id, Streaming(e, t, id)
       PROVE  Flow(e, t, x, 0)
  BY <1>3, <1>10 DEF Streaming
<1> QED
  BY <1>4, <1>5, <1>8, <1>9, <1>10 DEF Step, Shape

(* A message that is written is behind all that was there.                 *)
LEMMA Written ==
  ASSUME TypeOK, NEW e \in Roles, NEW ms, Wrote(e, ms), dropped' = 0, NEW n \in DOMAIN ms
  PROVE  /\ dropped = 0
         /\ \E i \in DOMAIN wire'[Peer(e)] : /\ wire'[Peer(e)][i] = ms[n]
                                             /\ \A j \in DOMAIN wire[Peer(e)] : j < i
         /\ ms[n] \in OnWire(Peer(e))'
<1>1. dropped = 0 /\ Posts(e, ms)
  BY DEF Wrote
<1> DEFINE w == wire[Peer(e)]
           i == Len(w) + n
<1>2. i \in DOMAIN wire'[Peer(e)] /\ wire'[Peer(e)][i] = ms[n]
  BY <1>1, PostCarries
<1>3. \A j \in DOMAIN w : j < i
  <2>1. w \in Seq(Messages) /\ ms \in Seq(Messages)
    BY <1>1, RolesAre DEF TypeOK, Posts
  <2> HIDE DEF w
  <2> QED
    BY <2>1
<1> QED
  BY <1>1, <1>2, <1>3 DEF OnWire

(* What a step may not do: a session that is closed stays closed, and then *)
(* only a handshake goes on; a send that was dropped stays dropped.        *)
LEMMA StepFrame ==
  ASSUME Inv, NEW e \in Roles, NEW t, Step(e, t)
  PROVE  /\ Open' => Open
         /\ ~Open => Shaken(e, t)
         /\ dropped' = 0 => dropped = 0
         /\ Clean' => Clean
<1>1. /\ ep'[e] = t /\ ep'[Peer(e)] = ep[Peer(e)] /\ \A x \in Roles : x = e \/ x = Peer(e)
      /\ Peer(e) \in Roles
  BY EndsOf, RolesAre DEF Step
<1>2. Open \/ Shaken(e, t)
  BY DEF Step, Shape, Opening, Asked, Deciding, Replied, Counting, Leaving, Streaming, Taking
<1>3. Shaken(e, t) => ep[e].session # "Closed" /\ t.session # "Closed"
  BY DEF Shaken, Early
<1>4. Open' => Open
  BY <1>1, <1>2, <1>3 DEF Open
<1>5. dropped' = 0 => dropped = 0
  BY DEF Step, Shape, Opening, Asked, Deciding, Replied, Counting, Leaving, Streaming, Taking,
         Shaken, Wrote
<1> QED
  BY <1>2, <1>4, <1>5 DEF Clean

-----------------------------------------------------------------------------
(* The control stream, message by message *)

(* Where the message in place i of a stream comes from. *)
LEMMA FlowBack ==
  ASSUME NEW e, NEW t, NEW x, NEW d, Flow(e, t, x, d), NEW i \in DOMAIN wire'[x]
  PROVE  /\ i \in Nat /\ i >= 1 /\ d \in Nat
         /\ i + d \in DOMAIN wire[x] => wire'[x][i] = wire[x][i + d]
         /\ i + d \notin DOMAIN wire[x] =>
              wire'[x][i].type \in SetupTypes \/ (x = Peer(e) /\ Sent(e, t, wire'[x][i]))
BY DEF Flow, Carried

(* And where the one that was in place k goes.                             *)
LEMMA FlowForth ==
  ASSUME NEW e, NEW t, NEW x, NEW d, Flow(e, t, x, d), NEW k \in DOMAIN wire[x]
  PROVE  /\ k \in Nat /\ k >= 1 /\ d \in Nat
         /\ k > d => \E i \in DOMAIN wire'[x] : i + d = k /\ wire'[x][i] = wire[x][k]
         /\ ~(k > d) => /\ d = 1 /\ k = 1
                        /\ wire[x][k].type \in SetupTypes \/ (x = e /\ Taking(e, t, wire[x][k]))
<1>1. d \in {0, 1} /\ k \in Nat /\ k >= 1
  BY DEF Flow, Carried
<1>2. ASSUME k > d
      PROVE  \E i \in DOMAIN wire'[x] : i + d = k /\ wire'[x][i] = wire[x][k]
  <2>1. k - d \in DOMAIN wire'[x] /\ wire'[x][k - d] = wire[x][k]
    BY <1>2 DEF Flow, Carried
  <2>2. (k - d) + d = k
    BY <1>1
  <2> QED
    BY <2>1, <2>2
<1>3. ASSUME ~(k > d)
      PROVE  d = 1 /\ k = 1
  BY <1>1, <1>3
<1>4. d = 1 => wire[x][1].type \in SetupTypes \/ (x = e /\ Taking(e, t, wire[x][1]))
  BY DEF Flow
<1> QED
  BY <1>1, <1>2, <1>3, <1>4

(* Two messages keep their order, and the later one is new first.          *)
LEMMA FlowPair ==
  ASSUME NEW e, NEW t, NEW x, NEW d, Flow(e, t, x, d),
         NEW i \in DOMAIN wire'[x], NEW n \in DOMAIN wire'[x], i < n
  PROVE  /\ i + d < n + d
         /\ n + d \in DOMAIN wire[x] => i + d \in DOMAIN wire[x]
         /\ i + d \notin DOMAIN wire[x] => wire'[x][i].type \in {"UNSUBSCRIBE", "FETCH_CANCEL"}
<1>1. i \in Nat /\ n \in Nat /\ d \in Nat
  BY FlowBack
<1>2. i + d < n + d /\ i # n
  BY <1>1
<1>3. n + d \in DOMAIN wire[x] => i + d \in DOMAIN wire[x]
  BY DEF Flow, Carried
<1>4. i + d \notin DOMAIN wire[x] /\ n + d \notin DOMAIN wire[x] =>
        wire'[x][i].type \in {"UNSUBSCRIBE", "FETCH_CANCEL"}
  BY <1>2 DEF Flow
<1> QED
  BY <1>2, <1>3, <1>4

(* What is read is the first, and then one place is free.                  *)
LEMMA FlowTaken ==
  ASSUME Inv, NEW e \in Roles, NEW t, NEW d, Flow(e, t, e, d), NEW m, Taking(e, t, m)
  PROVE  d = 1 /\ 1 \in DOMAIN wire[e] /\ wire[e][1] = m
<1>1. d = 1
  BY DEF Flow
<1> QED
  BY <1>1, TakingIs

(* A message that is there was there, or is sent; one that was there is    *)
(* there, or is read.                                                      *)
LEMMA WireFrom ==
  ASSUME Inv, Greeting, NEW e \in Roles, NEW t, Step(e, t), NEW x \in Roles, NEW m \in OnWire(x)',
         m.type \notin SetupTypes
  PROVE  m \in OnWire(x) \/ (x = Peer(e) /\ Sent(e, t, m))
<1>1. PICK d \in {0, 1} : Flow(e, t, x, d)
  BY WireStep
<1>2. PICK i \in DOMAIN wire'[x] : m = wire'[x][i]
  BY DEF OnWire
<1> QED
  BY <1>1, <1>2, FlowBack DEF OnWire

(* What was on the wire is still there, unless it was read.                *)
LEMMA WireStays ==
  ASSUME Inv, Greeting, NEW e \in Roles, NEW t, Step(e, t), NEW x \in Roles, NEW m \in OnWire(x),
         m.type \notin SetupTypes
  PROVE  m \in OnWire(x)' \/ (x = e /\ Taking(e, t, m))
<1>1. PICK d \in {0, 1} : Flow(e, t, x, d)
  BY WireStep
<1>2. PICK k \in DOMAIN wire[x] : m = wire[x][k]
  BY DEF OnWire
<1> QED
  BY <1>1, <1>2, FlowForth DEF OnWire

(* What is sent, by its type. *)
LEMMA SentBy ==
  ASSUME NEW e, NEW t, NEW m, Sent(e, t, m)
  PROVE  /\ Open /\ ~Early(e) /\ ~Shaken(e, t)
         /\ m.type \in RequestTypes => Opening(e, t, m)
         /\ m.type \in AnswerTypes => Deciding(e, t, m)
         /\ m.type \in CountTypes => Counting(e, t, m)
         /\ m.type \in EndTypes \union AboutTypes =>
              \E ms \in Seq(Messages), id \in Ids :
                Leaving(e, t, ms) /\ Farewell(e, t, id, m) /\ \E n \in DOMAIN ms : m = ms[n]
         /\ m.type \in RequestTypes \/ m.type \in AnswerTypes \/ m.type \in CountTypes
              \/ m.type \in EndTypes \union AboutTypes
<1>0. ~Early(e) /\ ~Shaken(e, t)
  BY DEF Sent, Shaken
<1>1. /\ \A type \in RequestTypes : type \notin AnswerTypes \union CountTypes \union EndTypes \union AboutTypes
      /\ \A type \in AnswerTypes : type \notin CountTypes \union EndTypes \union AboutTypes
      /\ \A type \in CountTypes : type \notin EndTypes \union AboutTypes
  BY DEF RequestTypes, AnswerTypes, OkTypes, ErrorTypes, CountTypes, EndTypes, AboutTypes
<1>2. CASE Opening(e, t, m)
  BY <1>0, <1>1, <1>2 DEF Opening, Asked
<1>3. CASE Deciding(e, t, m)
  BY <1>0, <1>1, <1>3 DEF Deciding, Replied, AnswerTypes
<1>4. CASE Counting(e, t, m)
  <2>1. m.type \in CountTypes /\ Open
    BY <1>4 DEF Counting, CountTypes
  <2> QED
    BY <1>0, <1>1, <1>4, <2>1
<1>5. ASSUME NEW ms \in Seq(Messages), Leaving(e, t, ms), NEW n \in DOMAIN ms, m = ms[n]
      PROVE  /\ Open /\ m.type \in EndTypes \union AboutTypes
             /\ \E id \in Ids : Farewell(e, t, id, m)
  <2>1. PICK id \in Ids : Farewell(e, t, id, m)
    BY <1>5 DEF Leaving
  <2>2. m.type \in EndTypes \union AboutTypes
    BY <2>1 DEF Farewell, Names, EndTypes, AboutTypes
  <2> QED
    BY <1>5, <2>1, <2>2 DEF Leaving
<1>6. CASE \E ms \in Seq(Messages) : Leaving(e, t, ms) /\ \E n \in DOMAIN ms : m = ms[n]
  <2>1. PICK ms \in Seq(Messages) : Leaving(e, t, ms) /\ \E n \in DOMAIN ms : m = ms[n]
    BY <1>6
  <2>2. PICK id \in Ids : Farewell(e, t, id, m)
    BY <1>5, <2>1
  <2>3. Open /\ m.type \in EndTypes \union AboutTypes
    BY <1>5, <2>1
  <2> QED
    BY <1>0, <1>1, <2>1, <2>2, <2>3
<1> QED
  BY <1>2, <1>3, <1>4, <1>6 DEF Sent

-----------------------------------------------------------------------------
(* The endpoint, field by field *)

(* What becomes of e's record of request id. *)
Enrolled(e, t, id, m) ==
  /\ Taking(e, t, m) /\ Enters(ep[e], t, m) /\ m.id = id /\ m.type # "SUBSCRIBE_UPDATE"
  /\ ep[e].session = "Active"

Affected(e, t, id, m) ==
  /\ Taking(e, t, m) /\ m.type \in AnswerTypes \union EndTypes \union AboutTypes
  /\ Concerns(ep[e], id, m)
  /\ Changed(ep[e], t, id, EventOf(m.type), BindsTo(ep[e], id, m))

Parted(e, t, id, m) ==
  /\ \E ms \in Seq(Messages) : Leaving(e, t, ms) /\ \E n \in DOMAIN ms : m = ms[n]
  /\ Farewell(e, t, id, m)
  /\ t.requests[id].kind = ep[e].requests[id].kind
  /\ t.requests[id].what = ep[e].requests[id].what
  /\ t.requests[id].alias = ep[e].requests[id].alias

Fate(e, t, id) ==
  \/ t.requests[id] = ep[e].requests[id]
  \/ \E m \in Messages :
       \/ Opening(e, t, m) /\ m.id = id /\ m.type # "SUBSCRIBE_UPDATE"
       \/ Deciding(e, t, m) /\ m.id = id
       \/ Enrolled(e, t, id, m) \/ Affected(e, t, id, m) \/ Parted(e, t, id, m)
  \/ Streaming(e, t, id) /\ Changed(ep[e], t, id, "end", ep[e].requests[id].alias)

(* A record is left alone, or one of these becomes of it.                  *)
LEMMA FateIs ==
  ASSUME Inv, NEW e \in Roles, NEW t, Step(e, t), NEW id \in Ids
  PROVE  Fate(e, t, id)
<1> DEFINE Unmoved == t.requests[id] = ep[e].requests[id]
<1>1. ASSUME NEW m \in Messages, Opening(e, t, m)
      PROVE  Fate(e, t, id)
  <2>1. Unmoved \/ (m.id = id /\ m.type # "SUBSCRIBE_UPDATE")
    BY <1>1 DEF Opening
  <2> QED
    BY <1>1, <2>1 DEF Fate
<1>2. ASSUME NEW m \in Messages, Deciding(e, t, m)
      PROVE  Fate(e, t, id)
  <2>1. Unmoved \/ m.id = id
    BY <1>2 DEF Deciding, Changed
  <2> QED
    BY <1>2, <2>1 DEF Fate
<1>3. ASSUME NEW m \in Messages, Counting(e, t, m)
      PROVE  Unmoved
  BY <1>3 DEF Counting, Quiet
<1>4. ASSUME NEW m \in Messages, Taking(e, t, m)
      PROVE  Fate(e, t, id)
  <2>1. Taken(e, t, m)
    BY <1>4, TakingIs
  <2>2. CASE Enters(ep[e], t, m)
    <3>1. Unmoved \/ (m.id = id /\ m.type # "SUBSCRIBE_UPDATE" /\ ep[e].session = "Active")
      BY <2>2 DEF Enters
    <3> QED
      BY <1>4, <2>2, <3>1 DEF Fate, Enrolled
  <2>3. CASE Heeds(ep[e], t, m)
    <3>1. CASE t = ep[e]
      BY <3>1 DEF Fate
    <3>2. CASE t # ep[e]
      <4>1. PICK j \in Ids : /\ Concerns(ep[e], j, m)
                             /\ Changed(ep[e], t, j, EventOf(m.type), BindsTo(ep[e], j, m))
        BY <2>3, <3>2 DEF Heeds
      <4>2. m.type \in AnswerTypes \union EndTypes \union AboutTypes
        BY <2>3 DEF Heeds
      <4>3. CASE j = id
        BY <1>4, <4>1, <4>2, <4>3 DEF Fate, Affected
      <4>4. CASE j # id
        BY <4>1, <4>4 DEF Fate, Changed
      <4> QED
        BY <4>3, <4>4
    <3> QED
      BY <3>1, <3>2
  <2>4. CASE Counts(ep[e], t, m) \/ Closes(ep[e], t, m)
    BY <2>4 DEF Counts, Closes, Quiet, Fate
  <2> QED
    BY <2>1, <2>2, <2>3, <2>4 DEF Taken
<1>5. ASSUME NEW ms \in Seq(Messages), Leaving(e, t, ms)
      PROVE  Fate(e, t, id)
  <2>1. CASE Unmoved
    BY <2>1 DEF Fate
  <2>2. CASE ~Unmoved
    <3>1. PICK n \in DOMAIN ms :
             /\ Farewell(e, t, id, ms[n])
             /\ t.requests[id].kind = ep[e].requests[id].kind
             /\ t.requests[id].what = ep[e].requests[id].what
             /\ t.requests[id].alias = ep[e].requests[id].alias
      BY <1>5, <2>2 DEF Leaving
    <3>2. ms[n] \in Messages
      OBVIOUS
    <3>3. Parted(e, t, id, ms[n])
      BY <1>5, <3>1 DEF Parted
    <3> QED
      BY <3>2, <3>3 DEF Fate
  <2> QED
    BY <2>1, <2>2
<1>6. ASSUME NEW j \in Ids, Streaming(e, t, j)
      PROVE  Fate(e, t, id)
  <2>1. t = ep[e] \/ Changed(ep[e], t, j, "end", ep[e].requests[j].alias)
    BY <1>6 DEF Streaming
  <2>2. CASE t = ep[e] \/ j # id
    BY <2>1, <2>2 DEF Fate, Changed
  <2>3. CASE t # ep[e] /\ j = id
    BY <1>6, <2>1, <2>3 DEF Fate
  <2> QED
    BY <2>2, <2>3
<1>7. ASSUME Shaken(e, t)
      PROVE  Unmoved
  BY <1>7 DEF Shaken, Quiet
<1> QED
  BY <1>1, <1>2, <1>3, <1>4, <1>5, <1>6, <1>7 DEF Step, Shape, Fate

(* What each step does to the other fields. *)
Closing(e, t)    == \E m \in Messages : Taking(e, t, m) /\ Closes(ep[e], t, m)
Retiring(e, t)   == \E m \in Messages : /\ Taking(e, t, m) /\ Counts(ep[e], t, m)
                                        /\ m.type = "GOAWAY" /\ t.session = "Draining"
Granting(e, t)   == \E m \in Messages : Counting(e, t, m) /\ m.type = "MAX_REQUEST_ID"
Raising(e, t)    == \E m \in Messages : /\ Taking(e, t, m) /\ Counts(ep[e], t, m)
                                        /\ m.type = "MAX_REQUEST_ID" /\ t.max_id = m.id
Dismissing(e, t) == \E m \in Messages : Counting(e, t, m) /\ m.type = "GOAWAY"

(* Which steps change the other fields of an endpoint.                     *)
LEMMA StepFields ==
  ASSUME Inv, NEW e \in Roles, NEW t, Step(e, t)
  PROVE  /\ t.session = ep[e].session \/ Closing(e, t) \/ Retiring(e, t) \/ Shaken(e, t)
         /\ t.closed_for = ep[e].closed_for \/ Closing(e, t)
         /\ t.advertised_max_id = ep[e].advertised_max_id \/ Granting(e, t) \/ Shaken(e, t)
         /\ t.max_id = ep[e].max_id \/ Raising(e, t) \/ Shaken(e, t)
         /\ t.next_id = ep[e].next_id \/ \E m \in Messages : Opening(e, t, m)
         /\ \/ t.peer_next_id = ep[e].peer_next_id \/ Closing(e, t)
            \/ \E m \in Messages : Taking(e, t, m) /\ Enters(ep[e], t, m)
         /\ goaway' = goaway \/ (Dismissing(e, t) /\ ~goaway[e] /\ goaway' = [goaway EXCEPT ![e] = TRUE])
         /\ stream' = stream \/ \E id \in Ids : Streaming(e, t, id)
<1>1. ASSUME NEW m \in Messages, Opening(e, t, m)
      PROVE  /\ t.session = ep[e].session /\ t.peer_next_id = ep[e].peer_next_id
             /\ Steady(ep[e], t) /\ goaway' = goaway /\ stream' = stream
  BY <1>1 DEF Opening, Asked
<1>2. ASSUME NEW m \in Messages, Deciding(e, t, m)
      PROVE  /\ t.session = ep[e].session /\ Alike(ep[e], t)
             /\ Steady(ep[e], t) /\ goaway' = goaway /\ stream' = stream
  BY <1>2 DEF Deciding, Replied, Changed
<1>3. ASSUME NEW m \in Messages, Counting(e, t, m)
      PROVE  /\ t.session = ep[e].session /\ Alike(ep[e], t) /\ t.closed_for = ep[e].closed_for
             /\ t.max_id = ep[e].max_id /\ stream' = stream
             /\ t.advertised_max_id = ep[e].advertised_max_id \/ m.type = "MAX_REQUEST_ID"
             /\ goaway' = goaway \/ (m.type = "GOAWAY" /\ ~goaway[e] /\ goaway' = [goaway EXCEPT ![e] = TRUE])
  BY <1>3 DEF Counting, Quiet, Steady
<1>4. ASSUME NEW m \in Messages, Taking(e, t, m)
      PROVE  /\ goaway' = goaway /\ stream' = stream
             /\ \/ Enters(ep[e], t, m) \/ Closes(ep[e], t, m) \/ Counts(ep[e], t, m)
                \/ t.session = ep[e].session /\ Alike(ep[e], t) /\ Steady(ep[e], t)
  <2>1. Taken(e, t, m) /\ goaway' = goaway /\ stream' = stream
    BY <1>4, TakingIs DEF Taking
  <2>2. Heeds(ep[e], t, m) => t.session = ep[e].session /\ Alike(ep[e], t) /\ Steady(ep[e], t)
    BY DEF Heeds, Changed, Alike, Steady
  <2> QED
    BY <2>1, <2>2 DEF Taken
<1>5. ASSUME NEW ms \in Seq(Messages), Leaving(e, t, ms)
      PROVE  /\ t.session = ep[e].session /\ Alike(ep[e], t)
             /\ Steady(ep[e], t) /\ goaway' = goaway /\ stream' = stream
  BY <1>5 DEF Leaving
<1>6. ASSUME NEW id \in Ids, Streaming(e, t, id)
      PROVE  /\ t.session = ep[e].session /\ Alike(ep[e], t)
             /\ Steady(ep[e], t) /\ goaway' = goaway
  BY <1>6 DEF Streaming, Changed, Alike, Steady
<1>7. ASSUME Shaken(e, t)
      PROVE  /\ Alike(ep[e], t) /\ t.closed_for = ep[e].closed_for
             /\ goaway' = goaway /\ stream' = stream
  BY <1>7 DEF Shaken, Quiet
<1>8. CASE \E m \in Messages : Opening(e, t, m)
  BY <1>1, <1>8 DEF Steady
<1>9. CASE \E m \in Messages : Deciding(e, t, m)
  BY <1>2, <1>9 DEF Steady, Alike
<1>10. CASE \E m \in Messages : Counting(e, t, m)
  BY <1>3, <1>10 DEF Alike, Granting, Dismissing
<1>11. CASE \E m \in Messages : Taking(e, t, m)
  <2>1. PICK m \in Messages : Taking(e, t, m)
    BY <1>11
  <2>2. goaway' = goaway /\ stream' = stream
    BY <1>4, <2>1
  <2>3. CASE Enters(ep[e], t, m)
    BY <2>1, <2>2, <2>3 DEF Enters, Steady
  <2>4. CASE Closes(ep[e], t, m)
    <3>1. Closing(e, t)
      BY <2>1, <2>4 DEF Closing
    <3> QED
      BY <2>2, <2>4, <3>1 DEF Closes
  <2>5. CASE Counts(ep[e], t, m)
    BY <2>1, <2>2, <2>5 DEF Counts, Quiet, Alike, Retiring, Raising
  <2>6. CASE t.session = ep[e].session /\ Alike(ep[e], t) /\ Steady(ep[e], t)
    BY <2>2, <2>6 DEF Alike, Steady
  <2> QED
    BY <1>4, <2>1, <2>3, <2>4, <2>5, <2>6
<1>12. CASE \E ms \in Seq(Messages) : Leaving(e, t, ms)
  BY <1>5, <1>12 DEF Steady, Alike
<1>13. CASE \E id \in Ids : Streaming(e, t, id)
  BY <1>6, <1>13 DEF Steady, Alike
<1>14. CASE Shaken(e, t)
  BY <1>7, <1>14 DEF Alike
<1> QED
  BY <1>8, <1>9, <1>10, <1>11, <1>12, <1>13, <1>14 DEF Step, Shape

-----------------------------------------------------------------------------
(* What holds of every session is kept *)

(* An endpoint that fails is the only one with a reason.                   *)
LEMMA ClosersKept ==
  ASSUME Inv, Closers, NEW e \in Roles, NEW t, Step(e, t)
  PROVE  Closers'
<1>1. ep'[e] = t /\ ep'[Peer(e)] = ep[Peer(e)] /\ \A x \in Roles : x = e \/ x = Peer(e)
  BY EndsOf, RolesAre DEF Step
<1>2. ASSUME t.session # "Closed"
      PROVE  t.closed_for = None
  <2>1. ~Closing(e, t)
    BY <1>2 DEF Closing, Closes
  <2>2. t.closed_for = ep[e].closed_for
    BY <2>1, StepFields
  <2>3. t.session = ep[e].session \/ Retiring(e, t) \/ Shaken(e, t)
    BY <2>1, StepFields
  <2>4. ep[e].session # "Closed"
    BY <1>2, <2>3 DEF Retiring, Taking, Open, Shaken, Early
  <2> QED
    BY <2>2, <2>4 DEF Closers
<1> QED
  BY <1>1, <1>2 DEF Closers

(* Outside the handshake nobody leaves it, or enters it again.             *)
LEMMA Awake ==
  ASSUME Inv, NEW e \in Roles, NEW t, Step(e, t), ~Shaken(e, t)
  PROVE  /\ \A x \in Roles : Early(x)' <=> Early(x)
         /\ Early(e) => wire' = wire
         /\ wire' # wire => wire'[e] = wire[e] \/ wire'[Peer(e)] = wire[Peer(e)]
         /\ wire'[e] # wire[e] => \E m \in Messages : Taking(e, t, m)
         /\ wire'[Peer(e)] # wire[Peer(e)] => \E ms \in Seq(Messages) : Posts(e, ms)
<1>1. /\ ep'[e] = t /\ ep'[Peer(e)] = ep[Peer(e)] /\ \A x \in Roles : x = e \/ x = Peer(e)
      /\ Peer(e) \in Roles /\ Peer(e) # e /\ wire \in [Roles -> Seq(Messages)] /\ TypeOK
  BY EndsOf, RolesAre DEF Step, Inv, TypeOK
<1>2. t.session = ep[e].session \/ Closing(e, t) \/ Retiring(e, t)
  BY StepFields
<1>3. (t.session \in {"Connecting", "SetupExchange"}) <=> Early(e)
  BY <1>2 DEF Closing, Closes, Retiring, Taking, Reading, Early
<1>4. \A x \in Roles : Early(x)' <=> Early(x)
  BY <1>1, <1>3 DEF Early
<1>5. \/ wire' = wire \/ \E ms \in Seq(Messages) : Posts(e, ms)
      \/ \E m \in Messages : Taking(e, t, m)
  BY DEF Step, Shape, Opening, Deciding, Counting, Leaving, PostsSome, Streaming, Posts
<1>6. ASSUME NEW ms \in Seq(Messages), Posts(e, ms)
      PROVE  wire'[e] = wire[e] /\ ~Early(e)
  BY <1>1, <1>6, PostsIs DEF Posts
<1>7. ASSUME NEW m \in Messages, Taking(e, t, m)
      PROVE  wire'[Peer(e)] = wire[Peer(e)] /\ ~Early(e)
  BY <1>1, <1>7 DEF Taking, Reading
<1> QED
  BY <1>4, <1>5, <1>6, <1>7

(* The four steps of the handshake. *)
LEMMA AdoptIs ==
  ASSUME Inv, adopt_offering
  PROVE  /\ Early("client") /\ Early("server") /\ ep'["server"] = ep["server"]
         /\ ep'["client"].max_id = ep["client"].max_id
         /\ wire["client"] = <<>> /\ wire["server"] = <<>> /\ wire'["client"] = <<>>
         /\ \E m \in Messages : /\ wire'["server"] = <<m>> /\ m.type = "CLIENT_SETUP"
                                /\ m.id # None => m.id = ep'["client"].advertised_max_id
<1>1. /\ TypeOK /\ Setup /\ ep \in [Roles -> Endpoints] /\ wire \in [Roles -> Seq(Messages)]
      /\ ep["client"] \in Endpoints /\ "client" \in Roles /\ "server" \in Roles
  BY DEF Inv, TypeOK, Roles
<1>2. PICK ceiling \in load.ceilings \union {None} :
        /\ ep' = [ep EXCEPT !["client"] = send_client_setup(connect(@), ceiling)]
        /\ wire' = [wire EXCEPT !["server"] = Append(@, Msg("CLIENT_SETUP", ceiling))]
  BY DEF adopt_offering
<1>3. ep["client"].session = "Connecting"
  BY DEF adopt_offering, OnConnect
<1>4. Early("client") /\ Early("server") /\ wire["client"] = <<>> /\ wire["server"] = <<>>
  BY <1>1, <1>3 DEF Setup, Early
<1> DEFINE t == send_client_setup(connect(ep["client"]), ceiling)
           m == Msg("CLIENT_SETUP", ceiling)
<1>5. ep'["client"] = t /\ ep'["server"] = ep["server"]
  BY <1>1, <1>2
<1>6. t.max_id = ep["client"].max_id /\ (ceiling # None => t.advertised_max_id = ceiling)
  BY <1>1 DEF send_client_setup, connect, Endpoints
<1>7. wire'["client"] = <<>> /\ wire'["server"] = <<m>>
  BY <1>1, <1>2, <1>4
<1>8. ceiling \in Nat \union {None}
  BY <1>1, SessionAssumption DEF TypeOK, WorkloadType
<1>9. m \in Messages /\ m.type = "CLIENT_SETUP" /\ m.id = ceiling
  <2>1. "CLIENT_SETUP" \in MessageTypes
    BY DEF MessageTypes, SetupTypes
  <2> QED
    BY <1>8, <2>1, PlainMsgIs
<1> QED
  BY <1>4, <1>5, <1>6, <1>7, <1>9

(* The server reads the CLIENT_SETUP, and answers it or not.               *)
LEMMA AcceptIs ==
  ASSUME Inv, Greeting, AcceptSetup
  PROVE  /\ Early("server") /\ Early("client") /\ ep'["client"] = ep["client"]
         /\ ep'["server"].advertised_max_id = ep["server"].advertised_max_id
         /\ ep'["server"].max_id <= ep["client"].advertised_max_id
         /\ wire'["server"] = <<>>
         /\ \/ ep'["server"].session = "SetupExchange" /\ wire'["client"] = <<>>
               /\ ep'["server"].max_id = ep["server"].max_id
            \/ /\ ep'["server"].session = "Active"
               /\ \E m \in Messages : wire'["client"] = <<m>> /\ m.type = "SERVER_SETUP" /\ m.id = None
<1> DEFINE s == ep["server"]
           w == wire["server"]
           m == Head(w)
           t == receive_client_setup_and_respond(s, m)
<1>1. /\ TypeOK /\ Setup /\ ep \in [Roles -> Endpoints] /\ wire \in [Roles -> Seq(Messages)]
      /\ s \in Endpoints /\ "client" \in Roles /\ "server" \in Roles /\ w \in Seq(Messages)
      /\ ep["client"] \in Endpoints
  BY DEF Inv, TypeOK, Roles
<1>2. /\ s.session = "SetupExchange" /\ w # <<>>
      /\ ep' = [ep EXCEPT !["server"] = t]
      /\ wire' = [wire EXCEPT !["server"] = Tail(@),
                             !["client"] = IF t.session = "Active"
                                           THEN <<Msg("SERVER_SETUP", None)>> ELSE <<>>]
  BY DEF AcceptSetup
<1>3. Early("server") /\ Early("client") /\ Len(w) <= 1
  BY <1>1, <1>2 DEF Early, Setup
<1>4. Tail(w) = <<>> /\ m = w[1] /\ 1 \in DOMAIN w
  <2> HIDE DEF w
  <2> QED
    BY <1>1, <1>2, <1>3
<1>5. m \in OnWire("server") /\ m \in Messages
  BY <1>1, <1>4 DEF OnWire
<1>6. m.id # None => m.id <= ep["client"].advertised_max_id
  BY <1>3, <1>5 DEF Greeting
<1>7. s.max_id = 0 /\ ep["client"].advertised_max_id \in Nat
  BY <1>1, <1>3 DEF Greeting, Endpoints
<1>8. Msg("SERVER_SETUP", None) \in Messages
  BY PlainMsgIs DEF MessageTypes, SetupTypes
<1>9. Msg("SERVER_SETUP", None).type = "SERVER_SETUP" /\ Msg("SERVER_SETUP", None).id = None
  BY DEF Msg
<1>10. ep'["server"] = t /\ ep'["client"] = ep["client"]
  BY <1>1, <1>2
<1>11. wire'["server"] = <<>>
       /\ wire'["client"] = IF t.session = "Active" THEN <<Msg("SERVER_SETUP", None)>> ELSE <<>>
  BY <1>1, <1>2, <1>4
<1> HIDE DEF w, m
<1>12. /\ t.advertised_max_id = s.advertised_max_id /\ t.max_id <= ep["client"].advertised_max_id
       /\ (t.session = "SetupExchange" /\ t.max_id = s.max_id) \/ t.session = "Active"
  <2>1. CASE m.id # None /\ ~Increases(s, m.id)
    BY <1>2, <1>7, <2>1 DEF receive_client_setup_and_respond
  <2>2. CASE ~(m.id # None /\ ~Increases(s, m.id))
    <3> DEFINE g == Granted(s, m.id)
    <3>1. /\ g \in [role : Roles, session : SessionStates, next_id : Nat, max_id : Nat \union {m.id},
                    peer_next_id : Nat, advertised_max_id : Nat, requests : [Ids -> Requests],
                    closed_for : SessionErrors \union {None}]
          /\ g.session = s.session /\ g.advertised_max_id = s.advertised_max_id
          /\ g.max_id = IF m.id = None THEN s.max_id ELSE m.id
      BY <1>1 DEF Granted, update_max, Endpoints
    <3>2. t = [g EXCEPT !.session = IF OnSetupComplete(@) THEN "Active" ELSE @]
      BY <2>2 DEF receive_client_setup_and_respond
    <3> HIDE DEF g, t
    <3>3. t.session = "Active" /\ t.advertised_max_id = g.advertised_max_id /\ t.max_id = g.max_id
      BY <1>2, <3>1, <3>2 DEF OnSetupComplete
    <3> QED
      BY <1>6, <1>7, <3>1, <3>3
  <2> QED
    BY <2>1, <2>2
<1> HIDE DEF t
<1> QED
  BY <1>3, <1>8, <1>9, <1>10, <1>11, <1>12

(* The client reads the SERVER_SETUP, which grants nothing.                *)
LEMMA FinishIs ==
  ASSUME Inv, Greeting, FinishSetup
  PROVE  /\ Early("client") /\ ~Early("server") /\ ep'["server"] = ep["server"]
         /\ ep'["client"].session = "Active" /\ ep'["client"].max_id = ep["client"].max_id
         /\ ep'["client"].advertised_max_id = ep["client"].advertised_max_id
         /\ wire'["server"] = wire["server"]
<1> DEFINE s == ep["client"]
           m == Head(wire["client"])
           t == receive_server_setup(s, m)
<1>1. /\ TypeOK /\ Setup /\ ep \in [Roles -> Endpoints] /\ wire \in [Roles -> Seq(Messages)]
      /\ s \in Endpoints /\ "client" \in Roles /\ "server" \in Roles
  BY DEF Inv, TypeOK, Roles
<1>2. /\ s.session = "SetupExchange" /\ wire["client"] # <<>>
      /\ ep' = [ep EXCEPT !["client"] = t]
      /\ wire' = [wire EXCEPT !["client"] = Tail(@)]
  BY DEF FinishSetup
<1>3. Early("client") /\ ~Early("server")
  BY <1>1, <1>2 DEF Early, Setup
<1>4. m.id = None
  <2>1. m = wire["client"][1]
    BY <1>1, <1>2, ReadsIs
  <2> QED
    BY <1>3, <2>1 DEF Greeting
<1>5. ep'["client"] = t /\ ep'["server"] = ep["server"] /\ wire'["server"] = wire["server"]
  BY <1>1, <1>2
<1>6. t = [s EXCEPT !.session = "Active"]
  BY <1>2, <1>4 DEF receive_server_setup, OnSetupComplete, Granted
<1>7. t.session = "Active" /\ t.max_id = s.max_id /\ t.advertised_max_id = s.advertised_max_id
  BY <1>1, <1>6 DEF Endpoints
<1> QED
  BY <1>3, <1>5, <1>7

(* The server is connected, and has sent nothing.                          *)
LEMMA ConnectionIs ==
  ASSUME Inv, AcceptConnection
  PROVE  /\ Early("server") /\ ep'["client"] = ep["client"] /\ wire' = wire
         /\ ep'["server"].session = "SetupExchange" /\ ep'["server"].max_id = ep["server"].max_id
         /\ ep'["server"].advertised_max_id = ep["server"].advertised_max_id
BY DEF Inv, TypeOK, Roles, AcceptConnection, OnConnect, Early, connect, Endpoints

(* The handshake goes as Greeting says.                                    *)
LEMMA GreetingKept ==
  ASSUME Inv, Greeting, NEW e \in Roles, NEW t, Step(e, t)
  PROVE  Greeting'
<1>1. /\ TypeOK /\ TypeOK' /\ Setup /\ "client" \in Roles /\ "server" \in Roles
      /\ \A x \in Roles : x = "client" \/ x = "server"
  BY TypeKept DEF Inv, Roles, Step
<1>2. CASE Shaken(e, t)
  <2>1. CASE adopt_offering
    <3>1. PICK m \in Messages : /\ wire'["server"] = <<m>> /\ m.type = "CLIENT_SETUP"
                                /\ m.id # None => m.id = ep'["client"].advertised_max_id
      BY <2>1, AdoptIs
    <3>2. \A k \in OnWire("server")' : k = m
      BY <3>1 DEF OnWire
    <3>3. ep'["client"].advertised_max_id \in Nat
      BY <1>1 DEF TypeOK, Endpoints
    <3>4. Early("server")' /\ Early("client") /\ Early("server")
      BY <2>1, AdoptIs DEF Early
    <3>5. \A x \in Roles : ep'[x].max_id = ep[x].max_id
      BY <1>1, <2>1, AdoptIs
    <3>6. \A x \in Roles : Early(x)' => ep'[x].max_id = 0
      BY <1>1, <3>4, <3>5 DEF Greeting
    <3>7. \A k \in OnWire("server")' :
            k.type = "CLIENT_SETUP" /\ (k.id # None => k.id <= ep'["client"].advertised_max_id)
      BY <3>1, <3>2, <3>3
    <3> QED
      BY <3>4, <3>6, <3>7 DEF Greeting
  <2>2. CASE AcceptConnection
    <3>1. /\ ep'["client"] = ep["client"] /\ wire' = wire /\ Early("server") /\ Early("server")'
          /\ ep'["server"].max_id = ep["server"].max_id
      BY <2>2, ConnectionIs DEF Early
    <3>2. \A x \in Roles : Early(x)' => ep'[x].max_id = 0
      BY <1>1, <3>1 DEF Greeting, Early
    <3>3. OnWire("server")' = OnWire("server")
      BY <3>1 DEF OnWire
    <3> QED
      BY <3>1, <3>2, <3>3 DEF Greeting
  <2>3. CASE AcceptSetup
    <3>1. /\ ep'["client"] = ep["client"] /\ wire'["server"] = <<>> /\ Early("server")
          /\ \/ ep'["server"].session = "SetupExchange" /\ wire'["client"] = <<>>
                /\ ep'["server"].max_id = ep["server"].max_id
             \/ /\ ep'["server"].session = "Active"
                /\ \E m \in Messages : wire'["client"] = <<m>> /\ m.type = "SERVER_SETUP" /\ m.id = None
      BY <2>3, AcceptIs
    <3>2. \A m : m \notin OnWire("server")'
      BY <3>1 DEF OnWire
    <3>3. \A x \in Roles : Early(x)' => ep'[x].max_id = 0
      BY <1>1, <3>1 DEF Greeting, Early
    <3>4. CASE ep'["server"].session = "SetupExchange"
      <4>1. Early("server")'
        BY <3>4 DEF Early
      <4> QED
        BY <3>2, <3>3, <4>1 DEF Greeting
    <3>5. ASSUME NEW m \in Messages, wire'["client"] = <<m>>, m.type = "SERVER_SETUP", m.id = None,
                 ep'["server"].session = "Active"
          PROVE  Greeting'
      <4>1. wire'["client"] # <<>> /\ wire'["client"][1] = m
        BY <3>5
      <4> QED
        BY <3>2, <3>3, <3>5, <4>1 DEF Greeting
    <3> QED
      BY <3>1, <3>4, <3>5
  <2>4. CASE FinishSetup
    <3>1. /\ ~Early("server") /\ ep'["server"] = ep["server"]
          /\ ep'["client"].session = "Active"
      BY <2>4, FinishIs
    <3>2. ~Early("client")' /\ ~Early("server")'
      BY <3>1 DEF Early
    <3> QED
      BY <1>1, <3>2 DEF Greeting
  <2> QED
    BY <1>2, <2>1, <2>2, <2>3, <2>4 DEF Shaken
<1>3. CASE ~Shaken(e, t)
  <2>1. /\ ep'[e] = t /\ ep'[Peer(e)] = ep[Peer(e)] /\ \A x \in Roles : x = e \/ x = Peer(e)
        /\ Peer(e) \in Roles /\ Peer(e) # e
    BY EndsOf, RolesAre DEF Step
  <2>2. /\ \A x \in Roles : Early(x)' <=> Early(x)
        /\ Early(e) => wire' = wire
    BY <1>3, Awake
  <2>3. ASSUME NEW x \in Roles, Early(x)'
        PROVE  ep'[x].max_id = 0
    <3>1. Early(x)
      BY <2>2, <2>3
    <3>2. CASE x = e
      <4>1. ~Raising(e, t)
        BY <3>1, <3>2 DEF Raising, Taking, Reading
      <4> QED
        BY <1>3, <2>1, <3>1, <3>2, <4>1, StepFields DEF Greeting
    <3>3. CASE x # e
      BY <2>1, <3>1, <3>3 DEF Greeting
    <3> QED
      BY <3>2, <3>3
  <2>4. ASSUME Early("client")', ~Early("server")'
        PROVE  /\ wire'["client"] # <<>>
               /\ wire'["client"][1].type = "SERVER_SETUP" /\ wire'["client"][1].id = None
    <3>1. Early("client") /\ ~Early("server")
      BY <1>1, <2>2, <2>4
    <3>2. wire["client"] # <<>> /\ wire["client"][1].type = "SERVER_SETUP" /\ wire["client"][1].id = None
      BY <3>1 DEF Greeting
    <3>3. CASE wire'["client"] = wire["client"]
      BY <3>2, <3>3
    <3>4. CASE wire'["client"] # wire["client"]
      <4>1. e = "server" /\ Peer(e) = "client"
        BY <1>1, <2>1, <2>2, <3>1, <3>4
      <4>2. PICK ms \in Seq(Messages) : Posts(e, ms)
        BY <1>3, <3>4, <4>1, Awake
      <4> DEFINE w == wire["client"]
                 v == wire'["client"]
      <4>3. v = w \o ms /\ w \in Seq(Messages) /\ w # <<>>
        <5>1. wire'[Peer(e)] = wire[Peer(e)] \o ms
          BY <1>1, <4>2, PostsIs
        <5>2. wire["client"] \in Seq(Messages)
          BY <1>1 DEF TypeOK
        <5> QED
          BY <3>2, <4>1, <5>1, <5>2
      <4> HIDE DEF w, v
      <4>4. v # <<>> /\ v[1] = w[1]
        <5>1. Len(w) \in Nat /\ Len(w) > 0 /\ Len(ms) \in Nat
          BY <4>3
        <5>2. Len(v) = Len(w) + Len(ms) /\ v[1] = w[1]
          BY <4>3, <5>1
        <5> QED
          BY <4>3, <5>1, <5>2
      <4> QED
        BY <3>2, <4>4 DEF w, v
    <3> QED
      BY <3>3, <3>4
  <2>5. ASSUME Early("server")', NEW m \in OnWire("server")'
        PROVE  m.type = "CLIENT_SETUP" /\ (m.id # None => m.id <= ep'["client"].advertised_max_id)
    <3>1. Early("server") /\ Early("client")
      BY <1>1, <2>2, <2>5 DEF Setup
    <3>2. wire' = wire
      BY <1>1, <2>2, <3>1
    <3>3. m \in OnWire("server")
      BY <2>5, <3>2 DEF OnWire
    <3>4. m.type = "CLIENT_SETUP" /\ (m.id # None => m.id <= ep["client"].advertised_max_id)
      BY <3>1, <3>3 DEF Greeting
    <3>5. /\ ep["client"].advertised_max_id \in Nat /\ ep'["client"].advertised_max_id \in Nat
          /\ m.id \in Nat \union {None}
      <4>1. ep["client"] \in Endpoints /\ ep'["client"] \in Endpoints /\ wire["server"] \in Seq(Messages)
        BY <1>1 DEF TypeOK
      <4>2. m \in Messages
        BY <3>3, <4>1 DEF OnWire
      <4> QED
        BY <4>1, <4>2 DEF Endpoints, Messages
    <3>6. ep["client"].advertised_max_id <= ep'["client"].advertised_max_id
      <4>1. CASE e = "client"
        <5>1. t.advertised_max_id = ep[e].advertised_max_id \/ Granting(e, t)
          BY <1>3, StepFields
        <5>2. ASSUME NEW k \in Messages, Counting(e, t, k), k.type = "MAX_REQUEST_ID"
              PROVE  t.advertised_max_id > ep[e].advertised_max_id
          BY <5>2 DEF Counting
        <5>3. t.advertised_max_id = ep[e].advertised_max_id
              \/ t.advertised_max_id > ep[e].advertised_max_id
          BY <5>1, <5>2 DEF Granting
        <5>4. t = ep'["client"] /\ ep[e] = ep["client"]
          BY <2>1, <4>1
        <5> QED
          BY <3>5, <5>3, <5>4
      <4>2. CASE e # "client"
        BY <1>1, <2>1, <3>5, <4>2
      <4> QED
        BY <4>1, <4>2
    <3> QED
      BY <3>4, <3>5, <3>6
  <2> QED
    BY <2>3, <2>4, <2>5 DEF Greeting
<1> QED
  BY <1>2, <1>3

(* The bounds are of numbers. *)
LEMMA Numbers ==
  ASSUME Inv
  PROVE  /\ \A x \in Roles : /\ ep[x].max_id \in Nat /\ ep[x].advertised_max_id \in Nat
                             /\ ep[x].next_id \in Nat /\ ep[x].peer_next_id \in Nat
                             /\ wire[x] \in Seq(Messages) /\ ep[x] \in Endpoints
         /\ \A x \in Roles : \A m \in OnWire(x) :
              /\ m \in Messages /\ WellFormed(m) /\ Meant(x, m)
              /\ m.type \in RequestTypes \union AnswerTypes \union EndTypes => m.id \in Ids /\ m.id \in Nat
              /\ m.type \in CountTypes => m.id \in Nat
         /\ \A x \in Roles : \A i \in DOMAIN wire[x] : wire[x][i] \in OnWire(x) /\ i \in Nat /\ i >= 1
<1>1. ASSUME NEW x \in Roles
      PROVE  ep[x] \in Endpoints /\ wire[x] \in Seq(Messages)
  BY DEF Inv, TypeOK
<1>2. ASSUME NEW x \in Roles, NEW m \in OnWire(x)
      PROVE  /\ m \in Messages /\ WellFormed(m) /\ Meant(x, m)
             /\ m.type \in RequestTypes \union AnswerTypes \union EndTypes => m.id \in Ids /\ m.id \in Nat
             /\ m.type \in CountTypes => m.id \in Nat
  <2>1. m \in Messages
    BY <1>1 DEF OnWire
  <2>2. WellFormed(m) /\ Meant(x, m)
    BY DEF Inv, Meaning
  <2> QED
    BY <2>1, <2>2, EndpointAssumption DEF WellFormed, AnswerTypes
<1>3. ASSUME NEW x \in Roles, NEW i \in DOMAIN wire[x]
      PROVE  wire[x][i] \in OnWire(x) /\ i \in Nat /\ i >= 1
  BY <1>1 DEF OnWire
<1> QED
  BY <1>1, <1>2, <1>3 DEF Endpoints

(* A ceiling that is read is higher than the last, whatever is behind it.  *)
LEMMA CeilingsStep ==
  ASSUME Inv, Greeting, Ceilings, NEW e \in Roles, NEW t, Step(e, t),
         \A x \in Roles : ep[x].advertised_max_id <= ep'[x].advertised_max_id,
         \A x \in Roles : ep'[x].max_id = ep[x].max_id \/ (x = e /\ Raising(e, t))
  PROVE  Ceilings'
<1>1. /\ ep'[e] = t /\ ep'[Peer(e)] = ep[Peer(e)] /\ \A x \in Roles : x = e \/ x = Peer(e)
      /\ Inv' /\ \A x \in Roles : Peer(x) \in Roles /\ Peer(x) # x /\ Peer(Peer(x)) = x
  <2>1. Inv'
    BY TypeKept, SetupKept, CountersKept, MeaningKept, VerdictsKept DEF Step, Inv
  <2> QED
    BY <2>1, EndsOf, RolesAre DEF Step
<1>2. \A x \in Roles : /\ ep[x].max_id \in Nat /\ ep[x].advertised_max_id \in Nat
                       /\ ep[x].next_id \in Nat
  BY Numbers
<1>3. \A x \in Roles : ep'[x].max_id \in Nat /\ ep'[x].advertised_max_id \in Nat
  BY <1>1 DEF Inv, TypeOK, Endpoints
<1>4. ASSUME NEW x \in Roles
      PROVE  ep'[x].max_id <= ep'[Peer(x)].advertised_max_id
  <2>1. CASE ep'[x].max_id = ep[x].max_id
    BY <1>1, <1>2, <1>3, <2>1 DEF Ceilings
  <2>2. ASSUME x = e, NEW k \in Messages, Taking(e, t, k), k.type = "MAX_REQUEST_ID", t.max_id = k.id
        PROVE  ep'[x].max_id <= ep'[Peer(x)].advertised_max_id
    <3>1. k \in OnWire(e)
      BY <2>2, TakingIs
    <3>2. k.id <= ep[Peer(e)].advertised_max_id /\ ep'[x].max_id = k.id
      BY <1>1, <2>2, <3>1 DEF Ceilings
    <3> QED
      BY <1>1, <1>2, <1>3, <2>2, <3>2
  <2> QED
    BY <2>1, <2>2 DEF Raising
<1>5. ASSUME NEW x \in Roles, NEW m \in OnWire(x)', m.type \in RequestTypes
      PROVE  m.id < ep'[x].advertised_max_id
  <2>1. m.type \notin SetupTypes
    BY <1>5 DEF RequestTypes, SetupTypes
  <2>2. CASE m \in OnWire(x)
    <3>1. m.id < ep[x].advertised_max_id /\ m.id \in Nat
      BY <1>5, <2>2, Numbers DEF Ceilings
    <3> QED
      BY <1>2, <1>3, <3>1
  <2>3. CASE x = Peer(e) /\ Sent(e, t, m)
    <3>1. Opening(e, t, m)
      BY <1>5, <2>3, SentBy
    <3>2. m.id = ep[e].next_id /\ ep[e].next_id < ep[e].max_id
      BY <1>2, <3>1 DEF Opening, Asked, is_blocked, NextId
    <3>3. ep[e].max_id <= ep[x].advertised_max_id
      BY <2>3 DEF Ceilings
    <3> QED
      BY <1>2, <1>3, <3>2, <3>3
  <2> QED
    BY <2>1, <2>2, <2>3, WireFrom
<1>6. ASSUME NEW x \in Roles, NEW i \in DOMAIN wire'[x], wire'[x][i].type = "MAX_REQUEST_ID"
      PROVE  /\ ep'[x].max_id < wire'[x][i].id
             /\ wire'[x][i].id <= ep'[Peer(x)].advertised_max_id
  <2> DEFINE m == wire'[x][i]
  <2>1. PICK d \in {0, 1} : Flow(e, t, x, d)
    BY WireStep
  <2>2. m.type \notin SetupTypes /\ m.type \in CountTypes
    BY <1>6 DEF SetupTypes, CountTypes
  <2>3. CASE i + d \in DOMAIN wire[x]
    <3> DEFINE k == i + d
    <3>1. m = wire[x][k] /\ i \in Nat /\ i >= 1 /\ k \in DOMAIN wire[x] /\ m \in OnWire(x)
      BY <2>1, <2>3, FlowBack, Numbers
    <3>2. ep[x].max_id < m.id /\ m.id <= ep[Peer(x)].advertised_max_id /\ m.id \in Nat
      BY <1>6, <2>2, <3>1, Numbers DEF Ceilings
    <3>3. m.id <= ep'[Peer(x)].advertised_max_id
      BY <1>1, <1>2, <1>3, <3>2
    <3>4. ASSUME x = e, NEW r \in Messages, Taking(e, t, r), r.type = "MAX_REQUEST_ID", t.max_id = r.id
          PROVE  ep'[x].max_id < m.id
      <4>1. d = 1 /\ 1 \in DOMAIN wire[x] /\ wire[x][1] = r
        BY <2>1, <3>4, FlowTaken
      <4>2. 1 < k
        BY <3>1, <4>1
      <4>3. wire[x][1].id < wire[x][k].id
        BY <1>6, <3>1, <3>4, <4>1, <4>2 DEF Ceilings
      <4> QED
        BY <1>1, <3>1, <3>4, <4>1, <4>3
    <3> QED
      BY <3>2, <3>3, <3>4 DEF Raising
  <2>4. CASE i + d \notin DOMAIN wire[x]
    <3>1. x = Peer(e) /\ Counting(e, t, m)
      BY <2>1, <2>2, <2>4, FlowBack, SentBy
    <3>2. m.id = t.advertised_max_id /\ t.advertised_max_id > ep[e].advertised_max_id
      BY <1>6, <3>1 DEF Counting
    <3>3. ep[x].max_id <= ep[e].advertised_max_id /\ ep'[x].max_id = ep[x].max_id /\ Peer(x) = e
      BY <1>1, <3>1 DEF Ceilings
    <3> QED
      BY <1>1, <1>2, <1>3, <3>2, <3>3
  <2> QED
    BY <2>3, <2>4
<1>7. ASSUME NEW x \in Roles, NEW i \in DOMAIN wire'[x], NEW n \in DOMAIN wire'[x], i < n,
             wire'[x][i].type = "MAX_REQUEST_ID", wire'[x][n].type = "MAX_REQUEST_ID"
      PROVE  wire'[x][i].id < wire'[x][n].id
  <2>1. PICK d \in {0, 1} : Flow(e, t, x, d)
    BY WireStep
  <2>2. /\ i + d < n + d /\ i + d \in DOMAIN wire[x] /\ wire'[x][i] = wire[x][i + d]
    BY <1>7, <2>1, FlowPair, FlowBack
  <2>3. CASE n + d \in DOMAIN wire[x]
    <3>1. wire'[x][n] = wire[x][n + d]
      BY <2>1, <2>3, FlowBack
    <3> QED
      BY <1>7, <2>2, <2>3, <3>1 DEF Ceilings
  <2>4. CASE n + d \notin DOMAIN wire[x]
    <3>1. wire'[x][n].type \notin SetupTypes /\ wire'[x][n].type \in CountTypes
      BY <1>7 DEF SetupTypes, CountTypes
    <3>2. x = Peer(e) /\ Counting(e, t, wire'[x][n])
      BY <2>1, <2>4, <3>1, FlowBack, SentBy
    <3>3. wire'[x][n].id = t.advertised_max_id /\ t.advertised_max_id > ep[e].advertised_max_id
      BY <1>7, <3>2 DEF Counting
    <3>4. wire[x][i + d].id <= ep[e].advertised_max_id /\ wire[x][i + d].id \in Nat
      <4>1. wire[x][i + d] \in OnWire(x) /\ wire[x][i + d].type = "MAX_REQUEST_ID" /\ Peer(x) = e
        BY <1>1, <1>7, <2>2, <3>2, Numbers
      <4> QED
        BY <4>1, Numbers DEF Ceilings, CountTypes
    <3>5. t.advertised_max_id \in Nat
      BY <1>1, <1>3
    <3> QED
      BY <1>2, <2>2, <3>3, <3>4, <3>5
  <2> QED
    BY <2>3, <2>4
<1>8. ASSUME NEW x \in Roles, NEW m \in OnWire(x)', m.type = "MAX_REQUEST_ID"
      PROVE  ep'[x].max_id < m.id /\ m.id <= ep'[Peer(x)].advertised_max_id
  BY <1>6, <1>8 DEF OnWire
<1> QED
  BY <1>4, <1>5, <1>7, <1>8 DEF Ceilings

(* No step grants more than was advertised, or less than before.           *)
LEMMA CeilingsKept ==
  ASSUME Inv, Greeting, Ceilings, NEW e \in Roles, NEW t, Step(e, t)
  PROVE  Ceilings'
<1>1. /\ TypeOK' /\ "client" \in Roles /\ "server" \in Roles
      /\ \A x \in Roles : x = "client" \/ x = "server"
      /\ Peer("client") = "server" /\ Peer("server") = "client"
  BY TypeKept DEF Inv, Roles, Step, Peer
<1>2. \A x \in Roles : ep'[x].max_id \in Nat /\ ep'[x].advertised_max_id \in Nat
  BY <1>1 DEF TypeOK, Endpoints
<1>3. \A x \in Roles : ep[x].max_id \in Nat /\ ep[x].advertised_max_id \in Nat
  BY Numbers
<1>4. ASSUME \A x \in Roles : \A i \in DOMAIN wire'[x] : wire'[x][i].type \in SetupTypes,
             \A x \in Roles : ep'[x].max_id <= ep'[Peer(x)].advertised_max_id
      PROVE  Ceilings'
  <2>1. \A type \in SetupTypes : type \notin RequestTypes /\ type # "MAX_REQUEST_ID"
    BY DEF SetupTypes, RequestTypes
  <2>2. \A x \in Roles : \A m \in OnWire(x)' : m.type \in SetupTypes
    BY <1>4 DEF OnWire
  <2> QED
    BY <1>4, <2>1, <2>2 DEF Ceilings
<1>5. CASE ~Shaken(e, t)
  <2>1. ep'[e] = t /\ ep'[Peer(e)] = ep[Peer(e)] /\ \A x \in Roles : x = e \/ x = Peer(e)
    BY EndsOf, RolesAre DEF Step
  <2>2. \A x \in Roles : ep'[x].max_id = ep[x].max_id \/ (x = e /\ Raising(e, t))
    BY <1>5, <2>1, StepFields
  <2>3. t.advertised_max_id = ep[e].advertised_max_id \/ t.advertised_max_id > ep[e].advertised_max_id
    BY <1>5, StepFields DEF Granting, Counting
  <2>4. \A x \in Roles : ep[x].advertised_max_id <= ep'[x].advertised_max_id
    BY <1>2, <1>3, <2>1, <2>3
  <2> QED
    BY <2>2, <2>4, CeilingsStep
<1>6. CASE adopt_offering
  <2>1. /\ ep'["client"].max_id = 0 /\ ep'["server"].max_id = 0 /\ wire'["client"] = <<>>
        /\ \E m \in Messages : wire'["server"] = <<m>> /\ m.type = "CLIENT_SETUP"
    BY <1>1, <1>6, AdoptIs DEF Greeting
  <2>2. PICK m \in Messages : wire'["server"] = <<m>> /\ m.type = "CLIENT_SETUP"
    BY <2>1
  <2>3. /\ \A i \in DOMAIN wire'["server"] : wire'["server"][i].type \in SetupTypes
        /\ \A i : i \notin DOMAIN wire'["client"]
    BY <2>1, <2>2 DEF SetupTypes
  <2> QED
    BY <1>1, <1>2, <1>4, <2>1, <2>3
<1>7. CASE AcceptSetup
  <2>1. /\ ep'["client"] = ep["client"] /\ wire'["server"] = <<>> /\ Early("client")
        /\ ep'["server"].max_id <= ep["client"].advertised_max_id
        /\ wire'["client"] = <<>>
           \/ \E m \in Messages : wire'["client"] = <<m>> /\ m.type = "SERVER_SETUP"
    BY <1>7, AcceptIs
  <2>2. ep'["client"].max_id = 0
    BY <1>1, <2>1 DEF Greeting
  <2>3. \A x \in Roles : ep'[x].max_id <= ep'[Peer(x)].advertised_max_id
    BY <1>1, <1>2, <2>1, <2>2
  <2>4. \A i \in DOMAIN wire'["client"] : wire'["client"][i].type \in SetupTypes
    <3>1. CASE wire'["client"] = <<>>
      BY <3>1
    <3>2. ASSUME NEW m \in Messages, wire'["client"] = <<m>>, m.type = "SERVER_SETUP"
          PROVE  \A i \in DOMAIN wire'["client"] : wire'["client"][i].type \in SetupTypes
      BY <3>2 DEF SetupTypes
    <3> QED
      BY <2>1, <3>1, <3>2
  <2>5. \A i : i \notin DOMAIN wire'["server"]
    BY <2>1
  <2> QED
    BY <1>1, <1>4, <2>3, <2>4, <2>5
<1>8. CASE AcceptConnection
  <2>1. \A x \in Roles : /\ ep'[x].max_id = ep[x].max_id
                         /\ ep'[x].advertised_max_id = ep[x].advertised_max_id
    BY <1>1, <1>8, ConnectionIs
  <2>2. \A x \in Roles : ep[x].advertised_max_id <= ep'[x].advertised_max_id
    BY <1>3, <2>1
  <2> QED
    BY <2>1, <2>2, CeilingsStep
<1>9. CASE FinishSetup
  <2>1. \A x \in Roles : /\ ep'[x].max_id = ep[x].max_id
                         /\ ep'[x].advertised_max_id = ep[x].advertised_max_id
    BY <1>1, <1>9, FinishIs
  <2>2. \A x \in Roles : ep[x].advertised_max_id <= ep'[x].advertised_max_id
    BY <1>3, <2>1
  <2> QED
    BY <2>1, <2>2, CeilingsStep
<1> QED
  BY <1>5, <1>6, <1>7, <1>8, <1>9 DEF Shaken

(* No step sends a second GOAWAY.                                          *)
LEMMA GoAwaysKept ==
  ASSUME Inv, Greeting, GoAways, NEW e \in Roles, NEW t, Step(e, t)
  PROVE  GoAways'
<1>1. /\ ep'[e] = t /\ ep'[Peer(e)] = ep[Peer(e)] /\ \A x \in Roles : x = e \/ x = Peer(e)
      /\ \A x \in Roles : Peer(x) \in Roles /\ Peer(x) # x /\ Peer(Peer(x)) = x
      /\ goaway \in [Roles -> BOOLEAN]
  BY EndsOf, RolesAre DEF Step, Inv, TypeOK
<1>2. /\ "GOAWAY" \notin SetupTypes /\ "GOAWAY" \in CountTypes
  BY DEF SetupTypes, CountTypes
<1>3. ASSUME NEW x \in Roles, goaway[x]
      PROVE  goaway'[x]
  BY <1>1, <1>3, StepFields
<1>4. ASSUME NEW m, Sent(e, t, m), m.type = "GOAWAY"
      PROVE  /\ ~goaway[e] /\ goaway'[e] /\ m.id = IF e = "server" THEN 1 ELSE 0
  <2>1. Counting(e, t, m)
    BY <1>2, <1>4, SentBy
  <2> QED
    BY <1>1, <1>4, <2>1 DEF Counting
<1>5. ASSUME NEW x \in Roles, NEW m \in OnWire(x)', m.type = "GOAWAY"
      PROVE  goaway'[Peer(x)] /\ (x = "server" => m.id = 0)
  <2>1. CASE m \in OnWire(x)
    BY <1>1, <1>3, <1>5, <2>1 DEF GoAways
  <2>2. CASE x = Peer(e) /\ Sent(e, t, m)
    BY <1>1, <1>4, <1>5, <2>2 DEF Peer
  <2> QED
    BY <1>2, <1>5, <2>1, <2>2, WireFrom
<1>6. ASSUME NEW x \in Roles, NEW i \in DOMAIN wire'[x], NEW n \in DOMAIN wire'[x], i < n,
             wire'[x][i].type = "GOAWAY", wire'[x][n].type = "GOAWAY"
      PROVE  FALSE
  <2>1. PICK d \in {0, 1} : Flow(e, t, x, d)
    BY WireStep
  <2>2. i + d < n + d /\ i + d \in DOMAIN wire[x] /\ wire'[x][i] = wire[x][i + d]
    BY <1>6, <2>1, FlowPair, FlowBack
  <2>3. CASE n + d \in DOMAIN wire[x]
    BY <1>6, <2>1, <2>2, <2>3, FlowBack DEF GoAways
  <2>4. CASE n + d \notin DOMAIN wire[x]
    <3>1. x = Peer(e) /\ Sent(e, t, wire'[x][n])
      BY <1>2, <1>6, <2>1, <2>4, FlowBack
    <3>2. ~goaway[e]
      BY <1>4, <1>6, <3>1
    <3>3. wire[x][i + d] \in OnWire(x) /\ wire[x][i + d].type = "GOAWAY" /\ Peer(x) = e
      BY <1>1, <1>6, <2>2, <3>1, Numbers
    <3> QED
      BY <3>2, <3>3 DEF GoAways
  <2> QED
    BY <2>3, <2>4
<1>7. ASSUME NEW x \in Roles, ep'[x].session = "Draining"
      PROVE  goaway'[Peer(x)] /\ \A m \in OnWire(x)' : m.type # "GOAWAY"
  <2>1. CASE ep[x].session = "Draining"
    <3>1. goaway[Peer(x)] /\ \A m \in OnWire(x) : m.type # "GOAWAY"
      BY <2>1 DEF GoAways
    <3>2. ASSUME NEW m \in OnWire(x)', m.type = "GOAWAY"
          PROVE  FALSE
      <4>1. x = Peer(e) /\ Sent(e, t, m)
        BY <1>2, <3>1, <3>2, WireFrom
      <4> QED
        BY <1>1, <1>4, <3>1, <3>2, <4>1
    <3> QED
      BY <1>1, <1>3, <3>1, <3>2
  <2>2. CASE ep[x].session # "Draining"
    <3>1. x = e /\ t.session = "Draining" /\ ~Closing(e, t) /\ ~Shaken(e, t)
      BY <1>1, <1>7, <2>2 DEF Closing, Closes, Shaken
    <3>2. PICK r \in Messages : Taking(e, t, r) /\ r.type = "GOAWAY"
      BY <2>2, <3>1, StepFields DEF Retiring
    <3>3. r \in OnWire(e)
      BY <3>2, TakingIs
    <3>4. goaway'[Peer(x)]
      BY <1>1, <1>3, <3>1, <3>2, <3>3 DEF GoAways
    <3>5. ASSUME NEW i \in DOMAIN wire'[x], wire'[x][i].type = "GOAWAY"
          PROVE  FALSE
      <4>1. PICK d \in {0, 1} : Flow(e, t, x, d)
        BY WireStep
      <4>2. d = 1 /\ 1 \in DOMAIN wire[x] /\ wire[x][1] = r
        BY <3>1, <3>2, <4>1, FlowTaken
      <4>3. i + 1 \in DOMAIN wire[x] /\ wire'[x][i] = wire[x][i + 1] /\ 1 < i + 1
        BY <1>1, <1>2, <3>1, <3>5, <4>1, <4>2, FlowBack
      <4> QED
        BY <3>2, <3>5, <4>2, <4>3 DEF GoAways
    <3> QED
      BY <3>4, <3>5 DEF OnWire
  <2> QED
    BY <2>1, <2>2
<1> QED
  BY <1>5, <1>6, <1>7 DEF GoAways

(* The other end of a step, and the endpoints after it.                    *)
LEMMA Sides ==
  ASSUME Inv, NEW e \in Roles, NEW t, Step(e, t)
  PROVE  /\ Inv' /\ ep'[e] = t /\ ep'[Peer(e)] = ep[Peer(e)] /\ \A x \in Roles : x = e \/ x = Peer(e)
         /\ \A x \in Roles : /\ Peer(x) \in Roles /\ Peer(x) # x /\ Peer(Peer(x)) = x
                             /\ ep[x].role = x /\ ep'[x].role = x
                             /\ ep[x] \in Endpoints /\ ep'[x] \in Endpoints
         /\ \A id : Owner(id) \in Roles
<1>1. Inv'
  BY TypeKept, SetupKept, CountersKept, MeaningKept, VerdictsKept DEF Step, Inv
<1> QED
  BY <1>1, EndsOf, RolesAre DEF Step, Inv, TypeOK

(* An update names a subscription its sender made before it.               *)
LEMMA UpdatesKept ==
  ASSUME Inv, Greeting, Updates, NEW e \in Roles, NEW t, Step(e, t)
  PROVE  Updates'
<1> SUFFICES ASSUME NEW x \in Roles, NEW m \in OnWire(x)', m.type = "SUBSCRIBE_UPDATE"
             PROVE  /\ m.ref < m.id /\ Owner(m.ref) = Peer(x)
                    /\ ep'[Peer(x)].requests[m.ref].kind = "subscribe"
                    /\ ep'[Peer(x)].requests[m.id].kind = "none"
  BY DEF Updates
<1>1. /\ ep'[e] = t /\ ep'[Peer(e)] = ep[Peer(e)] /\ Peer(x) \in Roles /\ (Peer(x) = e \/ Peer(x) = Peer(e))
      /\ Peer(e) # e /\ ep[Peer(x)].role = Peer(x) /\ Counters /\ Peer(e) \in Roles
      /\ ep[e].role = e /\ Stepped(e, t)
  BY Sides DEF Inv, Step
<1>2. m.type \notin SetupTypes /\ m.type \in RequestTypes
  BY DEF SetupTypes, RequestTypes
<1>3. CASE m \in OnWire(x)
  <2>1. /\ m.ref < m.id /\ Owner(m.ref) = Peer(x) /\ m.ref \in Ids /\ m.id \in Ids
        /\ ep[Peer(x)].requests[m.ref].kind = "subscribe"
        /\ ep[Peer(x)].requests[m.id].kind = "none"
        /\ Owner(m.id) = Peer(x) /\ m.id < ep[Peer(x)].next_id /\ m.id \in Nat
    BY <1>2, <1>3, Numbers DEF Updates, WellFormed, Meant
  <2>2. ep'[Peer(x)].requests[m.ref].kind = "subscribe"
    BY <1>1, <2>1, Lasting
  <2>3. ep'[Peer(x)].requests[m.id].kind = "none"
    <3>1. CASE Peer(x) = Peer(e)
      BY <1>1, <2>1, <3>1
    <3>2. CASE Peer(x) = e
      <4>1. ~Fresh(e, t, m.id)
        <5>1. \A k \in Messages : Opening(e, t, k) => k.id = ep[e].next_id
          BY DEF Opening, NextId
        <5> QED
          BY <1>1, <2>1, <3>2, <5>1, Numbers DEF Fresh, Opens
      <4>2. \A event : ~Turned(e, t, m.id, event)
        BY <2>1, <3>2, MoveFacts DEF Turned, Kinds
      <4>3. Kept(e, t, m.id)
        BY <1>1, <2>1, <4>1, <4>2, RecordStep
      <4> QED
        BY <1>1, <2>1, <3>2, <4>3 DEF Kept
    <3> QED
      BY <1>1, <3>1, <3>2
  <2> QED
    BY <2>1, <2>2, <2>3
<1>4. CASE x = Peer(e) /\ Sent(e, t, m)
  <2>1. Opening(e, t, m) /\ Peer(x) = e
    BY <1>1, <1>2, <1>4, Sides, SentBy
  <2>2. /\ m.id = ep[e].next_id /\ m.id \in Ids /\ t.requests[m.id] = ep[e].requests[m.id]
        /\ IsOwn(ep[e], m.ref, "subscribe")
    BY <2>1 DEF Opening, Asked, NextId
  <2>3. m.ref \in Ids /\ m.ref # m.id /\ m.ref \in Nat /\ m.id \in Nat
    <3>1. m \in OnWire(x)' /\ Inv'
      BY Sides
    <3>2. WellFormed(m)
      BY <3>1 DEF Inv, Meaning
    <3>3. m.ref \in Ids
      BY <3>2 DEF WellFormed
    <3>4. ep[e].requests[m.id] = NoRequest
      <4>1. Counted(ep[e]) /\ ep[e].next_id \in Nat
        BY <1>1, Numbers DEF Counters
      <4> QED
        BY <1>1, <2>2, <4>1 DEF Counted
    <3>5. ep[e].requests[m.id].kind = "none" /\ ep[e].requests[m.ref].kind = "subscribe"
      BY <2>2, <3>4 DEF IsOwn, NoRequest
    <3> QED
      BY <2>2, <3>3, <3>5, EndpointAssumption
  <2>4. Counted(ep[e]) /\ ep[e].next_id \in Nat /\ Owner(m.ref) = e
    BY <1>1, <2>1, Numbers DEF Counters, Opening, Asked, IsOwn
  <2>5. ep[e].requests[m.id].kind = "none" /\ ep[e].requests[m.ref].kind = "subscribe"
    BY <1>1, <2>1, <2>2, <2>4 DEF Counted, NoRequest, Opening, Asked, IsOwn
  <2>6. m.ref < ep[e].next_id
    BY <1>1, <2>3, <2>4, <2>5 DEF Counted, NoRequest
  <2>7. t.requests[m.ref] = ep[e].requests[m.ref] /\ t.requests[m.id] = ep[e].requests[m.id]
    BY <2>1, <2>3 DEF Opening
  <2> QED
    BY <1>1, <2>1, <2>2, <2>4, <2>5, <2>6, <2>7
<1> QED
  BY <1>2, <1>3, <1>4, WireFrom

(* Every record is in a state of its kind.                                 *)
LEMMA ProperKept ==
  ASSUME Inv, Proper, NEW e \in Roles, NEW t, Step(e, t)
  PROVE  Proper'
<1> SUFFICES ASSUME NEW x \in Roles, NEW id \in Ids
             PROVE  ep'[x].requests[id].state \in StatesOf(ep'[x].requests[id].kind)
  BY DEF Proper
<1>1. /\ ep'[e] = t /\ ep'[Peer(e)] = ep[Peer(e)] /\ (x = e \/ x = Peer(e)) /\ Stepped(e, t)
  BY Sides DEF Step
<1>2. CASE x = Peer(e)
  BY <1>1, <1>2 DEF Proper
<1>3. CASE x = e
  <2>1. CASE Kept(e, t, id)
    BY <1>1, <1>3, <2>1 DEF Proper, Kept
  <2>2. CASE Fresh(e, t, id)
    BY <1>1, <1>3, <2>2 DEF Fresh, Kinds, Opened, StatesOf
  <2>3. ASSUME NEW event \in Events, Turned(e, t, id, event)
        PROVE  ep'[x].requests[id].state \in StatesOf(ep'[x].requests[id].kind)
    BY <1>1, <1>3, <2>3, Moving DEF Turned
  <2> QED
    BY <1>1, <2>1, <2>2, <2>3, RecordStep
<1> QED
  BY <1>1, <1>2, <1>3

(* The two records of a request are for one track or namespace.            *)
LEMMA SameTargetKept ==
  ASSUME AliasInv, Greeting, SameTarget, NEW e \in Roles, NEW t, Step(e, t)
  PROVE  SameTarget'
<1>1. /\ Inv /\ Agree /\ ep'[e] = t /\ ep'[Peer(e)] = ep[Peer(e)] /\ \A x \in Roles : x = e \/ x = Peer(e)
      /\ \A x \in Roles : Peer(x) \in Roles /\ Peer(x) # x /\ Peer(Peer(x)) = x
      /\ \A id : Owner(id) \in Roles /\ Stepped(e, t) /\ ep[e].role = e
  BY Sides DEF AliasInv, Step
<1>2. ASSUME NEW x \in Roles, NEW m \in OnWire(x)', m.type \in RequestTypes \ {"FETCH", "SUBSCRIBE_UPDATE"}
      PROVE  ep'[Peer(x)].requests[m.id].what = m.what
  <2>1. m.type \notin SetupTypes
    BY <1>2 DEF SetupTypes, RequestTypes
  <2>2. CASE m \in OnWire(x)
    <3>1. /\ ep[Peer(x)].requests[m.id].what = m.what /\ m.id \in Ids
          /\ ep[Peer(x)].requests[m.id].kind = KindOf(m.type)
      BY <1>1, <1>2, <2>2, Numbers DEF SameTarget, Meant
    <3>2. ep[Peer(x)].requests[m.id].kind # "none"
      BY <1>2, <3>1, TypesApart DEF Kinds
    <3> QED
      BY <1>1, <3>1, <3>2, Lasting
  <2>3. CASE x = Peer(e) /\ Sent(e, t, m)
    <3>1. Opening(e, t, m) /\ Peer(x) = e
      BY <1>1, <1>2, <2>3, SentBy
    <3> QED
      BY <1>1, <1>2, <3>1 DEF Opening, Asked
  <2> QED
    BY <1>1, <2>1, <2>2, <2>3, WireFrom
<1>3. ASSUME NEW id \in Ids, Answering(id)'.kind \notin {"none", "fetch"}
      PROVE  Asking(id)'.what = Answering(id)'.what
  <2> DEFINE o == Owner(id)
             p == Peer(o)
  <2>1. o \in Roles /\ p \in Roles /\ p # o /\ Peer(p) = o
    BY <1>1
  <2>2. ep'[p].requests[id].kind \notin {"none", "fetch"}
    BY <1>3 DEF Answering
  <2>3. CASE ep[p].requests[id].kind # "none"
    <3>1. /\ ep'[p].requests[id].kind = ep[p].requests[id].kind
          /\ ep'[p].requests[id].what = ep[p].requests[id].what
      BY <1>1, <2>1, <2>3, Lasting
    <3>2. ep[o].requests[id].kind # "none" /\ ep[o].requests[id].what = ep[p].requests[id].what
      BY <1>1, <2>2, <2>3, <3>1 DEF Agree, SameTarget, Asking, Answering
    <3>3. ep'[o].requests[id].what = ep[o].requests[id].what
      BY <1>1, <2>1, <3>2, Lasting
    <3> QED
      BY <3>1, <3>2, <3>3 DEF Asking, Answering
  <2>4. CASE ep[p].requests[id].kind = "none"
    <3>1. p = e /\ t.requests[id] # ep[e].requests[id]
      BY <1>1, <2>1, <2>2, <2>4
    <3>2. PICK m \in Messages : Reading(e, t, m) /\ Admitted(ep[e], t, m) /\ m.id = id
      <4>1. ~Kept(e, t, id) /\ \A event : ~Turned(e, t, id, event)
        BY <2>4, <3>1, MoveFacts DEF Kept, Turned, Kinds
      <4>2. Fresh(e, t, id)
        BY <1>1, <4>1, RecordStep
      <4> QED
        BY <2>1, <3>1, <4>2 DEF Fresh, Admits
    <3>3. /\ m.type \in RequestTypes /\ m.type # "SUBSCRIBE_UPDATE" /\ t.requests[id].what = m.what
          /\ t.requests[id].kind = KindOf(m.type)
      BY <3>1, <3>2 DEF Admitted
    <3>4. m.type # "FETCH"
      BY <1>1, <2>2, <3>1, <3>3 DEF KindOf
    <3>5. m \in OnWire(e)
      BY <1>1, <3>2, ReadsIs DEF Reading, Inv
    <3>6. ep[o].requests[id].what = m.what
      BY <2>1, <3>1, <3>2, <3>3, <3>4, <3>5 DEF SameTarget
    <3>7. ep'[o] = ep[o]
      BY <1>1, <2>1, <3>1
    <3> QED
      BY <1>1, <3>1, <3>3, <3>6, <3>7 DEF Asking, Answering
  <2> QED
    BY <2>3, <2>4
<1> QED
  BY <1>2, <1>3 DEF SameTarget

(* An answer is of a kind of request. *)
LEMMA AnswerKinds ==
  ASSUME NEW type \in AnswerTypes
  PROVE  KindOf(type) \in Kinds /\ type \notin SetupTypes
BY DEF AnswerTypes, OkTypes, ErrorTypes, KindOf, Kinds, SetupTypes

(* An asker waits until it reads an answer. *)
LEMMA Waits ==
  ASSUME Inv, NEW e \in Roles, NEW t, Step(e, t), NEW id \in Ids, Owner(id) = e,
         ep[e].requests[id].kind \notin {"none", "fetch"}, ep[e].requests[id].state \in Undecided
  PROVE  \/ t.requests[id].state \in Undecided
         \/ \E m \in Messages : m.type \in AnswerTypes /\ m.id = id /\ Affected(e, t, id, m)
<1> DEFINE r == ep[e].requests[id]
<1>1. ep[e].role = e /\ Counted(ep[e])
  BY Sides DEF Inv, Counters
<1>2. Fate(e, t, id)
  BY FateIs
<1>3. ASSUME NEW m \in Messages, Opening(e, t, m), m.id = id
      PROVE  FALSE
  <2>1. m.id = ep[e].next_id /\ ep[e].next_id \in Nat
    BY <1>3, Numbers DEF Opening, NextId
  <2> QED
    BY <1>1, <1>3, <2>1 DEF Counted, NoRequest
<1>4. ASSUME NEW m \in Messages, Deciding(e, t, m), m.id = id
      PROVE  FALSE
  BY <1>1, <1>4 DEF Deciding, IsPeers
<1>5. ASSUME NEW m \in Messages, Enrolled(e, t, id, m)
      PROVE  FALSE
  BY <1>1, <1>5 DEF Enrolled, Enters
<1>6. ASSUME NEW m \in Messages, Affected(e, t, id, m)
      PROVE  m.type \in AnswerTypes /\ m.id = id
  <2>1. CASE m.type \in AnswerTypes
    <3>1. m.type \notin EndTypes \union AboutTypes
      BY <2>1 DEF AnswerTypes, OkTypes, ErrorTypes, EndTypes, AboutTypes
    <3>2. m.id = id
      BY <1>6, <3>1 DEF Affected, Concerns, EndTypes, AboutTypes
    <3> QED
      BY <2>1, <3>2
  <2>2. CASE m.type \in EndTypes \union AboutTypes
    <3>1. EventOf(m.type) \in {"unsubscribe", "done", "cancel"}
      BY <2>2, EventsOf DEF EndTypes, AboutTypes
    <3> QED
      BY <1>6, <3>1, MoveFacts DEF Affected, Changed
  <2> QED
    BY <1>6, <2>1, <2>2 DEF Affected
<1>7. ASSUME NEW m \in Messages, Parted(e, t, id, m)
      PROVE  FALSE
  BY <1>7 DEF Parted, Farewell, Undecided
<1>8. ASSUME Streaming(e, t, id)
      PROVE  FALSE
  BY <1>8 DEF Streaming
<1> QED
  BY <1>2, <1>3, <1>4, <1>5, <1>6, <1>7, <1>8 DEF Fate

(* An answer finds the request it answers, and no second one is sent.      *)
LEMMA RepliesKept ==
  ASSUME AliasInv, Greeting, Replies, NEW e \in Roles, NEW t, Step(e, t)
  PROVE  Replies'
<1>1. /\ Inv /\ Agree /\ Verdicts /\ ep'[e] = t /\ ep'[Peer(e)] = ep[Peer(e)]
      /\ \A x \in Roles : x = e \/ x = Peer(e)
      /\ \A x \in Roles : Peer(x) \in Roles /\ Peer(x) # x /\ Peer(Peer(x)) = x
      /\ \A id : Owner(id) \in Roles /\ Stepped(e, t) /\ ep[e].role = e
  BY Sides DEF AliasInv, Step, Inv
<1>2. ASSUME NEW m, Sent(e, t, m), m.type \in AnswerTypes
      PROVE  /\ Deciding(e, t, m) /\ m.id \in Ids /\ Owner(m.id) = Peer(e)
             /\ ep[e].requests[m.id].state \in Undecided
             /\ ep[e].requests[m.id].kind = KindOf(m.type)
  <2>1. Deciding(e, t, m)
    BY <1>2, SentBy
  <2>2. ep[e].requests[m.id].state \in Undecided
    BY <2>1, MoveFacts DEF Deciding, Changed
  <2> QED
    BY <1>1, <2>1, <2>2 DEF Deciding, IsPeers
<1>3. ASSUME NEW x \in Roles, NEW i \in DOMAIN wire'[x], wire'[x][i].type \in AnswerTypes
      PROVE  /\ ep'[x].requests[wire'[x][i].id].kind = KindOf(wire'[x][i].type)
             /\ KindOf(wire'[x][i].type) # "fetch" =>
                  ep'[x].requests[wire'[x][i].id].state \in Undecided
  <2> DEFINE m == wire'[x][i]
             id == m.id
  <2>1. PICK d \in {0, 1} : Flow(e, t, x, d)
    BY <1>1, WireStep
  <2>2. m.type \notin SetupTypes /\ KindOf(m.type) \in Kinds
    BY <1>3, AnswerKinds
  <2>3. CASE i + d \in DOMAIN wire[x]
    <3>1. m = wire[x][i + d] /\ m \in OnWire(x) /\ i \in Nat /\ i >= 1
      BY <1>1, <2>1, <2>3, FlowBack, Numbers
    <3>2. /\ id \in Ids /\ Owner(id) = x /\ ep[x].requests[id].kind = KindOf(m.type)
          /\ KindOf(m.type) # "fetch" => ep[x].requests[id].state \in Undecided
      BY <1>1, <1>3, <3>1, Numbers DEF Replies, Meant, AnswerTypes
    <3>3. ep'[x].requests[id].kind = KindOf(m.type)
      BY <1>1, <2>2, <3>2, Lasting, SMTT(30) DEF Kinds
    <3>4. ASSUME KindOf(m.type) # "fetch"
          PROVE  ep'[x].requests[id].state \in Undecided
      <4>1. CASE x = Peer(e)
        BY <1>1, <3>2, <3>4, <4>1
      <4>2. CASE x = e
        <5>1. ASSUME NEW r \in Messages, r.type \in AnswerTypes, r.id = id, Affected(e, t, id, r)
              PROVE  FALSE
          <6>1. d = 1 /\ 1 \in DOMAIN wire[x] /\ wire[x][1] = r
            BY <1>1, <2>1, <4>2, <5>1, FlowTaken DEF Affected
          <6>2. 1 < i + d
            BY <3>1, <6>1
          <6> QED
            BY <1>3, <2>3, <3>1, <5>1, <6>1, <6>2 DEF Replies
        <5>2. ep[e].requests[id].kind \notin {"none", "fetch"} /\ ep[e].requests[id].state \in Undecided
          BY <2>2, <3>2, <3>4, <4>2 DEF Kinds
        <5>3. t.requests[id].state \in Undecided
          BY <1>1, <3>2, <4>2, <5>1, <5>2, Waits
        <5> QED
          BY <1>1, <4>2, <5>3
      <4> QED
        BY <1>1, <4>1, <4>2
    <3> QED
      BY <3>3, <3>4
  <2>4. CASE i + d \notin DOMAIN wire[x]
    <3>1. x = Peer(e) /\ Sent(e, t, m)
      BY <2>1, <2>2, <2>4, FlowBack
    <3>2. /\ id \in Ids /\ Owner(id) = x /\ ep[e].requests[id].state \in Undecided
          /\ ep[e].requests[id].kind = KindOf(m.type)
      BY <1>2, <1>3, <3>1
    <3>3. ep[x].requests[id].kind = KindOf(m.type) /\ Peer(Owner(id)) = e
      BY <1>1, <2>2, <3>1, <3>2 DEF Agree, Kinds
    <3>4. KindOf(m.type) # "fetch" => ep[x].requests[id].state \in Undecided
      BY <3>2, <3>3, StillWaiting
    <3> QED
      BY <1>1, <3>1, <3>3, <3>4
  <2> QED
    BY <2>3, <2>4
<1>4. ASSUME NEW x \in Roles, NEW i \in DOMAIN wire'[x], NEW n \in DOMAIN wire'[x], i < n,
             wire'[x][i].type \in AnswerTypes, wire'[x][n].type \in AnswerTypes,
             wire'[x][i].id = wire'[x][n].id
      PROVE  FALSE
  <2>1. PICK d \in {0, 1} : Flow(e, t, x, d)
    BY <1>1, WireStep
  <2>2. \A type \in AnswerTypes : type \notin {"UNSUBSCRIBE", "FETCH_CANCEL"} /\ type \notin SetupTypes
    BY DEF AnswerTypes, OkTypes, ErrorTypes, SetupTypes
  <2>3. i + d < n + d /\ i + d \in DOMAIN wire[x] /\ wire'[x][i] = wire[x][i + d]
    BY <1>4, <2>1, <2>2, FlowPair, FlowBack
  <2>4. CASE n + d \in DOMAIN wire[x]
    BY <1>4, <2>1, <2>3, <2>4, FlowBack DEF Replies
  <2>5. CASE n + d \notin DOMAIN wire[x]
    <3> DEFINE id == wire'[x][n].id
    <3>1. x = Peer(e) /\ Sent(e, t, wire'[x][n])
      BY <1>4, <2>1, <2>2, <2>5, FlowBack
    <3>2. id \in Ids /\ Owner(id) = Peer(e) /\ ep[e].requests[id].state \in Undecided
      BY <1>2, <1>4, <3>1
    <3>3. wire[x][i + d] \in OnWire(x) /\ wire[x][i + d].type \in AnswerTypes /\ wire[x][i + d].id = id
      BY <1>1, <1>4, <2>3, Numbers
    <3>4. verdict[id] # None
      BY <1>1, <3>3, Numbers, SessionAssumption DEF Meant, AnswerTypes
    <3> QED
      BY <1>1, <3>2, <3>4 DEF Verdicts
  <2> QED
    BY <2>4, <2>5
<1>5. ASSUME NEW x \in Roles, NEW m \in OnWire(x)', m.type \in AnswerTypes
      PROVE  /\ ep'[x].requests[m.id].kind = KindOf(m.type)
             /\ KindOf(m.type) # "fetch" => ep'[x].requests[m.id].state \in Undecided
  BY <1>3, <1>5 DEF OnWire
<1> QED
  BY <1>4, <1>5 DEF Replies

(* A request that was refused is over where it was refused.                *)
LEMMA RefusedKept ==
  ASSUME Inv, Refused, NEW e \in Roles, NEW t, Step(e, t)
  PROVE  Refused'
<1> SUFFICES ASSUME NEW id \in Ids, verdict'[id] = "error"
             PROVE  ep'[Peer(Owner(id))].requests[id].state = "Done"
  BY DEF Refused, Answering
<1> DEFINE p == Peer(Owner(id))
<1>1. /\ p \in Roles /\ Stepped(e, t) /\ ep'[e] = t /\ (Owner(id) # e => p = e) /\ Owner(id) \in Roles
  BY Sides DEF Step
<1>2. CASE verdict[id] = "error"
  BY <1>1, <1>2, Lasting DEF Refused, Answering
<1>3. CASE verdict[id] # "error"
  <2>1. ~Kept(e, t, id) /\ ~Fresh(e, t, id)
    BY <1>3 DEF Kept, Fresh
  <2>2. PICK event \in Events : Turned(e, t, id, event)
    BY <1>1, <2>1, RecordStep
  <2>3. event = "error" /\ Owner(id) # e /\ t.requests[id].state = "Done"
    BY <1>3, <2>2, MoveFacts DEF Turned
  <2> QED
    BY <1>1, <2>3
<1> QED
  BY <1>2, <1>3

(* Nothing is decided without an answer, but a fetch that is cancelled.    *)
LEMMA DecidedKept ==
  ASSUME AliasInv, Decided, NEW e \in Roles, NEW t, Step(e, t)
  PROVE  Decided'
<1> SUFFICES ASSUME NEW id \in Ids, ep'[Peer(Owner(id))].requests[id].state \notin Undecided
             PROVE  \/ verdict'[id] # None
                    \/ /\ ep'[Owner(id)].requests[id].kind = "fetch"
                       /\ ep'[Owner(id)].requests[id].state = "Done"
  BY DEF Decided, Asking, Answering
<1> DEFINE o == Owner(id)
           p == Peer(o)
<1>1. /\ Inv /\ Agree /\ o \in Roles /\ p \in Roles /\ p # o /\ Stepped(e, t) /\ ep'[e] = t
      /\ (e # p => ep'[p] = ep[p]) /\ (e = p => ep'[o] = ep[o] /\ Peer(e) = o)
  BY Sides DEF Step, AliasInv
<1>2. CASE ep[p].requests[id].state \notin Undecided
  <2>1. CASE verdict[id] # None
    BY <1>1, <2>1, Lasting
  <2>2. CASE verdict[id] = None
    <3>1. ep[o].requests[id].kind = "fetch" /\ ep[o].requests[id].state = "Done"
      BY <1>2, <2>2 DEF Decided, Asking, Answering
    <3> QED
      BY <1>1, <3>1, Lasting
  <2> QED
    BY <2>1, <2>2
<1>3. CASE ep[p].requests[id].state \in Undecided
  <2>1. e = p /\ t.requests[id].state \notin Undecided /\ Owner(id) # e /\ t.requests[id] # ep[e].requests[id]
    BY <1>1, <1>3
  <2>2. ~Kept(e, t, id) /\ ~Fresh(e, t, id)
    BY <2>1 DEF Kept, Fresh, Opened, Undecided
  <2>3. PICK event \in Events : Turned(e, t, id, event)
    BY <1>1, <2>2, RecordStep
  <2>4. <<ep[e].requests[id].state, event, t.requests[id].state>> \in Moves(ep[e].requests[id].kind)
    BY <2>3 DEF Turned
  <2>5. CASE event \in {"ok", "error"}
    BY <2>1, <2>3, <2>5, SessionAssumption DEF Turned
  <2>6. CASE event = "cancel"
    <3>1. ep[e].requests[id].kind = "fetch"
      BY <1>3, <2>1, <2>4, <2>6, MoveFacts
    <3>2. ep[o].requests[id].state = "Done"
      BY <1>1, <2>1, <2>3, <2>6, <3>1 DEF Turned
    <3>3. ep[o].requests[id].kind = "fetch"
      BY <1>1, <2>1, <3>1 DEF Agree
    <3> QED
      BY <1>1, <2>1, <3>2, <3>3
  <2>7. CASE event \in {"unsubscribe", "done"}
    BY <1>3, <2>1, <2>4, <2>7, MoveFacts
  <2>8. CASE event = "end"
    BY <1>3, <2>1, <2>4, <2>8, MoveFacts DEF Undecided
  <2> QED
    BY <2>5, <2>6, <2>7, <2>8 DEF Events
<1> QED
  BY <1>2, <1>3

-----------------------------------------------------------------------------
(* What has been decided keeps its alias. *)
LEMMA AliasLasts ==
  ASSUME Inv, NEW e \in Roles, NEW t, Step(e, t), NEW x \in Roles, NEW id \in Ids,
         ep[x].requests[id].state \notin Undecided
  PROVE  ep'[x].requests[id].alias = ep[x].requests[id].alias
<1>1. /\ Stepped(e, t) /\ ep'[e] = t /\ ep'[Peer(e)] = ep[Peer(e)] /\ (x = e \/ x = Peer(e))
  BY Sides DEF Step
<1>2. CASE x = e
  <2>1. ~Fresh(e, t, id)
    BY <1>2 DEF Fresh, NoRequest, Undecided
  <2>2. ASSUME NEW event \in Events, Turned(e, t, id, event)
        PROVE  t.requests[id].alias = ep[e].requests[id].alias
    <3>1. event # "ok"
      BY <1>2, <2>2, MoveFacts DEF Turned
    <3> QED
      BY <2>2, <3>1 DEF Turned
  <2> QED
    BY <1>1, <1>2, <2>1, <2>2, RecordStep DEF Kept
<1> QED
  BY <1>1, <1>2

(* What an asker hears is what the answerer said: the alias of a           *)
(* subscription is set at both ends from one SUBSCRIBE_OK.                 *)
LEMMA AliasAgreeKept ==
  ASSUME AliasInv, Greeting, Replies, AliasAgree, NEW e \in Roles, NEW t, Step(e, t)
  PROVE  AliasAgree'
<1> SUFFICES ASSUME NEW id \in Ids, ep'[Owner(id)].requests[id].kind = "subscribe"
             PROVE  /\ ep'[Owner(id)].requests[id].state = "Active" =>
                         ep'[Peer(Owner(id))].requests[id].alias = ep'[Owner(id)].requests[id].alias
                    /\ \A m \in OnWire(Owner(id))' : m.type = "SUBSCRIBE_OK" /\ m.id = id =>
                         ep'[Peer(Owner(id))].requests[id].alias = m.alias
  BY DEF AliasAgree, Asking, Answering
<1> DEFINE o == Owner(id)
           p == Peer(o)
<1>1. /\ Inv /\ Heard /\ Verdicts /\ Stepped(e, t)
      /\ o \in Roles /\ p \in Roles /\ p # o /\ Peer(p) = o /\ ep[e].role = e
      /\ (e = p => ep'[o] = ep[o] /\ ep'[p] = t) /\ (e # p => e = o /\ ep'[p] = ep[p] /\ ep'[o] = t)
  BY Sides DEF AliasInv, Inv, Step
<1>2. ASSUME verdict[id] # None
      PROVE  ep'[p].requests[id].alias = ep[p].requests[id].alias
  BY <1>1, <1>2, AliasLasts DEF Verdicts
<1>3. ASSUME NEW m \in OnWire(o), m.type = "SUBSCRIBE_OK", m.id = id
      PROVE  /\ ep[p].requests[id].alias = m.alias
             /\ ep'[p].requests[id].alias = m.alias
  <2>1. ep[o].requests[id].kind = "subscribe"
    BY <1>1, <1>3 DEF Replies, AnswerTypes, OkTypes, KindOf
  <2>2. ep[p].requests[id].alias = m.alias
    BY <1>3, <2>1 DEF AliasAgree, Asking, Answering
  <2>3. verdict[id] # None
    BY <1>1, <1>3, Numbers, SessionAssumption DEF Meant, OkTypes
  <2> QED
    BY <1>2, <2>2, <2>3
<1>4. ASSUME ep[o].requests[id].state = "Active", ep[o].requests[id].kind = "subscribe"
      PROVE  ep'[p].requests[id].alias = ep'[o].requests[id].alias
  <2>1. verdict[id] # None
    BY <1>1, <1>4 DEF Heard, Undecided
  <2>2. ep[p].requests[id].alias = ep[o].requests[id].alias
    BY <1>4 DEF AliasAgree, Asking, Answering
  <2>3. ep'[o].requests[id].alias = ep[o].requests[id].alias
    BY <1>1, <1>4, AliasLasts DEF Undecided
  <2> QED
    BY <1>2, <2>1, <2>2, <2>3
<1>5. ASSUME ep'[o].requests[id].state = "Active"
      PROVE  ep'[p].requests[id].alias = ep'[o].requests[id].alias
  <2>1. CASE ep[o].requests[id].state = "Active" /\ ep[o].requests[id].kind = "subscribe"
    BY <1>4, <2>1
  <2>2. CASE ~(ep[o].requests[id].state = "Active" /\ ep[o].requests[id].kind = "subscribe")
    <3>1. e = o
      BY <1>1, <1>5, <2>2
    <3>2. ~Kept(e, t, id) /\ ~Fresh(e, t, id)
      BY <1>1, <1>5, <2>2, <3>1 DEF Kept, Fresh, Opened
    <3>3. PICK event \in Events : Turned(e, t, id, event)
      BY <1>1, <3>2, RecordStep
    <3>4. event = "ok" /\ ep[e].requests[id].kind = "subscribe"
      BY <1>1, <1>5, <2>2, <3>1, <3>3, MoveFacts DEF Turned
    <3>5. PICK m \in Messages : /\ m.type = "SUBSCRIBE_OK" /\ m.id = id
                                /\ Deciding(e, t, m) \/ (Reading(e, t, m) /\ Learned(ep[e], t, m))
      BY <3>3, <3>4 DEF Turned, Establishes
    <3>6. ~Deciding(e, t, m)
      BY <1>1, <3>1, <3>5 DEF Deciding, IsPeers
    <3>7. m \in OnWire(o) /\ t.requests[id].alias = m.alias
      <4>1. m \in OnWire(e)
        BY <1>1, <3>5, <3>6, ReadsIs DEF Reading, Inv
      <4> QED
        BY <3>1, <3>5, <3>6, <4>1 DEF Learned, Changed
    <3> QED
      BY <1>1, <1>3, <3>1, <3>5, <3>7
  <2> QED
    BY <2>1, <2>2
<1>6. ASSUME NEW m \in OnWire(o)', m.type = "SUBSCRIBE_OK", m.id = id
      PROVE  ep'[p].requests[id].alias = m.alias
  <2>1. CASE m \in OnWire(o)
    BY <1>3, <1>6, <2>1
  <2>2. CASE o = Peer(e) /\ Sent(e, t, m)
    <3>1. Deciding(e, t, m) /\ e = p
      BY <1>1, <1>6, <2>2, SentBy, Sides DEF AnswerTypes, OkTypes
    <3> QED
      BY <1>1, <1>6, <3>1 DEF Deciding, Changed
  <2> QED
    BY <1>1, <1>6, <2>1, <2>2, WireFrom DEF SetupTypes
<1> QED
  BY <1>5, <1>6

-----------------------------------------------------------------------------
(* The message that tells an end of a request, and the one that is sent    *)
(* when it is another's.                                                   *)
LEMMA TellsIs ==
  ASSUME NEW e \in Roles, NEW id \in Ids, NEW m, Tells(e, id, m), Plain(id)
  PROVE  /\ Asking(id).kind \in {"subscribe", "publish", "publish_namespace"}
         /\ \/ Asking(id).kind = "subscribe" /\ m.id = id
               /\ m.type = (IF e = Owner(id) THEN "PUBLISH_DONE" ELSE "UNSUBSCRIBE")
            \/ Asking(id).kind = "publish" /\ m.id = id
               /\ m.type = (IF e = Owner(id) THEN "UNSUBSCRIBE" ELSE "PUBLISH_DONE")
            \/ Asking(id).kind = "publish_namespace" /\ m.what = Asking(id).what
               /\ m.type = (IF e = Owner(id) THEN "PUBLISH_NAMESPACE_CANCEL" ELSE "PUBLISH_NAMESPACE_DONE")
BY DEF Tells, Plain, EndOf

(* What is said to be over is over at the end that says so, and stays so.  *)
LEMMA ToldKept ==
  ASSUME AliasInv, Greeting, SameTarget, Told, NEW e \in Roles, NEW t, Step(e, t)
  PROVE  Told'
<1>1. /\ Inv /\ Agree /\ Stepped(e, t) /\ ep'[e] = t /\ ep'[Peer(e)] = ep[Peer(e)]
      /\ \A x \in Roles : x = e \/ x = Peer(e)
      /\ \A x \in Roles : /\ Peer(x) \in Roles /\ Peer(x) # x /\ Peer(Peer(x)) = x
                          /\ ep[x].role = x /\ ep'[x].role = x
      /\ \A id : Owner(id) \in Roles
  BY Sides DEF AliasInv, Step
<1>2. ASSUME NEW x \in Roles, NEW id \in Ids
      PROVE  /\ GivenOut(ep[x], id) => GivenOut(ep'[x], id)
             /\ Received(ep[x], id) => Received(ep'[x], id)
             /\ Received(ep[x], id) \/ GivenOut(ep[x], id) => ep[x].requests[id].kind # "none"
  BY <1>1, Lasting DEF GivenOut, Received, IsOwn, IsPeers
<1>3. ASSUME NEW x \in Roles, NEW ns, Announced(x, ns)
      PROVE  Announced(x, ns)'
  BY <1>1, <1>3, Lasting DEF Announced
<1>4. ASSUME NEW m, Sent(e, t, m), m.type \in EndTypes \union AboutTypes
      PROVE  \E j \in Ids : Names(e, j, m) /\ t.requests[j].state = "Done"
  BY <1>4, SentBy DEF Farewell
<1>5. ASSUME NEW j \in Ids, IsPeers(ep[e], j, "publish_namespace")
      PROVE  /\ Owner(j) = Peer(e) /\ ep[Peer(e)].requests[j].kind = "publish_namespace"
             /\ ep[Peer(e)].requests[j].what = ep[e].requests[j].what
  <2>1. Owner(j) = Peer(e) /\ Peer(Owner(j)) = e /\ ep[e].requests[j].kind = "publish_namespace"
    BY <1>1, <1>5 DEF IsPeers
  <2> QED
    BY <2>1, <1>1 DEF Agree, SameTarget, Asking, Answering
<1>6. ASSUME NEW x \in Roles, NEW m \in OnWire(x)'
      PROVE  /\ m.type = "PUBLISH_DONE" => GivenOut(ep'[Peer(x)], m.id)
             /\ m.type = "UNSUBSCRIBE" => Received(ep'[Peer(x)], m.id)
             /\ m.type = "PUBLISH_NAMESPACE_DONE" => Announced(Peer(x), m.what)'
             /\ m.type = "PUBLISH_NAMESPACE_CANCEL" => Announced(x, m.what)'
  <2>1. CASE m \in OnWire(x)
    <3>1. m.type \in {"PUBLISH_DONE", "UNSUBSCRIBE"} => m.id \in Ids
      BY <1>1, <2>1, Numbers DEF EndTypes
    <3> QED
      BY <1>1, <1>2, <1>3, <2>1, <3>1 DEF Told
  <2>2. ASSUME x = Peer(e), Sent(e, t, m), m.type \in EndTypes \union AboutTypes
        PROVE  /\ m.type = "PUBLISH_DONE" => GivenOut(ep'[e], m.id)
               /\ m.type = "UNSUBSCRIBE" => Received(ep'[e], m.id)
               /\ m.type = "PUBLISH_NAMESPACE_DONE" => Announced(e, m.what)'
               /\ m.type = "PUBLISH_NAMESPACE_CANCEL" => Announced(x, m.what)'
    <3>1. PICK j \in Ids : Names(e, j, m)
      BY <1>4, <2>2
    <3>2. m.type = "PUBLISH_DONE" => GivenOut(ep'[e], m.id)
      BY <1>2, <3>1 DEF Names
    <3>3. m.type = "UNSUBSCRIBE" => Received(ep'[e], m.id)
      BY <1>2, <3>1 DEF Names
    <3>4. m.type = "PUBLISH_NAMESPACE_DONE" => Announced(e, m.what)'
      <4>1. m.type = "PUBLISH_NAMESPACE_DONE" => Announced(e, m.what)
        BY <1>1, <3>1 DEF Names, Announced, IsOwn
      <4> QED
        BY <1>3, <4>1
    <3>5. m.type = "PUBLISH_NAMESPACE_CANCEL" => Announced(x, m.what)'
      <4>1. m.type = "PUBLISH_NAMESPACE_CANCEL" => Announced(x, m.what)
        <5> SUFFICES ASSUME m.type = "PUBLISH_NAMESPACE_CANCEL"
                     PROVE  Announced(x, m.what)
          OBVIOUS
        <5>1. IsPeers(ep[e], j, "publish_namespace") /\ m.what = ep[e].requests[j].what
          BY <3>1 DEF Names
        <5> QED
          BY <1>5, <2>2, <5>1 DEF Announced
      <4> QED
        BY <1>1, <1>3, <4>1
    <3> QED
      BY <3>2, <3>3, <3>4, <3>5
  <2>3. m.type \in {"PUBLISH_DONE", "UNSUBSCRIBE", "PUBLISH_NAMESPACE_DONE", "PUBLISH_NAMESPACE_CANCEL"}
        => /\ m.type \notin SetupTypes
           /\ m.type \in EndTypes \union AboutTypes
    BY DEF SetupTypes, EndTypes, AboutTypes
  <2> QED
    BY <1>1, <2>1, <2>2, <2>3, WireFrom
<1>7. ASSUME NEW id \in Ids, NEW j \in Ids, Owner(j) = Owner(id), Plain(id)',
             ep'[Owner(id)].requests[id].kind = "publish_namespace",
             ep'[Owner(id)].requests[j].kind = "publish_namespace",
             ep'[Owner(id)].requests[j].what = ep'[Owner(id)].requests[id].what
      PROVE  j = id
  BY <1>7 DEF Plain, Reannounced, Asking
<1>8. ASSUME NEW x \in Roles, NEW m \in OnWire(x)', NEW id \in Ids, Plain(id)', Tells(x, id, m)'
      PROVE  ep'[Peer(x)].requests[id].state = "Done"
  <2> DEFINE o == Owner(id)
             q == Peer(x)
             k == ep'[o].requests[id].kind
             type == m.type
  <2>1. /\ k \in {"subscribe", "publish", "publish_namespace"}
        /\ \/ k = "subscribe" /\ m.id = id
              /\ type = (IF x = o THEN "PUBLISH_DONE" ELSE "UNSUBSCRIBE")
           \/ k = "publish" /\ m.id = id
              /\ type = (IF x = o THEN "UNSUBSCRIBE" ELSE "PUBLISH_DONE")
           \/ k = "publish_namespace" /\ m.what = ep'[o].requests[id].what
              /\ type = (IF x = o THEN "PUBLISH_NAMESPACE_CANCEL" ELSE "PUBLISH_NAMESPACE_DONE")
    BY <1>8 DEF Tells, Plain, EndOf, Asking
  <2>2. o \in Roles /\ q \in Roles /\ q # x /\ (x # o => q = o) /\ (x = o => q = Peer(o))
    BY <1>1
  <2>3. type \notin SetupTypes /\ type \in EndTypes \union AboutTypes
    BY <2>1 DEF SetupTypes, EndTypes, AboutTypes
  <2>4. CASE m \in OnWire(x)
    <3>1. CASE ep[o].requests[id].kind # "none"
      <4>1. ep[o].requests[id].kind = k /\ ep[o].requests[id].what = ep'[o].requests[id].what
        BY <1>1, <2>2, <3>1, Lasting
      <4>2. Tells(x, id, m)
        BY <1>8, <4>1 DEF Tells, Asking
      <4>3. Plain(id)
        <5>1. Reannounced(id) => Reannounced(id)'
          BY <1>1, <2>2, Lasting DEF Reannounced
        <5> QED
          BY <1>8, <4>1, <5>1 DEF Plain, Asking
      <4>4. ep[q].requests[id].state = "Done"
        BY <2>4, <4>2, <4>3 DEF Told
      <4> QED
        BY <1>1, <2>2, <4>4, Lasting
    <3>2. CASE ep[o].requests[id].kind = "none"
      <4>1. ep[Peer(o)].requests[id].kind = "none"
        BY <1>1, <3>2 DEF Agree, Kinds
      <4>2. ep[q].requests[id].kind = "none"
        BY <2>2, <3>2, <4>1
      <4>3. CASE k \in {"subscribe", "publish"}
        <5>1. m.id = id /\ type \in {"PUBLISH_DONE", "UNSUBSCRIBE"}
          BY <2>1, <4>3
        <5>2. GivenOut(ep[q], id) \/ Received(ep[q], id)
          BY <2>4, <5>1 DEF Told
        <5> QED
          BY <1>2, <2>2, <4>2, <5>2
      <4>4. CASE k = "publish_namespace"
        <5>1. /\ m.what = ep'[o].requests[id].what
              /\ type = (IF x = o THEN "PUBLISH_NAMESPACE_CANCEL" ELSE "PUBLISH_NAMESPACE_DONE")
          BY <2>1, <4>4
        <5>2. Announced(o, m.what)
          BY <2>2, <2>4, <5>1 DEF Told
        <5>3. PICK j \in Ids : /\ Owner(j) = o /\ ep[o].requests[j].kind = "publish_namespace"
                               /\ ep[o].requests[j].what = m.what
          BY <5>2 DEF Announced
        <5>4. ep'[o].requests[j].kind = "publish_namespace" /\ ep'[o].requests[j].what = m.what
          BY <1>1, <2>2, <5>3, Lasting
        <5>5. j = id
          BY <1>7, <1>8, <4>4, <5>1, <5>3, <5>4
        <5> QED
          BY <3>2, <5>3, <5>5
      <4> QED
        BY <2>1, <4>3, <4>4
    <3> QED
      BY <3>1, <3>2
  <2>5. CASE x = Peer(e) /\ Sent(e, t, m)
    <3>1. q = e /\ ep'[q] = t
      BY <1>1, <2>5
    <3>2. PICK j \in Ids : Names(e, j, m) /\ t.requests[j].state = "Done"
      BY <1>4, <2>3, <2>5
    <3>3. CASE k \in {"subscribe", "publish"}
      BY <2>1, <3>1, <3>2, <3>3 DEF Names
    <3>4. CASE k = "publish_namespace"
      <4>1. /\ m.what = ep'[o].requests[id].what
            /\ type = (IF x = o THEN "PUBLISH_NAMESPACE_CANCEL" ELSE "PUBLISH_NAMESPACE_DONE")
        BY <2>1, <3>4
      <4>2. Owner(j) = o /\ ep[o].requests[j].kind = "publish_namespace" /\ ep[o].requests[j].what = m.what
        <5>1. CASE x = o
          <6>1. IsPeers(ep[e], j, "publish_namespace") /\ m.what = ep[e].requests[j].what
            BY <3>2, <4>1, <5>1 DEF Names
          <6> QED
            BY <1>5, <2>5, <5>1, <6>1
        <5>2. CASE x # o
          <6>1. IsOwn(ep[e], j, "publish_namespace") /\ m.what = ep[e].requests[j].what
            BY <3>2, <4>1, <5>2 DEF Names
          <6> QED
            BY <1>1, <2>2, <3>1, <5>2, <6>1 DEF IsOwn
        <5> QED
          BY <5>1, <5>2
      <4>3. ep'[o].requests[j].kind = "publish_namespace" /\ ep'[o].requests[j].what = m.what
        BY <1>1, <2>2, <4>2, Lasting
      <4>4. j = id
        BY <1>7, <1>8, <3>4, <4>1, <4>2, <4>3
      <4> QED
        BY <3>1, <3>2, <4>4
    <3> QED
      BY <2>1, <3>3, <3>4
  <2> QED
    BY <1>1, <2>3, <2>4, <2>5, WireFrom
<1> QED
  BY <1>6, <1>8 DEF Told

-----------------------------------------------------------------------------
(* Two Request IDs of one end are two apart. *)
LEMMA Apart ==
  ASSUME NEW a \in Nat, NEW b \in Nat, Owner(a) = Owner(b), a < b
  PROVE  a + 2 <= b
BY DEF Owner

(* What a message does to an endpoint whose session it leaves open.        *)
LEMMA TakenBy ==
  ASSUME Inv, NEW e \in Roles, NEW t, Step(e, t), NEW m, Taking(e, t, m), Open'
  PROVE  /\ m \in OnWire(e) /\ m \in Messages /\ m.type \notin SetupTypes /\ ~Closes(ep[e], t, m)
         /\ m.type \in RequestTypes => Enters(ep[e], t, m)
         /\ m.type \in AnswerTypes \union EndTypes \union AboutTypes => Heeds(ep[e], t, m)
         /\ m.type \in CountTypes => Counts(ep[e], t, m)
<1>1. m \in OnWire(e) /\ m \in Messages /\ m.type \notin SetupTypes /\ Taken(e, t, m)
  BY TakingIs
<1>2. ~Closes(ep[e], t, m)
  BY Sides DEF Closes, Open
<1>3. m.type \in RequestTypes => Enters(ep[e], t, m)
  BY <1>1, <1>2, TypesApart DEF Taken, Heeds, Counts, AnswerTypes, CountTypes
<1>4. m.type \in AnswerTypes \union EndTypes \union AboutTypes => Heeds(ep[e], t, m)
  BY <1>1, <1>2, TypesApart DEF Taken, Enters, Counts, AnswerTypes, CountTypes, EndTypes, AboutTypes,
     OkTypes, ErrorTypes
<1>5. m.type \in CountTypes => Counts(ep[e], t, m)
  BY <1>1, <1>2, TypesApart DEF Taken, Enters, Heeds, AnswerTypes, CountTypes, EndTypes, AboutTypes,
     OkTypes, ErrorTypes
<1> QED
  BY <1>1, <1>2, <1>3, <1>4, <1>5

(* How the count of Request IDs changes in a session that stays open.      *)
LEMMA CountsStep ==
  ASSUME Inv, NEW e \in Roles, NEW t, Step(e, t), Open', NEW x \in Roles
  PROVE  /\ \/ ep'[x].peer_next_id = ep[x].peer_next_id
            \/ /\ x = e /\ ep'[x].peer_next_id = ep[x].peer_next_id + 2
               /\ \E m \in Messages : Taking(e, t, m) /\ Enters(ep[e], t, m)
         /\ \/ ep'[x].next_id = ep[x].next_id
            \/ x = e /\ ep'[x].next_id = ep[x].next_id + 2 /\ \E m \in Messages : Opening(e, t, m)
         /\ ep[x].next_id \in Nat /\ ep[x].peer_next_id \in Nat
         /\ Owner(ep[x].next_id) = x /\ Owner(ep[x].peer_next_id) = Peer(x)
<1>1. ep'[e] = t /\ ep'[Peer(e)] = ep[Peer(e)] /\ (x = e \/ x = Peer(e)) /\ ep[x].role = x
  BY Sides
<1>2. ~Closing(e, t)
  BY <1>1 DEF Closing, Closes, Open
<1>3. ep[x].next_id \in Nat /\ ep[x].peer_next_id \in Nat
  BY Numbers
<1>4. Owner(ep[x].next_id) = x /\ Owner(ep[x].peer_next_id) = Peer(x)
  <2>1. Owner(ep[x].next_id) = x /\ Owner(ep[x].peer_next_id) # x
    BY <1>1 DEF Inv, Counters, Counted
  <2> QED
    BY <2>1, RolesAre
<1>5. \/ t.peer_next_id = ep[e].peer_next_id
      \/ /\ t.peer_next_id = ep[e].peer_next_id + 2
         /\ \E m \in Messages : Taking(e, t, m) /\ Enters(ep[e], t, m)
  BY <1>2, StepFields DEF Enters
<1>6. \/ t.next_id = ep[e].next_id
      \/ t.next_id = ep[e].next_id + 2 /\ \E m \in Messages : Opening(e, t, m)
  BY StepFields DEF Opening
<1> QED
  BY <1>1, <1>3, <1>4, <1>5, <1>6

(* Every Request ID that is used is sent, in order, and arrives in order.  *)
LEMMA SequenceKept ==
  ASSUME Inv, Greeting, Sequence, NEW e \in Roles, NEW t, Step(e, t), Clean'
  PROVE  Sequence'
<1>1. /\ ep'[e] = t /\ ep'[Peer(e)] = ep[Peer(e)] /\ \A x \in Roles : x = e \/ x = Peer(e)
      /\ \A x \in Roles : Peer(x) \in Roles /\ Peer(x) # x /\ Peer(Peer(x)) = x
      /\ Open' /\ dropped' = 0 /\ TypeOK
      /\ \A type \in RequestTypes : type \notin SetupTypes /\ type \notin {"UNSUBSCRIBE", "FETCH_CANCEL"}
  BY Sides DEF Clean, Inv, RequestTypes, SetupTypes
<1>2. ASSUME NEW m, Opening(e, t, m)
      PROVE  /\ m.id = ep[e].next_id /\ ep'[e].next_id = ep[e].next_id + 2
             /\ \A x \in Roles : ep'[x].peer_next_id = ep[x].peer_next_id
  BY <1>1, <1>2 DEF Opening, NextId
<1>3. ASSUME NEW m, Taking(e, t, m), m.type \in RequestTypes
      PROVE  /\ m.id = ep[e].peer_next_id /\ ep'[e].peer_next_id = ep[e].peer_next_id + 2
             /\ m \in OnWire(e) /\ m.id < ep[Peer(e)].next_id
             /\ \A x \in Roles : ep'[x].next_id = ep[x].next_id
  <2>1. Enters(ep[e], t, m) /\ m \in OnWire(e)
    BY <1>1, <1>3, TakenBy
  <2> QED
    BY <1>1, <1>3, <2>1, Numbers DEF Enters, Meant
<1>4. ASSUME NEW m \in Messages, Enters(ep[e], t, m)
      PROVE  m.type \in RequestTypes
  BY <1>4 DEF Enters
<1>5. ASSUME NEW x \in Roles, NEW i \in DOMAIN wire'[x], wire'[x][i].type \in RequestTypes
      PROVE  ep'[x].peer_next_id <= wire'[x][i].id
  <2> DEFINE m == wire'[x][i]
             a == ep[x].peer_next_id
             b == ep[Peer(x)].next_id
  <2>0. a \in Nat /\ b \in Nat /\ Owner(a) = Peer(x) /\ Owner(b) = Peer(x) /\ a <= b
    BY <1>1, CountsStep DEF Sequence
  <2>1. PICK d \in {0, 1} : Flow(e, t, x, d)
    BY WireStep
  <2>2. CASE i + d \in DOMAIN wire[x]
    <3>1. m = wire[x][i + d] /\ m \in OnWire(x) /\ i \in Nat /\ i >= 1
      BY <2>1, <2>2, FlowBack, Numbers
    <3>2. a <= m.id /\ m.id \in Nat /\ Owner(m.id) = Peer(x)
      BY <1>5, <3>1, Numbers DEF Sequence, Meant
    <3>3. CASE ep'[x].peer_next_id = a
      BY <3>2, <3>3
    <3>4. ASSUME x = e, ep'[x].peer_next_id = a + 2, NEW r \in Messages, Taking(e, t, r), Enters(ep[e], t, r)
          PROVE  a + 2 <= m.id
      <4>1. r.type \in RequestTypes /\ r.id = a
        BY <3>4 DEF Enters
      <4>2. d = 1 /\ 1 \in DOMAIN wire[x] /\ wire[x][1] = r
        BY <2>1, <3>4, FlowTaken
      <4>3. 1 < i + d
        BY <3>1, <4>2
      <4>4. r.id < m.id
        BY <1>5, <2>2, <3>1, <4>1, <4>2, <4>3 DEF Sequence
      <4> QED
        BY <2>0, <3>2, <4>1, <4>4, Apart
    <3> QED
      BY <1>1, <3>3, <3>4, CountsStep
  <2>3. CASE i + d \notin DOMAIN wire[x]
    <3>1. x = Peer(e) /\ Opening(e, t, m)
      BY <1>1, <1>5, <2>1, <2>3, FlowBack, SentBy
    <3> QED
      BY <1>1, <1>2, <2>0, <3>1
  <2> QED
    BY <2>2, <2>3
<1>6. ASSUME NEW x \in Roles, NEW i \in DOMAIN wire'[x], NEW n \in DOMAIN wire'[x], i < n,
             wire'[x][i].type \in RequestTypes, wire'[x][n].type \in RequestTypes
      PROVE  wire'[x][i].id < wire'[x][n].id
  <2>1. PICK d \in {0, 1} : Flow(e, t, x, d)
    BY WireStep
  <2>2. i + d < n + d /\ i + d \in DOMAIN wire[x] /\ wire'[x][i] = wire[x][i + d]
    BY <1>1, <1>6, <2>1, FlowPair, FlowBack
  <2>3. CASE n + d \in DOMAIN wire[x]
    BY <1>6, <2>1, <2>2, <2>3, FlowBack DEF Sequence
  <2>4. CASE n + d \notin DOMAIN wire[x]
    <3>1. x = Peer(e) /\ Opening(e, t, wire'[x][n])
      BY <1>1, <1>6, <2>1, <2>4, FlowBack, SentBy
    <3>2. wire[x][i + d] \in OnWire(x) /\ wire[x][i + d].id < ep[Peer(x)].next_id
      BY <1>6, <2>2, Numbers DEF Meant
    <3> QED
      BY <1>1, <1>2, <2>2, <3>1, <3>2
  <2> QED
    BY <2>3, <2>4
<1>7. ASSUME NEW x \in Roles
      PROVE  ep'[x].peer_next_id <= ep'[Peer(x)].next_id
  <2> DEFINE a == ep[x].peer_next_id
             b == ep[Peer(x)].next_id
  <2>1. a \in Nat /\ b \in Nat /\ Owner(a) = Peer(x) /\ Owner(b) = Peer(x) /\ a <= b
    BY <1>1, CountsStep DEF Sequence
  <2>2. CASE ep'[x].peer_next_id = a
    <3>1. ep'[Peer(x)].next_id = b \/ ep'[Peer(x)].next_id = b + 2
      BY <1>1, CountsStep
    <3> QED
      BY <2>1, <2>2, <3>1
  <2>3. ASSUME x = e, ep'[x].peer_next_id = a + 2, NEW r \in Messages, Taking(e, t, r), Enters(ep[e], t, r)
        PROVE  a + 2 <= ep'[Peer(x)].next_id
    <3>1. a < b /\ ep'[Peer(x)].next_id = b
      BY <1>1, <1>3, <1>4, <2>3
    <3> QED
      BY <2>1, <3>1, Apart
  <2> QED
    BY <1>1, <2>2, <2>3, CountsStep
<1>8. ASSUME NEW x \in Roles, NEW id \in Nat, Owner(id) = Peer(x), ep'[x].peer_next_id <= id,
             id < ep'[Peer(x)].next_id
      PROVE  \E m \in OnWire(x)' : m.type \in RequestTypes /\ m.id = id
  <2> DEFINE a == ep[x].peer_next_id
             b == ep[Peer(x)].next_id
  <2>1. /\ a \in Nat /\ b \in Nat /\ Owner(b) = Peer(x) /\ a <= b /\ a <= id
        /\ b <= ep'[Peer(x)].next_id /\ ep'[x].peer_next_id \in Nat
    <3>1. /\ a \in Nat /\ b \in Nat /\ Owner(b) = Peer(x) /\ a <= b
          /\ ep'[x].peer_next_id = a \/ ep'[x].peer_next_id = a + 2
          /\ ep'[Peer(x)].next_id = b \/ ep'[Peer(x)].next_id = b + 2
      BY <1>1, CountsStep DEF Sequence
    <3> QED
      BY <1>8, <3>1
  <2>2. CASE id < b
    <3>1. PICK m \in OnWire(x) : m.type \in RequestTypes /\ m.id = id
      BY <1>8, <2>1, <2>2 DEF Sequence
    <3>2. ASSUME x = e, Taking(e, t, m)
          PROVE  FALSE
      <4>1. m.id = a /\ ep'[x].peer_next_id = a + 2
        BY <1>3, <3>1, <3>2
      <4> QED
        BY <1>8, <2>1, <3>1, <4>1
    <3> QED
      BY <1>1, <3>1, <3>2, WireStays
  <2>3. CASE b <= id
    <3>1. PICK m \in Messages : Opening(e, t, m)
      BY <1>1, <1>8, <2>1, <2>3, CountsStep
    <3>2. Peer(x) = e /\ x = Peer(e)
      <4>1. CASE Peer(x) # e
        <5>1. ep'[Peer(x)].next_id = b
          BY <1>1, <4>1, CountsStep
        <5> QED
          BY <1>8, <2>1, <2>3, <5>1
      <4> QED
        BY <1>1, <4>1
    <3>3. m.id = b /\ id < b + 2
      BY <1>2, <1>8, <3>1, <3>2
    <3>4. id = b
      <4>1. b < id => b + 2 <= id
        BY <1>8, <2>1, Apart
      <4> QED
        BY <2>1, <2>3, <3>3, <4>1
    <3>5. m \in OnWire(x)'
      <4>1. Wrote(e, <<m>>) /\ 1 \in DOMAIN <<m>> /\ <<m>>[1] = m
        BY <3>1 DEF Opening, Asked
      <4> QED
        BY <1>1, <3>2, <4>1, Written
    <3>6. m.type \in RequestTypes
      BY <3>1 DEF Opening
    <3> QED
      BY <3>3, <3>4, <3>5, <3>6
  <2> QED
    BY <2>1, <2>2, <2>3
<1>9. ASSUME NEW x \in Roles, NEW m \in OnWire(x)', m.type \in RequestTypes
      PROVE  ep'[x].peer_next_id <= m.id
  BY <1>5, <1>9 DEF OnWire
<1> QED
  BY <1>6, <1>7, <1>8, <1>9 DEF Sequence

(* A request that has arrived is on record, unless the endpoint drains.    *)
LEMMA NotedKept ==
  ASSUME Inv, Updates, Sequence, Noted, NEW e \in Roles, NEW t, Step(e, t), Clean'
  PROVE  Noted'
<1> SUFFICES ASSUME NEW id \in Ids, ep'[Peer(Owner(id))].session # "Draining",
                    id < ep'[Peer(Owner(id))].peer_next_id, ep'[Owner(id)].requests[id].kind # "none"
             PROVE  ep'[Peer(Owner(id))].requests[id].kind # "none"
  BY DEF Noted, Asking, Answering
<1> DEFINE o == Owner(id)
           p == Peer(o)
<1>1. /\ o \in Roles /\ p \in Roles /\ p # o /\ Peer(p) = o /\ Open' /\ Stepped(e, t)
      /\ (e = p => ep'[o] = ep[o] /\ ep'[p] = t) /\ (e # p => e = o /\ ep'[p] = ep[p] /\ ep'[o] = t)
      /\ id \in Nat
  BY Sides, EndpointAssumption DEF Clean, Step
<1>2. ep[p].session # "Draining"
  <2>1. CASE e = p
    <3>1. ~Closing(e, t)
      BY <1>1, <2>1 DEF Closing, Closes, Open
    <3> QED
      BY <1>1, <2>1, <3>1, StepFields DEF Shaken, Early, Retiring
  <2> QED
    BY <1>1, <2>1
<1>3. CASE id < ep[p].peer_next_id
  <2>1. CASE ep[o].requests[id].kind # "none"
    <3>1. ep[p].requests[id].kind # "none"
      BY <1>2, <1>3, <2>1 DEF Noted, Asking, Answering
    <3> QED
      BY <1>1, <3>1, Lasting
  <2>2. CASE ep[o].requests[id].kind = "none"
    <3>1. e = o /\ ~Kept(e, t, id) /\ \A event : ~Turned(e, t, id, event)
      BY <1>1, <2>2, MoveFacts DEF Kept, Turned, Kinds
    <3>2. Opens(e, t, id)
      BY <1>1, <3>1, RecordStep DEF Fresh
    <3>3. id = ep[o].next_id
      BY <3>1, <3>2 DEF Opens, Opening, NextId
    <3>4. ep[p].peer_next_id <= ep[o].next_id
      BY <1>1 DEF Sequence
    <3>5. ep[p].peer_next_id \in Nat
      BY <1>1, Numbers
    <3> QED
      BY <1>1, <1>3, <3>3, <3>4, <3>5
  <2> QED
    BY <2>1, <2>2
<1>4. CASE ~(id < ep[p].peer_next_id)
  <2> DEFINE a == ep[p].peer_next_id
  <2>1. PICK m \in Messages : Taking(e, t, m) /\ Enters(ep[e], t, m)
    BY <1>1, <1>4, CountsStep
  <2>2. e = p /\ ep'[p].peer_next_id = a + 2 /\ a \in Nat /\ Owner(a) = o
    BY <1>1, <1>4, CountsStep
  <2>3. id = a
    <3>1. a < id => a + 2 <= id
      BY <1>1, <2>2, Apart
    <3> QED
      BY <1>1, <1>4, <2>2, <3>1
  <2>4. m.id = id /\ m.type \in RequestTypes /\ ep[e].session = "Active"
    BY <1>2, <2>1, <2>2, <2>3 DEF Enters, Taking
  <2>5. m.type # "SUBSCRIBE_UPDATE"
    <3>1. m \in OnWire(e)
      BY <2>1, TakingIs
    <3> QED
      BY <1>1, <2>2, <2>4, <3>1 DEF Updates
  <2>6. t.requests[id].kind = KindOf(m.type) /\ KindOf(m.type) \in Kinds
    BY <2>1, <2>4, <2>5, TypesApart DEF Enters
  <2> QED
    BY <1>1, <2>2, <2>6 DEF Kinds
<1> QED
  BY <1>3, <1>4

-----------------------------------------------------------------------------
(* What an end has on record of a request is what its asker asked for.     *)
LEMMA Records ==
  ASSUME AliasInv, SameTarget, NEW e \in Roles, NEW id \in Ids, ep[e].requests[id].kind # "none"
  PROVE  /\ Asking(id).kind = ep[e].requests[id].kind
         /\ Asking(id).kind # "fetch" => Asking(id).what = ep[e].requests[id].what
<1>1. e = Owner(id) \/ e = Peer(Owner(id))
  BY RolesAre
<1> QED
  BY <1>1 DEF AliasInv, Agree, SameTarget, Asking, Answering

(* An end that is said goodbye to is told that the request is over.        *)
LEMMA NamesTells ==
  ASSUME AliasInv, SameTarget, NEW e \in Roles, NEW id \in Ids, Plain(id), NEW m, Names(e, id, m)
  PROVE  Tells(Peer(e), id, m)
<1>1. ep[e].role = e /\ Peer(e) \in Roles /\ Peer(e) # e /\ Owner(id) \in {e, Peer(e)}
  BY RolesAre DEF AliasInv, Inv, TypeOK
<1>2. ep[e].requests[id].kind # "none"
  BY DEF Names, Received, GivenOut, IsOwn, IsPeers
<1>3. /\ Asking(id).kind = ep[e].requests[id].kind
      /\ Asking(id).kind # "fetch" => Asking(id).what = ep[e].requests[id].what
  BY <1>2, Records
<1>4. Asking(id).kind \in {"subscribe", "publish", "publish_namespace"}
  BY DEF Plain
<1>5. \/ m.type = "UNSUBSCRIBE" /\ m.id = id /\ Received(ep[e], id)
      \/ m.type = "PUBLISH_DONE" /\ m.id = id /\ GivenOut(ep[e], id)
      \/ /\ m.what = ep[e].requests[id].what
         /\ \/ m.type = "PUBLISH_NAMESPACE_DONE" /\ IsOwn(ep[e], id, "publish_namespace")
            \/ m.type = "PUBLISH_NAMESPACE_CANCEL" /\ IsPeers(ep[e], id, "publish_namespace")
  BY <1>3, <1>4 DEF Names, IsOwn, IsPeers
<1> QED
  BY <1>1, <1>3, <1>5 DEF Tells, EndOf, Received, GivenOut, IsOwn, IsPeers

(* What concerns a request and is no answer tells that it is over.         *)
LEMMA ConcernsTells ==
  ASSUME AliasInv, SameTarget, Told, NEW e \in Roles, NEW id \in Ids, Plain(id), NEW m \in OnWire(e),
         m.type \in EndTypes \union AboutTypes, Concerns(ep[e], id, m)
  PROVE  Tells(e, id, m)
<1>1. ep[e].role = e /\ Peer(e) \in Roles /\ Peer(e) # e /\ Owner(id) \in {e, Peer(e)}
      /\ ep[Peer(e)].role = Peer(e)
  BY RolesAre DEF AliasInv, Inv, TypeOK
<1>2. m.type \notin AnswerTypes
  BY DEF AnswerTypes, OkTypes, ErrorTypes, EndTypes, AboutTypes
<1>3. ep[e].requests[id].kind # "none"
  BY <1>2 DEF Concerns, GivenOut, IsOwn, IsPeers, inbound_subscribe_namespace_ids,
     inbound_publish_namespace_ids, own_publish_namespace_ids
<1>4. /\ Asking(id).kind = ep[e].requests[id].kind
      /\ Asking(id).kind # "fetch" => Asking(id).what = ep[e].requests[id].what
  BY <1>3, Records
<1>5. Asking(id).kind \in {"subscribe", "publish", "publish_namespace"}
  BY DEF Plain
<1>6. ASSUME m.type = "PUBLISH_DONE", IsOwn(ep[e], id, "publish"), m.id = id
      PROVE  FALSE
  <2>1. GivenOut(ep[Peer(e)], id)
    BY <1>6 DEF Told
  <2>2. ep[Peer(e)].requests[id].kind = "subscribe"
    BY <1>1, <1>6, <2>1 DEF GivenOut, IsOwn, IsPeers
  <2> QED
    BY <1>1, <1>4, <1>6, <2>2, Records DEF IsOwn
<1>7. \/ m.type = "UNSUBSCRIBE" /\ m.id = id /\ GivenOut(ep[e], id)
      \/ /\ m.type = "PUBLISH_DONE" /\ m.id = id
         /\ IsOwn(ep[e], id, "subscribe") \/ IsPeers(ep[e], id, "publish")
      \/ /\ m.what = ep[e].requests[id].what
         /\ \/ m.type = "PUBLISH_NAMESPACE_DONE" /\ IsPeers(ep[e], id, "publish_namespace")
            \/ m.type = "PUBLISH_NAMESPACE_CANCEL" /\ IsOwn(ep[e], id, "publish_namespace")
  BY <1>2, <1>4, <1>5, <1>6 DEF Concerns, IsOwn, IsPeers, inbound_subscribe_namespace_ids,
     inbound_publish_namespace_ids, own_publish_namespace_ids
<1> QED
  BY <1>1, <1>4, <1>7 DEF Tells, EndOf, GivenOut, IsOwn, IsPeers

(* Who is told that an accepted request is over ends it.                   *)
LEMMA HearsOver ==
  ASSUME AliasInv, SameTarget, Proper, NEW e \in Roles, NEW t, Step(e, t), Open', NEW id \in Ids,
         Plain(id), ep[e].requests[id].state = "Active", NEW m, Taking(e, t, m), Tells(e, id, m)
  PROVE  t.requests[id].state = "Done"
<1> DEFINE s == ep[e]
           o == Owner(id)
<1>1. /\ Inv /\ s.role = e /\ o \in {e, Peer(e)} /\ Peer(e) # e /\ Peer(e) \in Roles
      /\ Peer(Peer(e)) = e
  BY RolesAre DEF AliasInv, Inv, TypeOK
<1>2. s.requests[id].kind \in Kinds /\ s.requests[id].kind # "none"
  <2>1. s.requests[id].state \in StatesOf(s.requests[id].kind) /\ s.requests[id] \in Requests
    BY <1>1, Sides DEF Proper, Endpoints
  <2> QED
    BY <2>1 DEF StatesOf, Requests, Kinds
<1>3. /\ Asking(id).kind = s.requests[id].kind
      /\ Asking(id).kind # "fetch" => Asking(id).what = s.requests[id].what
  BY <1>2, Records
<1>4. \/ Asking(id).kind = "subscribe" /\ m.id = id
         /\ m.type = (IF e = o THEN "PUBLISH_DONE" ELSE "UNSUBSCRIBE")
      \/ Asking(id).kind = "publish" /\ m.id = id
         /\ m.type = (IF e = o THEN "UNSUBSCRIBE" ELSE "PUBLISH_DONE")
      \/ Asking(id).kind = "publish_namespace" /\ m.what = Asking(id).what
         /\ m.type = (IF e = o THEN "PUBLISH_NAMESPACE_CANCEL" ELSE "PUBLISH_NAMESPACE_DONE")
  BY TellsIs
<1>5. m.type \in EndTypes \union AboutTypes /\ m.type \notin AnswerTypes
  BY <1>4 DEF EndTypes, AboutTypes, AnswerTypes, OkTypes, ErrorTypes
<1>6. Concerns(s, id, m)
  BY <1>1, <1>3, <1>4 DEF Concerns, GivenOut, IsOwn, IsPeers, inbound_publish_namespace_ids,
     own_publish_namespace_ids
<1>7. ASSUME NEW j \in Ids, Concerns(s, j, m)
      PROVE  j = id
  <2>1. CASE m.type \in {"PUBLISH_DONE", "UNSUBSCRIBE"}
    BY <1>4, <1>5, <1>7, <2>1 DEF Concerns
  <2>2. CASE Asking(id).kind = "publish_namespace" /\ m.what = Asking(id).what
    <3>1. /\ s.requests[j].kind = "publish_namespace" /\ s.requests[j].what = m.what
          /\ (Owner(j) = e) = (o = e)
      BY <1>1, <1>4, <1>5, <1>7, <2>2 DEF Concerns, IsOwn, IsPeers, inbound_publish_namespace_ids,
         own_publish_namespace_ids
    <3>2. Asking(j).kind = "publish_namespace" /\ Asking(j).what = m.what
      BY <3>1, Records
    <3>3. Owner(j) = o
      BY <1>1, <3>1, RolesAre
    <3>4. ~Reannounced(id)
      BY <2>2 DEF Plain
    <3> QED
      BY <2>2, <3>2, <3>3, <3>4 DEF Reannounced, Asking
  <2> QED
    BY <1>4, <2>1, <2>2
<1>8. CanMove(s, id, EventOf(m.type)) /\ EventOf(m.type) \in {"unsubscribe", "done", "cancel"}
  <2>1. s.requests[id].state \in StatesOf(s.requests[id].kind)
    BY DEF Proper
  <2> QED
    BY <1>2, <1>3, <1>4, <1>5, <2>1, Able, EventsOf DEF CanMove
<1>9. Heeds(s, t, m)
  BY <1>1, <1>5, TakenBy
<1>10. Changed(s, t, id, EventOf(m.type), BindsTo(s, id, m))
  BY <1>6, <1>7, <1>8, <1>9 DEF Heeds
<1> QED
  BY <1>8, <1>10, MoveFacts DEF Changed

(* How a request is over at an end. *)
LEMMA BecomesDone ==
  ASSUME AliasInv, SameTarget, Told, NEW e \in Roles, NEW t, Step(e, t), NEW id \in Ids,
         Plain(id), ep[e].requests[id].state # "Done", t.requests[id].state = "Done"
  PROVE  \/ \E m \in Messages : Deciding(e, t, m) /\ m.id = id /\ m.type \in ErrorTypes
         \/ Owner(id) = e /\ verdict[id] = "error"
         \/ \E m \in OnWire(e) : Taking(e, t, m) /\ Tells(e, id, m)
         \/ \E m \in Messages : Parted(e, t, id, m) /\ Tells(Peer(e), id, m)
<1>1. Inv /\ ep[e].role = e /\ Fate(e, t, id)
  BY FateIs, Sides DEF AliasInv
<1>2. Asking(id).kind \in {"subscribe", "publish", "publish_namespace"}
  BY DEF Plain
<1>3. ASSUME ep[e].requests[id].kind \in Kinds
      PROVE  ep[e].requests[id].kind \in {"subscribe", "publish", "publish_namespace"}
  <2>1. ep[e].requests[id].kind # "none"
    BY <1>3 DEF Kinds
  <2> QED
    BY <1>2, <2>1, Records
<1>4. ASSUME NEW m \in Messages, Opening(e, t, m), m.id = id, m.type # "SUBSCRIBE_UPDATE"
      PROVE  FALSE
  BY <1>4 DEF Opening, Opened
<1>5. ASSUME NEW m \in Messages, Enrolled(e, t, id, m)
      PROVE  FALSE
  BY <1>5 DEF Enrolled, Enters, Opened
<1>6. ASSUME NEW m \in Messages, Deciding(e, t, m), m.id = id
      PROVE  m.type \in ErrorTypes
  <2>1. m.type \in OkTypes => FALSE
    BY <1>3, <1>6, Moving DEF Deciding, Changed
  <2> QED
    BY <1>6, <2>1 DEF Deciding
<1>7. ASSUME NEW m \in Messages, Affected(e, t, id, m)
      PROVE  \/ Owner(id) = e /\ verdict[id] = "error"
             \/ m \in OnWire(e) /\ Taking(e, t, m) /\ Tells(e, id, m)
  <2>1. Taking(e, t, m) /\ m \in OnWire(e) /\ Meant(e, m)
    BY <1>1, <1>7, TakingIs DEF Affected
  <2>2. CASE m.type \in AnswerTypes
    <3>1. m.id = id /\ IsOwn(ep[e], id, KindOf(m.type))
      BY <1>7, <2>2 DEF Affected, Concerns, AnswerTypes, OkTypes, ErrorTypes
    <3>2. m.type \in OkTypes => FALSE
      BY <1>3, <1>7, EventsOf, Moving DEF Affected, Changed
    <3> QED
      BY <1>1, <2>1, <2>2, <3>1, <3>2 DEF AnswerTypes, IsOwn, Meant
  <2>3. CASE m.type \in EndTypes \union AboutTypes
    BY <1>7, <2>1, <2>3, ConcernsTells DEF Affected
  <2> QED
    BY <1>7, <2>2, <2>3 DEF Affected
<1>8. ASSUME NEW m \in Messages, Parted(e, t, id, m)
      PROVE  Tells(Peer(e), id, m)
  BY <1>8, NamesTells DEF Parted, Farewell
<1>9. ASSUME Streaming(e, t, id)
      PROVE  FALSE
  BY <1>3, <1>9 DEF Streaming, Kinds
<1> QED
  BY <1>1, <1>4, <1>5, <1>6, <1>7, <1>8, <1>9 DEF Fate

(* How a request is accepted at an end. *)
LEMMA BecomesActive ==
  ASSUME Inv, NEW e \in Roles, NEW t, Step(e, t), NEW id \in Ids,
         ep[e].requests[id].state # "Active", t.requests[id].state = "Active"
  PROVE  /\ ep[e].requests[id].kind \notin {"none", "fetch", "track_status"}
         /\ \E m \in Messages :
              /\ m.type \in OkTypes /\ m.id = id /\ ep[e].requests[id].kind = KindOf(m.type)
              /\ \/ Deciding(e, t, m) /\ Owner(id) # e
                 \/ /\ Taking(e, t, m) /\ Owner(id) = e /\ m \in OnWire(e)
                    /\ Changed(ep[e], t, id, "ok", BindsTo(ep[e], id, m))
<1>1. ep[e].role = e /\ Fate(e, t, id)
  BY FateIs, Sides
<1>2. ASSUME NEW m \in Messages, Opening(e, t, m), m.id = id, m.type # "SUBSCRIBE_UPDATE"
      PROVE  FALSE
  BY <1>2 DEF Opening, Opened
<1>3. ASSUME NEW m \in Messages, Enrolled(e, t, id, m)
      PROVE  FALSE
  BY <1>3 DEF Enrolled, Enters, Opened
<1>4. ASSUME NEW m \in Messages, Deciding(e, t, m), m.id = id
      PROVE  /\ m.type \in OkTypes /\ Owner(id) # e /\ ep[e].requests[id].kind = KindOf(m.type)
             /\ ep[e].requests[id].kind \notin {"none", "fetch", "track_status"}
  <2>1. m.type \in OkTypes
    BY <1>4, MoveFacts DEF Deciding, Changed
  <2>2. ep[e].requests[id].kind \notin {"none", "fetch", "track_status"}
    BY <1>4, <2>1, Moving DEF Deciding, Changed, Kinds
  <2> QED
    BY <1>1, <1>4, <2>1, <2>2 DEF Deciding, IsPeers
<1>5. ASSUME NEW m \in Messages, Affected(e, t, id, m)
      PROVE  /\ m.type \in OkTypes /\ m.id = id /\ Owner(id) = e /\ Taking(e, t, m) /\ m \in OnWire(e)
             /\ ep[e].requests[id].kind = KindOf(m.type)
             /\ Changed(ep[e], t, id, "ok", BindsTo(ep[e], id, m))
             /\ ep[e].requests[id].kind \notin {"none", "fetch", "track_status"}
  <2> DEFINE event == EventOf(m.type)
  <2>1. <<ep[e].requests[id].state, event, t.requests[id].state>> \in Moves(ep[e].requests[id].kind)
    BY <1>5 DEF Affected, Changed
  <2>2. event \notin {"error", "unsubscribe", "done", "cancel"}
    BY <2>1, MoveFacts
  <2>3. m.type \in OkTypes
    BY <1>5, <2>2, EventsOf DEF Affected, AnswerTypes, EndTypes, AboutTypes
  <2>4. event = "ok"
    BY <1>5, <2>3, EventsOf DEF Affected
  <2>5. ep[e].requests[id].kind \notin {"none", "fetch", "track_status"}
    BY <2>1, <2>4, Moving DEF Kinds
  <2>6. m.id = id /\ IsOwn(ep[e], id, KindOf(m.type))
    BY <1>5, <2>3 DEF Affected, Concerns, OkTypes
  <2>7. Taking(e, t, m) /\ m \in OnWire(e)
    BY <1>5, TakingIs DEF Affected
  <2> QED
    BY <1>1, <1>5, <2>3, <2>4, <2>5, <2>6, <2>7 DEF Affected, IsOwn
<1>6. ASSUME NEW m \in Messages, Parted(e, t, id, m)
      PROVE  FALSE
  BY <1>6 DEF Parted, Farewell
<1>7. ASSUME Streaming(e, t, id), Changed(ep[e], t, id, "end", ep[e].requests[id].alias)
      PROVE  FALSE
  BY <1>7, MoveFacts DEF Changed
<1> QED
  BY <1>1, <1>2, <1>3, <1>4, <1>5, <1>6, <1>7 DEF Fate

(* A farewell is written behind all that was on its way.                   *)
LEMMA PartedWritten ==
  ASSUME Inv, NEW e \in Roles, NEW t, NEW id, NEW m, Parted(e, t, id, m), dropped' = 0
  PROVE  /\ m \in OnWire(Peer(e))'
         /\ \E k \in DOMAIN wire'[Peer(e)] : /\ wire'[Peer(e)][k] = m
                                             /\ \A j \in DOMAIN wire[Peer(e)] : j < k
<1>1. PICK ms \in Seq(Messages) : Leaving(e, t, ms) /\ \E n \in DOMAIN ms : m = ms[n]
  BY DEF Parted
<1>2. PICK n \in DOMAIN ms : m = ms[n]
  BY <1>1
<1>3. Wrote(e, ms) /\ TypeOK
  BY <1>1 DEF Leaving, Inv
<1> QED
  BY <1>2, <1>3, Written

(* While no send is lost, an end that still has a request the other has    *)
(* ended is being told, in order.                                          *)
LEMMA OverKept ==
  ASSUME AliasInv, Greeting, SameTarget, Proper, Replies, Refused, Told, Over,
         NEW e \in Roles, NEW t, Step(e, t), Clean'
  PROVE  Over'
<1> DEFINE Now(x, id, m) ==
             /\ m.type = EndOf(ep'[Owner(id)].requests[id].kind, x = Owner(id))
             /\ IF ep'[Owner(id)].requests[id].kind = "publish_namespace"
                THEN m.what = ep'[Owner(id)].requests[id].what ELSE m.id = id
<1> SUFFICES ASSUME NEW id \in Ids, Plain(id)'
             PROVE  /\ \A x \in Roles :
                         ep'[x].requests[id].state = "Active" /\ ep'[Peer(x)].requests[id].state = "Done" =>
                           \E m \in OnWire(x)' : Now(x, id, m)
                    /\ ep'[Peer(Owner(id))].requests[id].state = "Done" =>
                         \A i \in DOMAIN wire'[Owner(id)] :
                           wire'[Owner(id)][i].type \in OkTypes /\ wire'[Owner(id)][i].id = id =>
                             \E k \in DOMAIN wire'[Owner(id)] :
                               i < k /\ Now(Owner(id), id, wire'[Owner(id)][k])
  BY DEF Over, Answering, Tells, Asking
<1> DEFINE o == Owner(id)
           p == Peer(o)
<1>1. /\ Inv /\ Heard /\ Agree /\ Verdicts /\ Stepped(e, t) /\ Open' /\ dropped' = 0
      /\ o \in Roles /\ p \in Roles /\ p # o /\ Peer(p) = o /\ e \in {o, p} /\ ep[e].role = e
      /\ ep'[e] = t /\ ep'[Peer(e)] = ep[Peer(e)]
      /\ \A x \in Roles : x = e \/ x = Peer(e)
      /\ \A x \in Roles : Peer(x) \in Roles /\ Peer(x) # x /\ Peer(Peer(x)) = x
  BY Sides DEF AliasInv, Inv, Step, Clean
<1>2. CASE ep[o].requests[id].kind = "none"
  <2>1. ep[p].requests[id].kind = "none"
    BY <1>1, <1>2 DEF Agree
  <2>2. \A x \in Roles : ep[x].requests[id] = NoRequest
    BY <1>1, <1>2, <2>1 DEF Inv, Counters, Counted
  <2>3. \A event : ~Turned(e, t, id, event)
    BY <1>1, <2>2, MoveFacts DEF Turned, NoRequest, Kinds
  <2>4. t.requests[id] = NoRequest \/ t.requests[id].state = Opened(t.requests[id].kind)
    BY <1>1, <2>2, <2>3, RecordStep DEF Kept, Fresh
  <2>5. t.requests[id].state \notin {"Active", "Done"}
    BY <2>4 DEF NoRequest, Opened
  <2>6. \A x \in Roles : ep'[x].requests[id].state \notin {"Active", "Done"}
    BY <1>1, <2>2, <2>5 DEF NoRequest
  <2> QED
    BY <1>1, <2>6
<1>3. CASE ep[o].requests[id].kind # "none"
  <2>1. /\ ep'[o].requests[id].kind = ep[o].requests[id].kind
        /\ ep'[o].requests[id].what = ep[o].requests[id].what
    BY <1>1, <1>3, Lasting
  <2>2. \A x, m : Tells(x, id, m) => Now(x, id, m)
    BY <2>1 DEF Tells, Asking
  <2>3. Plain(id)
    <3>1. Reannounced(id) => Reannounced(id)'
      BY <1>1, Lasting DEF Reannounced
    <3> QED
      BY <2>1, <3>1 DEF Plain, Asking
  <2>4. Asking(id).kind \in {"subscribe", "publish", "publish_namespace"}
    BY <2>3 DEF Plain
  <2>5. ASSUME ep[e].requests[id].state # "Done", t.requests[id].state = "Done",
               ep[Peer(e)].requests[id].state # "Done"
        PROVE  \/ \E m \in Messages : Parted(e, t, id, m) /\ Tells(Peer(e), id, m)
               \/ \E m \in Messages : Deciding(e, t, m) /\ m.id = id /\ m.type \in ErrorTypes
    <3>1. ASSUME Owner(id) = e, verdict[id] = "error"
          PROVE  FALSE
      BY <1>1, <2>5, <3>1 DEF Refused, Answering
    <3>2. ASSUME NEW m \in OnWire(e), Taking(e, t, m), Tells(e, id, m)
          PROVE  FALSE
      BY <2>3, <2>5, <3>2 DEF Told
    <3> QED
      BY <2>3, <2>5, <3>1, <3>2, BecomesDone
  <2>6. ASSUME NEW m, Deciding(e, t, m), m.id = id
        PROVE  /\ e = p /\ ep[p].requests[id].state \in Undecided
               /\ ep[o].requests[id].state \in Undecided
    <3>1. e = p /\ ep[p].requests[id].state \in Undecided
      BY <1>1, <2>6, MoveFacts DEF Deciding, Changed, IsPeers
    <3> QED
      BY <1>1, <2>4, <3>1, StillWaiting DEF Asking
  <2>7. ASSUME NEW x \in Roles, ep'[x].requests[id].state = "Active",
               ep'[Peer(x)].requests[id].state = "Done"
        PROVE  \E m \in OnWire(x)' : Tells(x, id, m)
    <3>1. CASE ep[x].requests[id].state = "Active" /\ ep[Peer(x)].requests[id].state = "Done"
      <4>1. PICK m \in OnWire(x) : Tells(x, id, m)
        BY <2>3, <3>1 DEF Over
      <4>2. m.type \notin SetupTypes
        BY <2>3, <4>1, TellsIs DEF SetupTypes
      <4>3. ASSUME x = e, Taking(e, t, m)
            PROVE  FALSE
        BY <1>1, <2>3, <2>7, <3>1, <4>1, <4>3, HearsOver
      <4> QED
        BY <1>1, <4>1, <4>2, <4>3, WireStays
    <3>2. CASE ep[x].requests[id].state = "Active" /\ ep[Peer(x)].requests[id].state # "Done"
      <4>1. e = Peer(x) /\ x = Peer(e) /\ t.requests[id].state = "Done" /\ ep[e].requests[id].state # "Done"
        BY <1>1, <2>7, <3>2
      <4>2. ASSUME NEW m, Deciding(e, t, m), m.id = id
            PROVE  FALSE
        <5>1. x = o
          BY <1>1, <2>6, <4>1, <4>2
        <5> QED
          BY <2>6, <3>2, <4>2, <5>1 DEF Undecided
      <4>3. PICK m \in Messages : Parted(e, t, id, m) /\ Tells(Peer(e), id, m)
        BY <2>5, <3>2, <4>1, <4>2
      <4> QED
        BY <1>1, <4>1, <4>3, PartedWritten
    <3>3. CASE ep[x].requests[id].state # "Active"
      <4>1. e = x /\ t.requests[id].state = "Active" /\ ep[Peer(x)].requests[id].state = "Done"
        BY <1>1, <2>7, <3>3
      <4>2. PICK m \in Messages :
              /\ m.type \in OkTypes /\ m.id = id
              /\ Deciding(e, t, m) \/ (Taking(e, t, m) /\ Owner(id) = e)
        BY <1>1, <3>3, <4>1, BecomesActive
      <4>3. ~Deciding(e, t, m)
        <5>1. Deciding(e, t, m) => Peer(x) = o /\ ep[o].requests[id].state \in Undecided
          BY <1>1, <2>6, <4>1, <4>2
        <5> QED
          BY <4>1, <5>1 DEF Undecided
      <4>4. PICK d \in {0, 1} : Flow(e, t, x, d)
        BY <1>1, WireStep
      <4>5. d = 1 /\ 1 \in DOMAIN wire[x] /\ wire[x][1] = m /\ x = o
        BY <1>1, <4>1, <4>2, <4>3, <4>4, FlowTaken
      <4>6. PICK k \in DOMAIN wire[x] : 1 < k /\ Tells(x, id, wire[x][k])
        BY <2>3, <4>1, <4>2, <4>5 DEF Over, Answering
      <4>7. PICK i \in DOMAIN wire'[x] : wire'[x][i] = wire[x][k]
        BY <4>4, <4>5, <4>6, FlowForth
      <4> QED
        BY <4>6, <4>7 DEF OnWire
    <3> QED
      BY <3>1, <3>2, <3>3
  <2>8. ASSUME ep'[p].requests[id].state = "Done", NEW i \in DOMAIN wire'[o],
               wire'[o][i].type \in OkTypes, wire'[o][i].id = id
        PROVE  \E k \in DOMAIN wire'[o] : i < k /\ Tells(o, id, wire'[o][k])
    <3>1. PICK d \in {0, 1} : Flow(e, t, o, d)
      BY <1>1, WireStep
    <3>2. wire'[o][i].type \notin SetupTypes /\ wire'[o][i].type \in AnswerTypes
      BY <2>8 DEF OkTypes, SetupTypes, AnswerTypes
    <3>3. CASE i + d \in DOMAIN wire[o]
      <4>1. wire'[o][i] = wire[o][i + d] /\ i \in Nat /\ wire[o][i + d] \in OnWire(o)
        BY <1>1, <3>1, <3>3, FlowBack, Numbers
      <4>2. CASE ep[p].requests[id].state = "Done"
        <5>1. PICK k \in DOMAIN wire[o] : i + d < k /\ Tells(o, id, wire[o][k])
          BY <2>3, <2>8, <3>3, <4>1, <4>2 DEF Over, Answering
        <5>2. k \in Nat /\ k > d
          BY <3>1, <4>1, <5>1, FlowForth
        <5>3. PICK n \in DOMAIN wire'[o] : n + d = k /\ wire'[o][n] = wire[o][k]
          BY <3>1, <5>1, <5>2, FlowForth
        <5>4. n \in Nat
          BY <3>1, <5>3, FlowBack
        <5>5. i < n
          BY <4>1, <5>1, <5>3, <5>4
        <5> QED
          BY <5>1, <5>3, <5>5
      <4>3. CASE ep[p].requests[id].state # "Done"
        <5>1. e = p /\ t.requests[id].state = "Done" /\ Peer(e) = o
          BY <1>1, <2>8, <4>3
        <5>2. verdict[id] = "ok" /\ ep[o].requests[id].kind = KindOf(wire[o][i + d].type)
          BY <1>1, <2>8, <3>2, <4>1, Numbers, SMTT(30) DEF Meant, Replies
        <5>3. ep[o].requests[id].state \in Undecided
          BY <1>1, <2>4, <2>8, <3>2, <4>1, <5>2 DEF Replies, Asking
        <5>4. ASSUME NEW m, Deciding(e, t, m), m.id = id
              PROVE  FALSE
          BY <2>6, <5>2, <5>4, <1>1, SessionAssumption DEF Verdicts
        <5>5. PICK m \in Messages : Parted(e, t, id, m) /\ Tells(Peer(e), id, m)
          BY <2>5, <4>3, <5>1, <5>3, <5>4 DEF Undecided
        <5>6. PICK k \in DOMAIN wire'[o] : wire'[o][k] = m /\ \A j \in DOMAIN wire[o] : j < k
          BY <1>1, <5>1, <5>5, PartedWritten
        <5>7. k \in Nat /\ i + d < k
          BY <3>1, <3>3, <5>6, FlowBack
        <5>8. i < k
          BY <4>1, <5>7
        <5> QED
          BY <5>1, <5>5, <5>6, <5>8
      <4> QED
        BY <4>2, <4>3
    <3>4. CASE i + d \notin DOMAIN wire[o]
      <4>1. o = Peer(e) /\ Deciding(e, t, wire'[o][i])
        BY <3>1, <3>2, <3>4, FlowBack, SentBy
      <4>2. e = p /\ ep[e].requests[id].kind # "none"
        BY <1>1, <2>8, <4>1, MoveFacts DEF Deciding, Changed, Kinds
      <4>3. ep[e].requests[id].kind = Asking(id).kind
        BY <4>2, Records
      <4>4. t.requests[id].state = "Active"
        BY <2>4, <2>8, <4>1, <4>3, Moving DEF Deciding, Changed
      <4> QED
        BY <1>1, <2>8, <4>2, <4>4
    <3> QED
      BY <3>3, <3>4
  <2> QED
    BY <2>2, <2>7, <2>8
<1> QED
  BY <1>2, <1>3

-----------------------------------------------------------------------------
(* What is written is behind what is not yet read. *)
LEMMA FlowOrder ==
  ASSUME NEW e, NEW t, NEW x, NEW d, Flow(e, t, x, d),
         NEW i \in DOMAIN wire'[x], NEW n \in DOMAIN wire'[x], i + d \in DOMAIN wire[x],
         n + d \notin DOMAIN wire[x]
  PROVE  i < n
<1>1. i \in Nat /\ n \in Nat
  BY FlowBack
<1>2. n < i => n + d \in DOMAIN wire[x]
  BY FlowPair DEF Flow, Carried
<1> QED
  BY <1>1, <1>2

(* What was accepted is on record where it was asked for and where it was  *)
(* answered.                                                               *)
LEMMA DecidedKinds ==
  ASSUME AliasInv, NEW id \in Ids, Answering(id).state \notin Undecided
  PROVE  Answering(id).kind # "none" /\ Asking(id).kind = Answering(id).kind
<1>1. Answering(id).kind # "none"
  <2>1. Counted(ep[Peer(Owner(id))])
    BY RolesAre DEF AliasInv, Inv, Counters
  <2> QED
    BY <2>1 DEF Counted, NoRequest, Answering, Undecided
<1> QED
  BY <1>1 DEF AliasInv, Agree, Asking, Answering

(* An end that gives an alias to a track has given up what had it before.  *)
LEMMA Reused ==
  ASSUME Inv, NEW e \in Roles, NEW t, NEW m, Sent(e, t, m), m.type \in {"PUBLISH", "SUBSCRIBE_OK"},
         NEW id \in Ids, ep[e].requests[id].kind \in {"subscribe", "publish"},
         ep[e].requests[id].alias = m.alias,
         ep[e].requests[id].what # TrackOf(Peer(e), m)
  PROVE  ep[e].requests[id].state = "Done"
<1>1. TrackOf(Peer(e), m) = IF m.type = "PUBLISH" THEN m.what ELSE ep[e].requests[m.id].what
  BY RolesAre DEF TrackOf
<1>2. ~alias_held_elsewhere(ep[e], m.alias, TrackOf(Peer(e), m))
  <2>1. CASE m.type = "PUBLISH"
    <3>1. Opening(e, t, m)
      BY <2>1, SentBy DEF RequestTypes
    <3> QED
      BY <1>1, <2>1, <3>1 DEF Opening
  <2>2. CASE m.type = "SUBSCRIBE_OK"
    <3>1. Deciding(e, t, m)
      BY <2>2, SentBy DEF AnswerTypes, OkTypes
    <3> QED
      BY <1>1, <2>2, <3>1 DEF Deciding
  <2> QED
    BY <2>1, <2>2
<1> QED
  BY <1>2 DEF alias_held_elsewhere, binding_is_in_use, HasBinding

(* While an alias is on its way, what it is that of does not change.       *)
LEMMA TrackLasts ==
  ASSUME Inv, Greeting, NEW e \in Roles, NEW t, Step(e, t), NEW x \in Roles, NEW m \in OnWire(x)',
         m.type \in {"PUBLISH", "SUBSCRIBE_OK"}
  PROVE  TrackOf(x, m)' = TrackOf(x, m)
<1>1. Stepped(e, t) /\ ep'[e] = t /\ Peer(x) \in Roles /\ (x = Peer(e) => Peer(x) = e)
  BY Sides DEF Step
<1>2. CASE m.type = "PUBLISH"
  BY <1>2 DEF TrackOf
<1>3. CASE m.type = "SUBSCRIBE_OK"
  <2>1. CASE m \in OnWire(x)
    <3>1. m.id \in Ids /\ Owner(m.id) = x /\ verdict[m.id] # None
      BY <1>3, <2>1, Numbers, SessionAssumption DEF Meant, OkTypes, AnswerTypes
    <3>2. ep[Peer(x)].requests[m.id].kind # "none"
      <4>1. ep[Peer(x)].requests[m.id].state \notin Undecided /\ Counted(ep[Peer(x)])
        BY <1>1, <3>1 DEF Inv, Verdicts, Counters
      <4> QED
        BY <3>1, <4>1 DEF Counted, NoRequest, Undecided
    <3>3. ep'[Peer(x)].requests[m.id].what = ep[Peer(x)].requests[m.id].what
      BY <1>1, <3>1, <3>2, Lasting
    <3> QED
      BY <1>3, <3>3 DEF TrackOf
  <2>2. CASE x = Peer(e) /\ Sent(e, t, m)
    <3>1. Deciding(e, t, m)
      BY <1>3, <2>2, SentBy DEF AnswerTypes, OkTypes
    <3>2. t.requests[m.id].what = ep[e].requests[m.id].what
      BY <3>1 DEF Deciding, Changed
    <3> QED
      BY <1>1, <1>3, <2>2, <3>2 DEF TrackOf
  <2> QED
    BY <1>3, <2>1, <2>2, WireFrom DEF SetupTypes
<1> QED
  BY <1>2, <1>3

(* An alias that is given to another track arrives behind the end of what  *)
(* had it.                                                                 *)
LEMMA FreedKept ==
  ASSUME AliasInv, Greeting, SameTarget, Proper, Replies, AliasAgree, Sequence, Over, Freed,
         NEW e \in Roles, NEW t, Step(e, t), Clean'
  PROVE  Freed'
<1>1. /\ Inv /\ Heard /\ Agree /\ Behind /\ Verdicts /\ Stepped(e, t) /\ Open'
      /\ ep'[e] = t /\ ep'[Peer(e)] = ep[Peer(e)]
      /\ \A x \in Roles : x = e \/ x = Peer(e)
      /\ \A x \in Roles : /\ Peer(x) \in Roles /\ Peer(x) # x /\ Peer(Peer(x)) = x
                          /\ ep[x].role = x /\ ep'[x].role = x /\ GivesOneTrack(ep[x])
      /\ \A id : Owner(id) \in Roles
  BY Sides DEF AliasInv, Inv, Step, Clean
<1> SUFFICES ASSUME NEW x \in Roles, NEW n \in DOMAIN wire'[x],
                    wire'[x][n].type \in {"PUBLISH", "SUBSCRIBE_OK"}
             PROVE  /\ \A id \in Ids :
                         /\ Received(ep'[x], id) /\ ep'[x].requests[id].state = "Active"
                         /\ ep'[x].requests[id].alias = wire'[x][n].alias
                         /\ ep'[x].requests[id].what # TrackOf(x, wire[x][n])'
                         => \E k \in DOMAIN wire'[x] :
                              k < n /\ wire'[x][k].type = "PUBLISH_DONE" /\ wire'[x][k].id = id
                    /\ \A i \in DOMAIN wire'[x] :
                         /\ i < n /\ wire'[x][i].type = "SUBSCRIBE_OK"
                         /\ wire'[x][i].alias = wire'[x][n].alias
                         /\ TrackOf(x, wire[x][i])' # TrackOf(x, wire[x][n])'
                         => \E k \in DOMAIN wire'[x] :
                              /\ i < k /\ k < n /\ wire'[x][k].type = "PUBLISH_DONE"
                              /\ wire'[x][k].id = wire'[x][i].id
  BY DEF Freed
<1> DEFINE m == wire'[x][n]
           track == TrackOf(x, m)
<1>2. ASSUME NEW i \in DOMAIN wire'[x], wire'[x][i].type \in {"PUBLISH", "SUBSCRIBE_OK"}
      PROVE  TrackOf(x, wire[x][i])' = TrackOf(x, wire'[x][i])
  <2>1. ASSUME NEW r \in OnWire(x)', r.type \in {"PUBLISH", "SUBSCRIBE_OK"}
        PROVE  (IF r.type = "PUBLISH" THEN r.what ELSE ep'[Peer(x)].requests[r.id].what) = TrackOf(x, r)
    <3>1. TrackOf(x, r)' = TrackOf(x, r)
      BY <1>1, <2>1, TrackLasts
    <3> QED
      BY <3>1 DEF TrackOf
  <2>2. wire'[x][i] \in OnWire(x)'
    BY DEF OnWire
  <2> QED
    BY <1>2, <2>1, <2>2 DEF TrackOf
<1>3. PICK d \in {0, 1} : Flow(e, t, x, d)
  BY <1>1, WireStep
<1>4. m.type \notin SetupTypes /\ n \in Nat
  BY <1>3, FlowBack DEF SetupTypes
<1>5. ASSUME NEW i \in Nat, NEW k \in DOMAIN wire[x], i + d < k, n + d \in DOMAIN wire[x] => k < n + d
      PROVE  \E j \in DOMAIN wire'[x] : i < j /\ j < n /\ wire'[x][j] = wire[x][k]
  <2>1. k \in Nat /\ k > d
    BY <1>3, <1>5, FlowForth
  <2>2. PICK j \in DOMAIN wire'[x] : j + d = k /\ wire'[x][j] = wire[x][k]
    BY <1>3, <2>1, FlowForth
  <2>3. j \in Nat
    BY <1>3, <2>2, FlowBack
  <2>4. j < n
    <3>1. CASE n + d \in DOMAIN wire[x]
      BY <1>4, <1>5, <2>2, <2>3, <3>1
    <3>2. CASE n + d \notin DOMAIN wire[x]
      BY <1>3, <2>2, <3>2, FlowOrder
    <3> QED
      BY <3>1, <3>2
  <2> QED
    BY <1>5, <2>2, <2>3, <2>4
<1>6. ASSUME NEW id \in Ids, Plain(id), NEW r, Tells(x, id, r),
             Received(ep[x], id) \/ (Asking(id).kind = "subscribe" /\ Owner(id) = x)
      PROVE  r.type = "PUBLISH_DONE" /\ r.id = id
  <2>1. ep[x].role = x
    BY <1>1
  <2>2. Received(ep[x], id) => ep[x].requests[id].kind \in {"subscribe", "publish"}
    BY DEF Received, IsOwn, IsPeers
  <2>3. Received(ep[x], id) => Asking(id).kind = ep[x].requests[id].kind
    BY <2>2, Records
  <2>4. (Asking(id).kind = "subscribe" /\ Owner(id) = x) \/ (Asking(id).kind = "publish" /\ Owner(id) # x)
    BY <1>6, <2>1, <2>2, <2>3 DEF Received, IsOwn, IsPeers
  <2> QED
    BY <1>6, <2>4, TellsIs
<1>7. ASSUME NEW id \in Ids, Received(ep'[x], id), ep'[x].requests[id].state = "Active",
             ep'[x].requests[id].alias = m.alias, ep'[x].requests[id].what # track
      PROVE  \E k \in DOMAIN wire'[x] :
               k < n /\ wire'[x][k].type = "PUBLISH_DONE" /\ wire'[x][k].id = id
  <2>1. ASSUME ep[x].requests[id].state = "Active"
        PROVE  /\ Received(ep[x], id) /\ ep[x].requests[id].alias = m.alias /\ Plain(id)
               /\ ep[x].requests[id].what # track
               /\ ep[x].requests[id].kind \in {"subscribe", "publish"}
               /\ ep[x].requests[id].kind = Asking(id).kind
    <3>1. ep[x].requests[id].kind # "none"
      <4>1. Counted(ep[x])
        BY <1>1 DEF Inv, Counters
      <4> QED
        BY <2>1, <4>1 DEF Counted, NoRequest
    <3>2. /\ ep'[x].requests[id].kind = ep[x].requests[id].kind
          /\ ep'[x].requests[id].what = ep[x].requests[id].what
          /\ ep'[x].requests[id].alias = ep[x].requests[id].alias
      BY <1>1, <2>1, <3>1, Lasting, AliasLasts DEF Undecided
    <3>3. Received(ep[x], id) /\ ep[x].requests[id].kind \in {"subscribe", "publish"}
      BY <1>1, <1>7, <3>2 DEF Received, IsOwn, IsPeers
    <3>4. Asking(id).kind = ep[x].requests[id].kind
      BY <3>1, Records
    <3> QED
      BY <1>7, <3>2, <3>3, <3>4 DEF Plain
  <2>2. CASE n + d \in DOMAIN wire[x] /\ ep[x].requests[id].state = "Active"
    <3>1. m = wire[x][n + d]
      BY <1>3, <2>2, FlowBack
    <3>2. PICK k \in DOMAIN wire[x] :
            k < n + d /\ wire[x][k].type = "PUBLISH_DONE" /\ wire[x][k].id = id
      BY <2>1, <2>2, <3>1 DEF Freed
    <3>3. CASE k > d
      <4>1. 0 + d < k /\ 0 \in Nat
        BY <3>3, <1>3
      <4> QED
        BY <1>5, <3>2, <4>1
    <3>4. CASE ~(k > d)
      <4>1. x = e /\ Taking(e, t, wire[x][k])
        BY <1>3, <3>2, <3>4, FlowForth DEF SetupTypes
      <4>2. Tells(x, id, wire[x][k])
        <5>1. ep[x].role = x
          BY <1>1
        <5> QED
          BY <2>1, <2>2, <3>2, <5>1 DEF Tells, EndOf, Received, IsOwn, IsPeers
      <4>3. t.requests[id].state = "Done"
        BY <1>1, <2>1, <2>2, <4>1, <4>2, HearsOver
      <4> QED
        BY <1>1, <1>7, <4>1, <4>3
    <3> QED
      BY <3>3, <3>4
  <2>3. CASE n + d \in DOMAIN wire[x] /\ ep[x].requests[id].state # "Active"
    <3>1. m = wire[x][n + d] /\ m \in OnWire(x)
      BY <1>1, <1>3, <2>3, FlowBack, Numbers
    <3>2. e = x /\ t.requests[id].state = "Active" /\ ep'[x] = t
      BY <1>1, <1>7, <2>3
    <3>3. ep[e].requests[id].kind \notin {"none", "fetch", "track_status"}
      BY <1>1, <2>3, <3>2, BecomesActive
    <3>4. PICK r \in Messages :
            /\ r.type \in OkTypes /\ r.id = id /\ ep[e].requests[id].kind = KindOf(r.type)
            /\ \/ Deciding(e, t, r) /\ Owner(id) # e
               \/ /\ Taking(e, t, r) /\ Owner(id) = e /\ r \in OnWire(e)
                  /\ Changed(ep[e], t, id, "ok", BindsTo(ep[e], id, r))
      BY <1>1, <2>3, <3>2, BecomesActive
    <3>5. t.requests[id].kind = ep[e].requests[id].kind /\ t.requests[id].what = ep[e].requests[id].what
      BY <1>1, <3>2, <3>3, Lasting
    <3>6. CASE Deciding(e, t, r) /\ Owner(id) # e
      <4>1. IsPeers(ep[e], id, "publish")
        BY <1>1, <1>7, <3>2, <3>5, <3>6 DEF Received, IsOwn, IsPeers
      <4>2. ep[e].requests[id].state = "Publishing"
        BY <2>3, <3>2, <3>4, <3>6, <4>1, MoveFacts DEF Deciding, Changed, IsPeers
      <4>3. ep[e].requests[id].alias = m.alias /\ ep[e].requests[id].what # track
        BY <1>1, <1>7, <3>2, <3>5, <4>1, Lasting DEF IsPeers
      <4>4. CASE m.type = "SUBSCRIBE_OK"
        <5>1. Offered(e, m.alias, track)
          BY <1>1, <2>3, <3>1, <3>2, <4>4 DEF Behind, TrackOf
        <5> QED
          BY <4>1, <4>2, <4>3, <5>1 DEF Offered
      <4>5. CASE m.type = "PUBLISH"
        <5>1. m.id >= ep[x].peer_next_id
          BY <3>1, <4>5, Numbers, <1>1 DEF Sequence, RequestTypes
        <5>2. /\ m.id \in Ids /\ Held(ep[Peer(x)], m.id) /\ ep[Peer(x)].requests[m.id].what = m.what
              /\ ep[Peer(x)].requests[m.id].alias = m.alias
          BY <3>1, <4>5, <5>1, SentOfferHeld
        <5>3. /\ Held(ep[Peer(x)], id) /\ ep[Peer(x)].requests[id].what = ep[x].requests[id].what
              /\ ep[Peer(x)].requests[id].alias = ep[x].requests[id].alias
          BY <3>2, <4>1, <4>2, OfferHeld
        <5> QED
          BY <1>1, <3>2, <4>3, <4>5, <5>2, <5>3 DEF GivesOneTrack, Same, TrackOf
      <4> QED
        BY <4>4, <4>5
    <3>7. CASE /\ Taking(e, t, r) /\ Owner(id) = e /\ r \in OnWire(e)
               /\ Changed(ep[e], t, id, "ok", BindsTo(ep[e], id, r))
      <4>1. ep[e].requests[id].kind = "subscribe" /\ r.type = "SUBSCRIBE_OK"
        <5>1. ep[e].requests[id].kind = "subscribe"
          BY <1>1, <1>7, <3>2, <3>5, <3>7 DEF Received, IsOwn, IsPeers
        <5> QED
          BY <3>4, <5>1 DEF KindOf, OkTypes
      <4>2. t.requests[id].alias = r.alias
        BY <3>7, <4>1 DEF Changed, BindsTo
      <4>3. d = 1 /\ 1 \in DOMAIN wire[x] /\ wire[x][1] = r
        BY <1>1, <1>3, <3>2, <3>7, FlowTaken
      <4>4. TrackOf(x, r) = ep[e].requests[id].what
        <5>1. verdict[id] # None
          BY <1>1, <3>4, <3>7, Numbers, SessionAssumption DEF Meant
        <5>2. Answering(id).state \notin Undecided
          BY <1>1, <5>1 DEF Verdicts, Answering
        <5>3. Answering(id).kind # "none" /\ Asking(id).kind = Answering(id).kind
          BY <5>2, DecidedKinds
        <5>4. Answering(id).what = Asking(id).what
          BY <3>7, <4>1, <5>3 DEF SameTarget, Asking
        <5> QED
          BY <3>2, <3>4, <3>7, <4>1, <5>4 DEF TrackOf, Asking, Answering
      <4>5. TrackOf(x, r) # track /\ r.alias = m.alias
        BY <1>1, <1>7, <3>2, <3>5, <4>2, <4>4
      <4>6. 1 < n + d
        BY <1>3, <4>3, FlowBack
      <4>7. PICK k \in DOMAIN wire[x] : /\ 1 < k /\ k < n + d /\ wire[x][k].type = "PUBLISH_DONE"
                                        /\ wire[x][k].id = id
        BY <2>3, <3>1, <3>4, <4>1, <4>3, <4>5, <4>6 DEF Freed
      <4>8. 0 + d < k /\ 0 \in Nat
        BY <4>3, <4>7
      <4> QED
        BY <1>5, <4>7, <4>8
    <3> QED
      BY <3>4, <3>6, <3>7
  <2>4. CASE n + d \notin DOMAIN wire[x]
    <3>1. x = Peer(e) /\ Sent(e, t, m) /\ ep'[x] = ep[x] /\ Peer(x) = e
      BY <1>1, <1>3, <1>4, <2>4, FlowBack
    <3>2. /\ ep[x].requests[id].state = "Active" /\ ep[x].requests[id].alias = m.alias
          /\ ep[x].requests[id].what # track /\ Received(ep[x], id) /\ Plain(id)
          /\ ep[x].requests[id].kind \in {"subscribe", "publish"}
          /\ ep[x].requests[id].kind = Asking(id).kind
      BY <1>7, <2>1, <3>1
    <3>3. /\ ep[e].requests[id].kind \in {"subscribe", "publish"}
          /\ ep[e].requests[id].alias = m.alias /\ ep[e].requests[id].what = ep[x].requests[id].what
      <4>1. CASE Owner(id) = x
        <5>1. Asking(id).kind = "subscribe" /\ Asking(id).state = "Active" /\ Asking(id) = ep[x].requests[id]
          BY <1>1, <3>2, <4>1 DEF Received, IsOwn, IsPeers, Asking
        <5>2. verdict[id] # None
          BY <1>1, <4>1, <5>1 DEF Heard, Asking, Undecided
        <5>3. Answering(id).state \notin Undecided
          BY <1>1, <5>2 DEF Verdicts, Answering
        <5>4. Answering(id).kind = "subscribe"
          BY <5>1, <5>3, DecidedKinds
        <5>5. Answering(id).alias = Asking(id).alias /\ Asking(id).what = Answering(id).what
          BY <5>1, <5>4 DEF AliasAgree, SameTarget
        <5> QED
          BY <3>1, <3>2, <4>1, <5>1, <5>4, <5>5 DEF Answering
      <4>2. CASE Owner(id) # x
        <5>1. ep[x].requests[id].kind = "publish" /\ Peer(Owner(id)) = x /\ Owner(id) = e
          BY <1>1, <3>1, <3>2, <4>2 DEF Received, IsOwn, IsPeers
        <5> QED
          BY <1>1, <3>2, <5>1 DEF Agree
      <4> QED
        BY <4>1, <4>2
    <3>4. ep[e].requests[id].state = "Done"
      BY <1>1, <3>1, <3>2, <3>3, Reused
    <3>5. PICK r \in OnWire(x) : Tells(x, id, r)
      BY <3>1, <3>2, <3>4 DEF Over
    <3>6. r.type = "PUBLISH_DONE" /\ r.id = id
      BY <1>6, <3>2, <3>5
    <3>7. PICK k \in DOMAIN wire[x] : wire[x][k] = r
      BY <3>5 DEF OnWire
    <3>8. k > d /\ 0 + d < k
      BY <1>1, <1>3, <3>1, <3>6, <3>7, FlowForth DEF SetupTypes
    <3> QED
      BY <1>5, <2>4, <3>6, <3>7, <3>8
  <2> QED
    BY <2>2, <2>3, <2>4
<1>8. ASSUME NEW i \in DOMAIN wire'[x], i < n, wire'[x][i].type = "SUBSCRIBE_OK",
             wire'[x][i].alias = m.alias, TrackOf(x, wire'[x][i]) # track
      PROVE  \E k \in DOMAIN wire'[x] :
               /\ i < k /\ k < n /\ wire'[x][k].type = "PUBLISH_DONE"
               /\ wire'[x][k].id = wire'[x][i].id
  <2> DEFINE r == wire'[x][i]
             id == r.id
  <2>1. /\ i + d < n + d /\ i + d \in DOMAIN wire[x] /\ r = wire[x][i + d] /\ i \in Nat
        /\ r \in OnWire(x)
    <3>1. i + d < n + d /\ i + d \in DOMAIN wire[x] /\ r = wire[x][i + d] /\ i \in Nat
      BY <1>3, <1>8, FlowPair, FlowBack
    <3> QED
      BY <1>1, <3>1, Numbers
  <2>2. CASE n + d \in DOMAIN wire[x]
    <3>1. m = wire[x][n + d]
      BY <1>3, <2>2, FlowBack
    <3>2. PICK k \in DOMAIN wire[x] : /\ i + d < k /\ k < n + d /\ wire[x][k].type = "PUBLISH_DONE"
                                      /\ wire[x][k].id = id
      BY <1>8, <2>1, <2>2, <3>1 DEF Freed
    <3> QED
      BY <1>5, <2>1, <3>2
  <2>3. CASE n + d \notin DOMAIN wire[x]
    <3>1. x = Peer(e) /\ Sent(e, t, m) /\ Peer(x) = e
      BY <1>1, <1>3, <1>4, <2>3, FlowBack
    <3>2. id \in Ids /\ Owner(id) = x /\ verdict[id] # None
      BY <1>1, <1>8, <2>1, Numbers, SessionAssumption DEF Meant, OkTypes, AnswerTypes
    <3>3. ep[x].requests[id].kind = "subscribe"
      BY <1>8, <2>1 DEF Replies, AnswerTypes, OkTypes, KindOf
    <3>4. Asking(id).kind = "subscribe" /\ Plain(id) /\ Answering(id) = ep[e].requests[id]
      BY <3>1, <3>2, <3>3 DEF Asking, Answering, Plain
    <3>5. Answering(id).kind = "subscribe"
      <4>1. Answering(id).state \notin Undecided
        BY <1>1, <3>2 DEF Verdicts, Answering
      <4> QED
        BY <3>2, <3>4, <4>1, DecidedKinds
    <3>6. Answering(id).alias = r.alias
      BY <1>8, <2>1, <3>2, <3>4 DEF AliasAgree
    <3>7. TrackOf(x, r) = ep[e].requests[id].what
      BY <1>8, <3>1 DEF TrackOf
    <3>8. ep[e].requests[id].state = "Done"
      BY <1>1, <1>8, <3>1, <3>2, <3>4, <3>5, <3>6, <3>7, Reused, SMTT(30)
    <3>9. PICK k \in DOMAIN wire[x] : i + d < k /\ Tells(x, id, wire[x][k])
      BY <1>8, <2>1, <3>2, <3>4, <3>8 DEF Over, OkTypes
    <3>10. wire[x][k].type = "PUBLISH_DONE" /\ wire[x][k].id = id
      BY <1>6, <3>2, <3>4, <3>9
    <3> QED
      BY <1>5, <2>1, <2>3, <3>9, <3>10
  <2> QED
    BY <2>2, <2>3
<1> QED
  BY <1>2, <1>7, <1>8

-----------------------------------------------------------------------------
(* The next request to be read has the next Request ID. *)
LEMMA HeadIsNext ==
  ASSUME Inv, Sequence, NEW e \in Roles, 1 \in DOMAIN wire[e], wire[e][1].type \in RequestTypes
  PROVE  wire[e][1].id = ep[e].peer_next_id
<1> DEFINE m == wire[e][1]
           a == ep[e].peer_next_id
<1>1. /\ m \in OnWire(e) /\ m.id \in Nat /\ a \in Nat /\ m.id < ep[Peer(e)].next_id
      /\ ep[Peer(e)].next_id \in Nat /\ a <= m.id
  BY Numbers, RolesAre DEF Meant, Sequence
<1>2. Owner(a) = Peer(e)
  <2>1. ep[e].role = e /\ Counted(ep[e])
    BY DEF Inv, TypeOK, Counters
  <2> QED
    BY <2>1, RolesAre DEF Counted
<1>3. ASSUME a < m.id
      PROVE  FALSE
  <2>1. PICK r \in OnWire(e) : r.type \in RequestTypes /\ r.id = a
    BY <1>1, <1>2, <1>3 DEF Sequence
  <2>2. PICK k \in DOMAIN wire[e] : wire[e][k] = r
    BY <2>1 DEF OnWire
  <2>3. k \in Nat /\ k >= 1
    BY Numbers
  <2>4. k = 1 => FALSE
    BY <1>1, <1>3, <2>1, <2>2
  <2>5. 1 < k => m.id < a
    BY <2>1, <2>2 DEF Sequence
  <2> QED
    BY <1>1, <1>3, <2>3, <2>4, <2>5
<1> QED
  BY <1>1, <1>3

(* An endpoint closes only for what the model's comment on ClosesExplained *)
(* names: everything else two endpoints that keep the rules cannot do.     *)
LEMMA ClosesKept ==
  ASSUME AliasInv, Greeting, Closers, Ceilings, GoAways, Updates, SameTarget,
         Clean => Sequence /\ Noted /\ Freed, ClosesExplained, NEW e \in Roles, NEW t, Step(e, t)
  PROVE  ClosesExplained'
<1>1. /\ Inv /\ Agree /\ Verdicts /\ ep'[e] = t /\ ep'[Peer(e)] = ep[Peer(e)]
      /\ Peer(e) \in Roles /\ Peer(e) # e /\ Peer(Peer(e)) = e
      /\ ep[e].role = e /\ ep'[e].role = e /\ \A id : Owner(id) \in {e, Peer(e)}
      /\ dropped \in Nat
  BY Sides, SessionAssumption DEF AliasInv, Inv, TypeOK, WorkloadType
<1> SUFFICES ASSUME NEW x \in Roles, ep'[x].closed_for # None
             PROVE  \/ /\ ep'[x].closed_for = "DuplicateTrackAlias"
                       /\ AliasOfOtherDirection(ep'[x]) \/ dropped' > 0
                    \/ /\ ep'[x].closed_for = "UpdateForUnknownRequest"
                       /\ goaway'[Peer(x)] \/ dropped' > 0
                    \/ ep'[x].closed_for = "OutOfSequence" /\ dropped' > 0
  BY DEF ClosesExplained
<1>2. CASE ep[x].closed_for # None
  <2>1. Shaken(e, t)
    BY <1>1, <1>2, StepFrame DEF Closers, Open
  <2>2. /\ ep'[x].closed_for = ep[x].closed_for /\ ep'[x].requests = ep[x].requests
        /\ ep'[x].role = ep[x].role /\ goaway' = goaway /\ dropped' = dropped
    <3>1. x = e \/ ep'[x] = ep[x]
      BY Sides, <1>1
    <3> QED
      BY <1>1, <2>1, <3>1 DEF Shaken, Quiet, Alike
  <2>3. AliasOfOtherDirection(ep[x]) => AliasOfOtherDirection(ep'[x])
    BY <2>2 DEF AliasOfOtherDirection, GivenOut, IsOwn, IsPeers
  <2> QED
    BY <1>2, <2>2, <2>3 DEF ClosesExplained
<1>3. CASE ep[x].closed_for = None
  <2>1. x = e /\ Closing(e, t)
    BY <1>1, <1>3, StepFields, Sides
  <2>2. PICK m \in Messages : Taking(e, t, m) /\ Closes(ep[e], t, m)
    BY <2>1 DEF Closing
  <2> DEFINE s == ep[e]
             error == t.closed_for
  <2>3. /\ Open /\ Reason(s, m, error) /\ t.requests = s.requests
        /\ goaway' = goaway /\ dropped' = dropped /\ s.session \in {"Active", "Draining"}
    BY <2>2 DEF Taking, Closes
  <2>4. /\ m \in OnWire(e) /\ WellFormed(m) /\ Meant(e, m) /\ 1 \in DOMAIN wire[e] /\ wire[e][1] = m
    BY <1>1, <2>2, TakingIs
  <2>5. \/ dropped' > 0
        \/ Clean /\ Sequence /\ Noted /\ Freed
    BY <1>1, <2>3 DEF Clean
  <2>6. ASSUME m.type \in RequestTypes
        PROVE  m.id \in Nat /\ m.id \in Ids /\ Owner(m.id) = Peer(e) /\ m.id < s.advertised_max_id
               /\ (Sequence => m.id = s.peer_next_id)
    <3>1. m.id \in Nat /\ m.id \in Ids /\ Owner(m.id) = Peer(e)
      BY <1>1, <2>4, <2>6, Numbers DEF Meant
    <3>2. m.id < s.advertised_max_id
      BY <2>4, <2>6 DEF Ceilings
    <3>3. Sequence => m.id = s.peer_next_id
      BY <1>1, <2>4, <2>6, HeadIsNext
    <3> QED
      BY <3>1, <3>2, <3>3
  <2>7. s.advertised_max_id \in Nat /\ s.max_id \in Nat /\ s.peer_next_id \in Nat
    BY <1>1, Numbers
  <2>8. error \in {"OutOfSequence", "UpdateForUnknownRequest", "DuplicateTrackAlias"}
    <3>1. error # "WrongParity"
      BY <1>1, <2>3, <2>6 DEF Reason
    <3>2. error # "ExceedsMax"
      BY <2>3, <2>6, <2>7 DEF Reason
    <3>3. error # "Decreased"
      <4>1. m.type = "MAX_REQUEST_ID" => m.id \in Nat /\ s.max_id < m.id
        BY <1>1, <2>4, Numbers DEF Ceilings, CountTypes
      <4> QED
        BY <2>3, <2>7, <4>1 DEF Reason
    <3>4. error # "GoAwayUriAtServer"
      BY <1>1, <2>3, <2>4 DEF Reason, GoAways
    <3>5. error # "RepeatedGoAway"
      BY <2>3, <2>4 DEF Reason, GoAways
    <3> QED
      BY <2>3, <3>1, <3>2, <3>3, <3>4, <3>5 DEF Reason
  <2>9. CASE error = "OutOfSequence"
    BY <1>1, <2>1, <2>3, <2>5, <2>6, <2>9 DEF Reason
  <2>10. CASE error = "UpdateForUnknownRequest"
    <3>1. m.type = "SUBSCRIBE_UPDATE" /\ ~Existed(s, m.ref) /\ m.type \in RequestTypes /\ m.ref \in Ids
      BY <2>3, <2>4, <2>10 DEF Reason, RequestTypes, WellFormed
    <3>2. m.ref < m.id /\ Owner(m.ref) = Peer(e) /\ ep[Peer(e)].requests[m.ref].kind = "subscribe"
      BY <2>4, <3>1 DEF Updates
    <3>3. ASSUME ~goaway[Peer(e)], Sequence, Noted
          PROVE  FALSE
      <4>1. s.session # "Draining"
        BY <3>3 DEF GoAways
      <4>2. m.ref < s.peer_next_id
        BY <2>6, <3>1, <3>2, <3>3
      <4>3. s.requests[m.ref].kind # "none"
        BY <1>1, <3>1, <3>2, <3>3, <4>1, <4>2 DEF Noted, Asking, Answering
      <4>4. s.requests[m.ref].kind = "subscribe"
        BY <1>1, <3>1, <3>2, <4>3 DEF Agree
      <4> QED
        BY <3>1, <4>4 DEF Existed
    <3> QED
      BY <1>1, <2>1, <2>3, <2>5, <2>10, <3>3
  <2>11. CASE error = "DuplicateTrackAlias"
    <3>1. ASSUME Freed, ~AliasOfOtherDirection(s)
          PROVE  FALSE
      <4>1. /\ m.type \in {"PUBLISH", "SUBSCRIBE_OK"}
            /\ conflicting_track_alias(s, m.id, m.alias, TrackOf(e, m))
        <5>1. CASE m.type = "PUBLISH" /\ conflicting_track_alias(s, m.id, m.alias, m.what)
          BY <5>1 DEF TrackOf
        <5>2. CASE /\ m.type = "SUBSCRIBE_OK" /\ IsOwn(s, m.id, "subscribe")
                   /\ conflicting_track_alias(s, m.id, m.alias, s.requests[m.id].what)
          <6>1. m.id \in Ids /\ Owner(m.id) = e /\ verdict[m.id] # None
            BY <1>1, <2>4, <5>2, Numbers, SessionAssumption DEF Meant, OkTypes, AnswerTypes
          <6>2. Answering(m.id).state \notin Undecided
            BY <1>1, <6>1 DEF Verdicts, Answering
          <6>3. Answering(m.id).kind = "subscribe"
            BY <5>2, <6>1, <6>2, DecidedKinds DEF IsOwn, Asking
          <6>4. s.requests[m.id].what = ep[Peer(e)].requests[m.id].what
            BY <6>1, <6>3 DEF SameTarget, Asking, Answering
          <6> QED
            BY <5>2, <6>4 DEF TrackOf
        <5> QED
          BY <2>3, <2>11, <5>1, <5>2 DEF Reason
      <4>2. PICK id \in Ids : /\ s.requests[id].alias = m.alias /\ s.requests[id].what # TrackOf(e, m)
                              /\ s.requests[id].kind \in {"subscribe", "publish"}
                              /\ s.requests[id].state = "Active"
        BY <4>1 DEF conflicting_track_alias, binding_is_established, HasBinding
      <4>3. ~GivenOut(s, id)
        BY <3>1, <4>2 DEF AliasOfOtherDirection, binding_is_established, HasBinding
      <4>4. Received(s, id)
        BY <1>1, <4>2, <4>3 DEF Received, GivenOut, IsOwn, IsPeers
      <4>5. PICK k \in DOMAIN wire[e] : k < 1
        BY <2>4, <3>1, <4>1, <4>2, <4>4 DEF Freed
      <4> QED
        BY <1>1, <4>5, Numbers
    <3>2. AliasOfOtherDirection(s) => AliasOfOtherDirection(t)
      BY <1>1, <2>3 DEF AliasOfOtherDirection, GivenOut, IsOwn, IsPeers
    <3> QED
      BY <1>1, <2>1, <2>5, <2>11, <3>1, <3>2
  <2> QED
    BY <2>8, <2>9, <2>10, <2>11
<1> QED
  BY <1>2, <1>3

-----------------------------------------------------------------------------
(* What is invariant, and is enough for ClosesExplained. *)
Rules == /\ Closers /\ Greeting /\ Ceilings /\ GoAways /\ Updates /\ Proper /\ SameTarget
         /\ Replies /\ Refused /\ AliasAgree /\ Told
InOrder == Sequence /\ Noted /\ Over /\ Freed

Conduct == AliasInv /\ Rules /\ (Clean => InOrder) /\ ClosesExplained

(* A session starts with nothing asked, nothing granted and nothing sent.  *)
LEMMA InitConduct ==
  ASSUME Init
  PROVE  Conduct
<1>1. AliasInv
  BY InitAliasInv
<1>2. ASSUME NEW e \in Roles
      PROVE  /\ ep[e].max_id = 0 /\ ep[e].advertised_max_id = 0 /\ ep[e].session = "Connecting"
             /\ ep[e].closed_for = None
             /\ ep[e].next_id = (IF e = "client" THEN 0 ELSE 1)
             /\ ep[e].peer_next_id = (IF e = "client" THEN 1 ELSE 0)
             /\ \A id \in Ids : ep[e].requests[id] = NoRequest
  BY DEF Init, new
<1>3. \A e \in Roles : wire[e] = <<>> /\ OnWire(e) = {} /\ DOMAIN wire[e] = {}
  BY DEF Init, OnWire
<1>4. \A id \in Ids : Asking(id) = NoRequest /\ Answering(id) = NoRequest
  BY <1>2, RolesAre DEF Asking, Answering
<1>5. Closers /\ ClosesExplained
  BY <1>2 DEF Closers, ClosesExplained
<1>6. Greeting
  BY <1>2, <1>3 DEF Greeting, Early, Roles
<1>7. Ceilings
  BY <1>2, <1>3, RolesAre DEF Ceilings
<1>8. GoAways
  BY <1>2, <1>3 DEF GoAways
<1>9. Updates /\ Replies /\ Told
  BY <1>3 DEF Updates, Replies, Told
<1>10. Proper
  BY <1>2 DEF Proper, NoRequest, StatesOf
<1>11. SameTarget
  BY <1>3, <1>4 DEF SameTarget, NoRequest
<1>12. Refused
  BY SessionAssumption DEF Refused, Init
<1>13. AliasAgree
  BY <1>4 DEF AliasAgree, NoRequest
<1>14. Sequence
  <2> SUFFICES ASSUME NEW e \in Roles
               PROVE  /\ ep[e].peer_next_id = ep[Peer(e)].next_id /\ ep[e].peer_next_id \in Nat
                      /\ OnWire(e) = {} /\ DOMAIN wire[e] = {}
    BY DEF Sequence
  <2> QED
    BY <1>2, <1>3 DEF Roles, Peer
<1>15. Noted
  BY <1>4 DEF Noted, NoRequest
<1>16. Over
  BY <1>4 DEF Over, Plain, NoRequest
<1>17. Freed
  BY <1>3 DEF Freed
<1> QED
  BY <1>1, <1>5, <1>6, <1>7, <1>8, <1>9, <1>10, <1>11, <1>12, <1>13, <1>14, <1>15, <1>16, <1>17
     DEF Conduct, Rules, InOrder

(* Every step keeps it. *)
LEMMA StepConduct ==
  ASSUME Conduct, NEW e \in Roles, NEW t, Step(e, t)
  PROVE  Rules' /\ (Clean' => InOrder') /\ ClosesExplained'
<1>1. /\ AliasInv /\ Inv /\ Rules /\ ClosesExplained
      /\ Closers /\ Greeting /\ Ceilings /\ GoAways /\ Updates /\ Proper /\ SameTarget
      /\ Replies /\ Refused /\ AliasAgree /\ Told
      /\ Clean => Sequence /\ Noted /\ Over /\ Freed
  BY DEF Conduct, Rules, InOrder, AliasInv
<1>2. Closers' /\ Greeting'
  BY <1>1, ClosersKept, GreetingKept
<1>3. Ceilings' /\ GoAways'
  BY <1>1, CeilingsKept, GoAwaysKept
<1>4. Updates' /\ Proper' /\ SameTarget'
  BY <1>1, UpdatesKept, ProperKept, SameTargetKept
<1>5. Replies' /\ Refused'
  BY <1>1, RepliesKept, RefusedKept
<1>6. AliasAgree' /\ Told'
  BY <1>1, AliasAgreeKept, ToldKept
<1>7. ClosesExplained'
  BY <1>1, ClosesKept
<1>8. ASSUME Clean'
      PROVE  InOrder'
  <2>1. Sequence /\ Noted /\ Over /\ Freed
    BY <1>1, <1>8, StepFrame
  <2>2. Sequence' /\ Noted'
    BY <1>1, <1>8, <2>1, SequenceKept, NotedKept
  <2>3. Over'
    BY <1>1, <1>8, <2>1, OverKept
  <2>4. Freed'
    BY <1>1, <1>8, <2>1, FreedKept
  <2> QED
    BY <2>2, <2>3, <2>4 DEF InOrder
<1> QED
  BY <1>2, <1>3, <1>4, <1>5, <1>6, <1>7, <1>8 DEF Rules

(* A step that changes nothing keeps it too. *)
LEMMA StillConduct ==
  ASSUME Conduct, UNCHANGED vars
  PROVE  Rules' /\ (Clean' => InOrder') /\ ClosesExplained'
<1>1. /\ ep' = ep /\ wire' = wire /\ verdict' = verdict /\ goaway' = goaway /\ dropped' = dropped
      /\ \A e : OnWire(e)' = OnWire(e)
      /\ \A e : Early(e)' = Early(e)
  BY DEF vars, OnWire, Early
<1>2. /\ Rules /\ ClosesExplained
      /\ Closers /\ Greeting /\ Ceilings /\ GoAways /\ Updates /\ Proper /\ SameTarget
      /\ Replies /\ Refused /\ AliasAgree /\ Told
      /\ Clean => Sequence /\ Noted /\ Over /\ Freed
  BY DEF Conduct, Rules, InOrder
<1>3. /\ \A id : Asking(id)' = Asking(id) /\ Answering(id)' = Answering(id) /\ Plain(id)' = Plain(id)
      /\ \A e, id, m : Tells(e, id, m)' = Tells(e, id, m)
      /\ \A e, ns : Announced(e, ns)' = Announced(e, ns)
      /\ \A e, m : TrackOf(e, m)' = TrackOf(e, m)
      /\ Clean' = Clean
  BY <1>1 DEF Asking, Answering, Plain, Reannounced, Tells, Announced, TrackOf, Clean, Open
<1>4. Closers' /\ Greeting' /\ ClosesExplained'
  BY <1>1, <1>2 DEF Closers, Greeting, ClosesExplained
<1>5. Ceilings'
  BY <1>1, <1>2 DEF Ceilings
<1>6. GoAways' /\ Updates' /\ Proper'
  BY <1>1, <1>2 DEF GoAways, Updates, Proper
<1>7. SameTarget' /\ Replies' /\ Refused'
  BY <1>1, <1>2, <1>3 DEF SameTarget, Replies, Refused
<1>8. AliasAgree' /\ Told'
  BY <1>1, <1>2, <1>3 DEF AliasAgree, Told
<1>9. Clean' => Sequence' /\ Noted'
  BY <1>1, <1>2, <1>3 DEF Sequence, Noted
<1>10. Clean' => Over'
  BY <1>1, <1>2, <1>3 DEF Over, Tells
<1>11. Clean' => Freed'
  BY <1>1, <1>2, <1>3, SMTT(30) DEF Freed, TrackOf
<1> QED
  BY <1>4, <1>5, <1>6, <1>7, <1>8, <1>9, <1>10, <1>11 DEF Rules, InOrder

(* So it is inductive. *)
LEMMA NextConduct ==
  ASSUME Conduct, [Next]_vars
  PROVE  Conduct'
<1>1. AliasInv'
  BY NextAliasInv DEF Conduct
<1>2. CASE Next
  <2>1. \E e \in Roles : \E t \in Endpoints : Step(e, t)
    BY <1>2, NextShape DEF Conduct, AliasInv
  <2> QED
    BY <1>1, <2>1, StepConduct DEF Conduct
<1>3. CASE UNCHANGED vars
  BY <1>1, <1>3, StillConduct DEF Conduct
<1> QED
  BY <1>2, <1>3

(* Two endpoints that keep the rules do not close the session on each      *)
(* other, but for the alias table that mixes the directions                *)
(* (conflicting_track_alias), the requests a draining endpoint forgets     *)
(* (require_active in receive_subscribe, then receive_subscribe_update)    *)
(* and the hole that a send dropped before it was written leaves.          *)
THEOREM ClosesAreExplained == Spec => []ClosesExplained
<1>1. Init => Conduct
  BY InitConduct
<1>2. Conduct /\ [Next]_vars => Conduct'
  BY NextConduct
<1>3. Conduct => ClosesExplained
  BY DEF Conduct
<1> QED
  BY <1>1, <1>2, <1>3, PTL DEF Spec

-----------------------------------------------------------------------------
(* A verdict is given by the answer that says it.                          *)
LEMMA VerdictGiven ==
  ASSUME Inv, NEW e \in Roles, NEW t, Step(e, t), NEW id \in Ids, verdict'[id] # verdict[id]
  PROVE  \E m \in Messages : Deciding(e, t, m) /\ m.id = id
<1>1. Stepped(e, t) /\ Shape(e, t) /\ TypeOK
  BY DEF Step, Inv
<1>2. ASSUME verdict' = verdict
      PROVE  FALSE
  BY <1>2
<1>3. PICK m \in Messages : Deciding(e, t, m)
  BY <1>1, <1>2 DEF Shape, Opening, Counting, Taking, Reading, Leaving, Streaming, Shaken
<1>4. m.id = id
  BY <1>1, <1>3 DEF Deciding, TypeOK
<1> QED
  BY <1>3, <1>4

(* An answer that is read decides the request it answers.                  *)
LEMMA AnswerHeard ==
  ASSUME Inv, Proper, Replies, NEW e \in Roles, NEW t, Step(e, t), Open', NEW m, Taking(e, t, m),
         m.type \in AnswerTypes, ep[e].requests[m.id].state \in Undecided
  PROVE  /\ m.id \in Ids /\ t.requests[m.id].state \notin Undecided
         /\ Changed(ep[e], t, m.id, EventOf(m.type), BindsTo(ep[e], m.id, m))
<1>1. m \in OnWire(e) /\ Heeds(ep[e], t, m) /\ m.type \in AnswerTypes \union EndTypes \union AboutTypes
  BY TakenBy
<1>2. m.id \in Ids /\ Meant(e, m) /\ ep[e].role = e
  BY <1>1, Numbers, Sides
<1>3. IsOwn(ep[e], m.id, KindOf(m.type)) /\ Owner(m.id) = e
  BY <1>1, <1>2 DEF Replies, IsOwn, Meant, AnswerTypes
<1>4. Concerns(ep[e], m.id, m)
  BY <1>3 DEF Concerns
<1>5. \A id \in Ids : Concerns(ep[e], id, m) => id = m.id
  <2>1. m.type \notin EndTypes \union AboutTypes
    BY DEF AnswerTypes, OkTypes, ErrorTypes, EndTypes, AboutTypes
  <2> QED
    BY <2>1 DEF Concerns, EndTypes, AboutTypes
<1>6. EventOf(m.type) \in {"ok", "error"}
  BY <1>1, EventsOf DEF AnswerTypes
<1>7. CanMove(ep[e], m.id, EventOf(m.type))
  <2>1. KindOf(m.type) \in Kinds /\ ep[e].requests[m.id].kind = KindOf(m.type)
    BY <1>3, AnswerKinds DEF IsOwn
  <2>2. ep[e].requests[m.id].state \in StatesOf(ep[e].requests[m.id].kind)
    BY <1>2 DEF Proper
  <2> QED
    BY <1>6, <2>1, <2>2, Able DEF CanMove
<1>8. Changed(ep[e], t, m.id, EventOf(m.type), BindsTo(ep[e], m.id, m))
  BY <1>1, <1>2, <1>4, <1>5, <1>7 DEF Heeds
<1>9. t.requests[m.id].state \notin Undecided
  BY <1>6, <1>8, MoveFacts DEF Changed
<1> QED
  BY <1>2, <1>8, <1>9

(* While no send is lost, an asker that waits for a verdict that was given *)
(* has it on the way.                                                      *)
LEMMA AnsweredKept ==
  ASSUME AliasInv, Greeting, Proper, Replies, Answered, NEW e \in Roles, NEW t, Step(e, t), Clean'
  PROVE  Answered'
<1> SUFFICES ASSUME NEW id \in Ids, verdict'[id] # None,
                    ep'[Owner(id)].requests[id].state \in Undecided
             PROVE  \E m \in OnWire(Owner(id))' : m.type \in AnswerTypes /\ m.id = id
  BY DEF Answered, Asking
<1> DEFINE o == Owner(id)
<1>1. /\ Inv /\ Stepped(e, t) /\ Open' /\ dropped' = 0 /\ o \in Roles /\ ep'[e] = t
      /\ ep[e].role = e /\ (e # o => o = Peer(e)) /\ TypeOK
  BY Sides DEF AliasInv, Inv, Step, Clean
<1>2. CASE verdict[id] # None
  <2>1. ep[o].requests[id].state \in Undecided
    BY <1>1, Lasting
  <2>2. PICK m \in OnWire(o) : m.type \in AnswerTypes /\ m.id = id
    BY <1>2, <2>1 DEF Answered, Asking
  <2>3. m.type \notin SetupTypes
    BY <2>2, AnswerKinds
  <2>4. ASSUME o = e, Taking(e, t, m)
        PROVE  FALSE
    BY <1>1, <2>1, <2>2, <2>4, AnswerHeard
  <2> QED
    BY <1>1, <2>2, <2>3, <2>4, WireStays
<1>3. CASE verdict[id] = None
  <2>1. PICK m \in Messages : Deciding(e, t, m) /\ m.id = id
    BY <1>1, <1>3, VerdictGiven
  <2>2. o = Peer(e) /\ m.type \in AnswerTypes /\ Wrote(e, <<m>>)
    BY <1>1, <2>1 DEF Deciding, Replied, IsPeers, AnswerTypes
  <2>3. <<m>>[1] \in OnWire(Peer(e))' /\ <<m>>[1] = m
    BY <1>1, <2>2, Written
  <2> QED
    BY <2>1, <2>2, <2>3
<1> QED
  BY <1>2, <1>3

-----------------------------------------------------------------------------
(* What becomes of a fetch in a step: of its two records, its data stream  *)
(* and its verdict, unless the stream is reset.                            *)
FetchHeard(e, t, id) ==
  \/ /\ verdict[id] = "ok"
     /\ \/ ep[e].requests[id].state = "Pending" /\ t.requests[id].state = "Receiving"
        \/ ep[e].requests[id].state = "Unanswered" /\ t.requests[id].state = "Done"
  \/ verdict[id] = "error" /\ t.requests[id].state = "Done"
  \/ \E m \in Messages : Parted(e, t, id, m) /\ m.type = "FETCH_CANCEL" /\ m.id = id
                         /\ t.requests[id].state = "Done"

FetchDecided(e, t, id) ==
  \/ /\ verdict'[id] = "ok"
     /\ \/ ep[e].requests[id].state = "Pending" /\ t.requests[id].state = "Receiving"
        \/ ep[e].requests[id].state = "Unanswered" /\ t.requests[id].state = "Done"
  \/ verdict'[id] = "error" /\ t.requests[id].state = "Done"

FetchServed(e, t, id) ==
  /\ verdict'[id] = verdict[id]
  /\ \/ Asking(id).state = "Done" /\ t.requests[id].state = "Done"
     \/ /\ ep[e].requests[id].state = "Idle" /\ t.requests[id].state = "Pending"
        /\ \E m \in Messages : Enrolled(e, t, id, m)

FetchFlows(e, t, id) ==
  \/ /\ Owner(id) = e /\ stream[id] = "fin" /\ stream'[id] = "finished"
     /\ \/ ep[e].requests[id].state = "Pending" /\ t.requests[id].state = "Unanswered"
        \/ ep[e].requests[id].state = "Unanswered" /\ t.requests[id].state = "Unanswered"
        \/ ep[e].requests[id].state \in {"Receiving", "Done"} /\ t.requests[id].state = "Done"
  \/ /\ Owner(id) # e /\ stream[id] = "none" /\ stream'[id] = "fin"
     /\ \/ ep[e].requests[id].state = "Pending" /\ t.requests[id].state = "Unanswered"
        \/ ep[e].requests[id].state = "Receiving" /\ t.requests[id].state = "Done"

FetchFate(e, t, id) ==
  \/ stream'[id] \in {"reset", "was_reset"}
  \/ FetchFlows(e, t, id) /\ verdict'[id] = verdict[id]
  \/ /\ stream'[id] = stream[id]
     /\ \/ t.requests[id] = ep[e].requests[id] /\ verdict'[id] = verdict[id]
        \/ Owner(id) = e /\ FetchHeard(e, t, id) /\ verdict'[id] = verdict[id]
        \/ Owner(id) # e /\ (FetchDecided(e, t, id) \/ FetchServed(e, t, id))

(* The answers to a fetch.                                                 *)
LEMMA FetchTypes ==
  ASSUME NEW type \in AnswerTypes, KindOf(type) = "fetch"
  PROVE  type \in {"FETCH_OK", "FETCH_ERROR"}
BY DEF AnswerTypes, OkTypes, ErrorTypes, KindOf

(* Its data stream ends, at one end or the other.                          *)
LEMMA FetchStream ==
  ASSUME AliasInv, Proper, NEW e \in Roles, NEW t, Step(e, t), NEW id \in Ids, Streaming(e, t, id)
  PROVE  FetchFate(e, t, id)
<1>1. TypeOK /\ Inv
  BY DEF AliasInv, Inv
<1>2. verdict'[id] = verdict[id] /\ ep[e].requests[id].kind = "fetch"
  BY DEF Streaming
<1>3. ep[e].requests[id].state \in {"Pending", "Unanswered", "Receiving", "Done"}
  BY <1>2 DEF Proper, StatesOf
<1>4. ASSUME Changed(ep[e], t, id, "end", ep[e].requests[id].alias)
      PROVE  \/ ep[e].requests[id].state = "Pending" /\ t.requests[id].state = "Unanswered"
             \/ ep[e].requests[id].state \in {"Receiving", "Done"} /\ t.requests[id].state = "Done"
  BY <1>4, Moving DEF Changed
<1>5. CASE Owner(id) # e
  <2>1. stream'[id] = "reset" \/ (stream[id] = "none" /\ stream'[id] = "fin"
          /\ ep[e].requests[id].state \in {"Pending", "Receiving"}
          /\ Changed(ep[e], t, id, "end", ep[e].requests[id].alias))
    BY <1>1, <1>5 DEF Streaming, TypeOK
  <2> QED
    BY <1>2, <1>4, <1>5, <2>1 DEF FetchFate, FetchFlows
<1>6. CASE Owner(id) = e
  <2>1. \/ stream'[id] = "was_reset"
        \/ /\ stream[id] = "fin" /\ stream'[id] = "finished"
           /\ IF CanMove(ep[e], id, "end") THEN Changed(ep[e], t, id, "end", ep[e].requests[id].alias)
              ELSE t = ep[e]
    BY <1>1, <1>6 DEF Streaming, TypeOK
  <2>2. ep[e].requests[id].state # "Unanswered" => CanMove(ep[e], id, "end")
    <3>1. "fetch" \in Kinds /\ ep[e].requests[id].state \in StatesOf("fetch")
      BY <1>3 DEF Kinds, StatesOf
    <3> QED
      BY <1>2, <3>1, Able DEF CanMove
  <2>3. ASSUME ep[e].requests[id].state = "Unanswered", CanMove(ep[e], id, "end")
        PROVE  FALSE
    <3>1. PICK to \in States : <<"Unanswered", "end", to>> \in Moves("fetch")
      BY <1>2, <2>3 DEF CanMove, Can
    <3> QED
      BY <3>1, Moving
  <2> QED
    BY <1>2, <1>3, <1>4, <1>6, <2>1, <2>2, <2>3 DEF FetchFate, FetchFlows
<1> QED
  BY <1>5, <1>6

(* Its asker reads an answer, or gives it up.                              *)
LEMMA FetchAsker ==
  ASSUME AliasInv, Proper, NEW e \in Roles, NEW t, Step(e, t), NEW id \in Ids, ~Streaming(e, t, id),
         Owner(id) = e, ep[e].requests[id].kind = "fetch"
  PROVE  t.requests[id] = ep[e].requests[id] \/ FetchHeard(e, t, id)
<1>1. Inv /\ ep[e].role = e /\ Counted(ep[e])
  BY Sides DEF AliasInv, Inv, Counters
<1>2. Fate(e, t, id)
  BY <1>1, FateIs
<1>3. ASSUME NEW m \in Messages, Opening(e, t, m), m.id = id
      PROVE  FALSE
  <2>1. m.id = ep[e].next_id /\ ep[e].next_id \in Nat
    BY <1>1, <1>3, Numbers DEF Opening, NextId
  <2> QED
    BY <1>1, <1>3, <2>1 DEF Counted, NoRequest
<1>4. ASSUME NEW m \in Messages, Deciding(e, t, m), m.id = id
      PROVE  FALSE
  BY <1>1, <1>4 DEF Deciding, IsPeers
<1>5. ASSUME NEW m \in Messages, Enrolled(e, t, id, m)
      PROVE  FALSE
  BY <1>1, <1>5 DEF Enrolled, Enters
<1>6. ASSUME NEW m \in Messages, Affected(e, t, id, m)
      PROVE  FetchHeard(e, t, id)
  <2>1. m.type \in AnswerTypes /\ m.id = id /\ KindOf(m.type) = "fetch"
    BY <1>1, <1>6 DEF Affected, Concerns, IsOwn, IsPeers, GivenOut, inbound_subscribe_namespace_ids,
         inbound_publish_namespace_ids, own_publish_namespace_ids
  <2>2. m.type \in {"FETCH_OK", "FETCH_ERROR"}
    BY <2>1, FetchTypes
  <2>3. Meant(e, m)
    BY <1>1, <1>6, TakingIs DEF Affected
  <2>4. m.type \in AnswerTypes \union EndTypes \union AboutTypes
    BY <2>1
  <2>5. CASE m.type = "FETCH_OK"
    <3>1. EventOf(m.type) = "ok" /\ verdict[id] = "ok"
      BY <2>1, <2>3, <2>4, <2>5, EventsOf DEF Meant, OkTypes
    <3> QED
      BY <1>6, <3>1, Moving DEF Affected, Changed, FetchHeard
  <2>6. CASE m.type = "FETCH_ERROR"
    <3>1. EventOf(m.type) = "error" /\ verdict[id] = "error"
      BY <2>1, <2>3, <2>4, <2>6, EventsOf DEF Meant, ErrorTypes
    <3> QED
      BY <1>6, <3>1, MoveFacts DEF Affected, Changed, FetchHeard
  <2> QED
    BY <2>2, <2>5, <2>6
<1>7. ASSUME NEW m \in Messages, Parted(e, t, id, m)
      PROVE  FetchHeard(e, t, id)
  <2>1. m.type = "FETCH_CANCEL" /\ m.id = id /\ t.requests[id].state = "Done"
    BY <1>7 DEF Parted, Farewell, Names, Received, GivenOut, IsOwn, IsPeers
  <2> QED
    BY <1>7, <2>1 DEF FetchHeard
<1> QED
  BY <1>2, <1>3, <1>4, <1>5, <1>6, <1>7 DEF Fate

(* Its answerer records it, answers it, or reads that it is cancelled.     *)
LEMMA FetchAnswerer ==
  ASSUME AliasInv, Proper, NEW e \in Roles, NEW t, Step(e, t), NEW id \in Ids, ~Streaming(e, t, id),
         Owner(id) # e, Asking(id).kind = "fetch"
  PROVE  \/ t.requests[id] = ep[e].requests[id] /\ verdict'[id] = verdict[id]
         \/ FetchDecided(e, t, id) \/ FetchServed(e, t, id)
<1>1. /\ Inv /\ ep[e].role = e /\ Counted(ep[e]) /\ Agree /\ TypeOK /\ Peer(Owner(id)) = e
      /\ Peer(e) = Owner(id) /\ ep[e].peer_next_id \in Nat
  <2>1. Inv /\ Agree /\ TypeOK /\ Counted(ep[e])
    BY DEF AliasInv, Inv, Counters
  <2> QED
    BY <2>1, Sides, Numbers
<1>2. Fate(e, t, id)
  BY <1>1, FateIs
<1>3. ASSUME NEW m \in Messages, Deciding(e, t, m), m.id = id
      PROVE  FetchDecided(e, t, id)
  <2>1. ep[e].requests[id].kind = "fetch"
    <3>1. ep[e].requests[id].kind \in Kinds
      BY <1>3, MoveFacts DEF Deciding, Changed
    <3> QED
      BY <1>1, <3>1 DEF Agree, Asking, Kinds
  <2>2. CASE m.type \in OkTypes
    <3>1. verdict'[id] = "ok"
      BY <1>1, <1>3, <2>2 DEF Deciding, TypeOK
    <3> QED
      BY <1>3, <2>1, <2>2, <3>1, Moving DEF Deciding, Changed, FetchDecided
  <2>3. CASE m.type \notin OkTypes
    <3>1. verdict'[id] = "error"
      BY <1>1, <1>3, <2>3 DEF Deciding, TypeOK
    <3> QED
      BY <1>3, <2>1, <2>3, <3>1, MoveFacts DEF Deciding, Changed, FetchDecided
  <2> QED
    BY <2>2, <2>3
<1>4. verdict'[id] = verdict[id] \/ FetchDecided(e, t, id)
  BY <1>1, <1>3, VerdictGiven
<1>5. ASSUME NEW m \in Messages, Opening(e, t, m), m.id = id
      PROVE  FALSE
  <2>1. m.id = ep[e].next_id
    BY <1>5 DEF Opening, NextId
  <2> QED
    BY <1>1, <1>5, <2>1 DEF Counted
<1>6. ASSUME NEW m \in Messages, Enrolled(e, t, id, m)
      PROVE  ep[e].requests[id].state = "Idle" /\ t.requests[id].state = "Pending"
  <2>1. Meant(e, m) /\ m \in Messages
    BY <1>1, <1>6, TakingIs DEF Enrolled
  <2>2. KindOf(m.type) = "fetch" /\ m.id = ep[e].peer_next_id
    BY <1>1, <1>6, <2>1 DEF Enrolled, Enters, Meant, Asking
  <2>3. ep[e].requests[id] = NoRequest
    BY <1>1, <1>6, <2>2 DEF Counted, Enrolled
  <2> QED
    BY <1>6, <2>2, <2>3 DEF Enrolled, Enters, NoRequest, Opened
<1>7. ASSUME NEW m \in Messages, Affected(e, t, id, m)
      PROVE  Asking(id).state = "Done" /\ t.requests[id].state = "Done"
  <2>1. ep[e].requests[id].kind = "fetch"
    <3>1. ep[e].requests[id].kind \in Kinds
      BY <1>7, MoveFacts DEF Affected, Changed
    <3> QED
      BY <1>1, <3>1 DEF Agree, Asking, Kinds
  <2>2. m.type = "FETCH_CANCEL" /\ m.id = id
    BY <1>1, <1>7, <2>1 DEF Affected, Concerns, IsOwn, IsPeers, GivenOut, inbound_subscribe_namespace_ids,
         inbound_publish_namespace_ids, own_publish_namespace_ids
  <2>3. Meant(e, m)
    BY <1>1, <1>7, TakingIs DEF Affected
  <2>4. EventOf(m.type) = "cancel"
    BY <2>2, EventsOf DEF EndTypes
  <2>5. t.requests[id].state = "Done"
    BY <1>7, <2>4, MoveFacts DEF Affected, Changed
  <2> QED
    BY <1>1, <2>2, <2>3, <2>5 DEF Meant, Asking
<1>8. ASSUME NEW m \in Messages, Parted(e, t, id, m)
      PROVE  FALSE
  <2>1. ep[e].requests[id].kind = "fetch"
    <3>1. ep[e].requests[id].kind # "none"
      BY <1>8 DEF Parted, Farewell, Names, Received, GivenOut, IsOwn, IsPeers
    <3> QED
      BY <1>1, <3>1 DEF Agree, Asking
  <2> QED
    BY <1>1, <1>8, <2>1 DEF Parted, Farewell, Names, Received, GivenOut, IsOwn, IsPeers
<1>9. CASE FetchDecided(e, t, id)
  BY <1>9
<1>10. CASE verdict'[id] = verdict[id] /\ ~FetchDecided(e, t, id)
  BY <1>2, <1>3, <1>5, <1>6, <1>7, <1>8, <1>10 DEF Fate, FetchServed
<1> QED
  BY <1>4, <1>9, <1>10

(* And that is all that becomes of a fetch.                                *)
LEMMA FetchFateIs ==
  ASSUME AliasInv, Proper, NEW e \in Roles, NEW t, Step(e, t), NEW id \in Ids, Asking(id).kind = "fetch"
  PROVE  FetchFate(e, t, id)
<1>1. Inv /\ TypeOK /\ ep[e].role = e
  BY Sides DEF AliasInv, Inv
<1>2. CASE Streaming(e, t, id)
  BY <1>2, FetchStream
<1>3. CASE ~Streaming(e, t, id)
  <2>1. stream'[id] = stream[id]
    <3>1. CASE stream' = stream
      BY <3>1
    <3>2. CASE \E j \in Ids : Streaming(e, t, j)
      <4>1. PICK j \in Ids : Streaming(e, t, j)
        BY <3>2
      <4>2. j # id
        BY <1>3, <4>1
      <4> QED
        BY <1>1, <4>1, <4>2 DEF Streaming, TypeOK
    <3> QED
      BY <1>1, <3>1, <3>2, StepFields
  <2>2. CASE Owner(id) = e
    <3>1. verdict'[id] = verdict[id]
      <4>1. ASSUME NEW m \in Messages, Deciding(e, t, m), m.id = id
            PROVE  FALSE
        BY <1>1, <2>2, <4>1 DEF Deciding, IsPeers
      <4> QED
        BY <1>1, <4>1, VerdictGiven
    <3>2. ep[e].requests[id].kind = "fetch"
      BY <2>2 DEF Asking
    <3> QED
      BY <1>3, <2>1, <2>2, <3>1, <3>2, FetchAsker DEF FetchFate
  <2>3. CASE Owner(id) # e
    BY <1>3, <2>1, <2>3, FetchAnswerer DEF FetchFate
  <2> QED
    BY <2>2, <2>3
<1> QED
  BY <1>2, <1>3

(* The data stream of a fetch and its two records go together.             *)
LEMMA FetchesKept ==
  ASSUME AliasInv, Proper, Fetches, NEW e \in Roles, NEW t, Step(e, t)
  PROVE  Fetches'
<1> SUFFICES ASSUME NEW id \in Ids
             PROVE  LET A == ep'[Owner(id)].requests[id].state
                        B == ep'[Peer(Owner(id))].requests[id].state
                        S == stream'[id]
                    IN /\ S # "none" => ep'[Owner(id)].requests[id].kind = "fetch"
                       /\ ep'[Owner(id)].requests[id].kind = "fetch" /\ S \notin {"reset", "was_reset"} =>
                            /\ B \in {"Idle", "Pending", "Receiving"} => S = "none"
                            /\ B = "Unanswered" => S \in {"fin", "finished"}
                            /\ A \in {"Pending", "Receiving"} => S # "finished"
                            /\ A = "Unanswered" => S = "finished"
                            /\ A = "Receiving" => verdict'[id] = "ok"
                            /\ verdict'[id] = "ok" /\ B = "Done" /\ A # "Done" => S \in {"fin", "finished"}
  BY DEF Fetches, Asking, Answering
<1> DEFINE o == Owner(id)
           p == Peer(o)
           a == ep[o].requests[id].state
           b == ep[p].requests[id].state
           A1 == ep'[o].requests[id].state
           B1 == ep'[p].requests[id].state
<1>1. /\ Inv /\ Agree /\ Verdicts /\ TypeOK /\ Stepped(e, t)
      /\ o \in Roles /\ p \in Roles /\ p # o /\ Peer(p) = o /\ ep[e].role = e
      /\ (e = p => ep'[o] = ep[o] /\ ep'[p] = t) /\ (e # p => e = o /\ ep'[p] = ep[p] /\ ep'[o] = t)
  BY Sides DEF AliasInv, Inv, Step
<1>2. CASE ep[o].requests[id].kind # "fetch"
  <2>1. stream[id] = "none"
    BY <1>2 DEF Fetches, Asking
  <2>2. stream'[id] = "none"
    <3>1. ASSUME NEW j \in Ids, Streaming(e, t, j)
          PROVE  stream'[id] = stream[id]
      <4>1. ep[e].requests[j].kind = "fetch"
        BY <3>1 DEF Streaming
      <4>2. j # id
        BY <1>1, <1>2, <4>1 DEF Agree
      <4> QED
        BY <1>1, <3>1, <4>2 DEF Streaming, TypeOK
    <3> QED
      BY <1>1, <2>1, <3>1, StepFields
  <2>3. CASE ep'[o].requests[id].kind = "fetch"
    <3>1. ep[o].requests[id].kind = "none" /\ e = o
      BY <1>1, <1>2, <2>3, Lasting
    <3>2. /\ ep[o].requests[id] = NoRequest
          /\ ep[p].requests[id] = NoRequest
      <4>1. ep[p].requests[id].kind = "none"
        BY <1>1, <3>1 DEF Agree
      <4> QED
        BY <1>1, <3>1, <4>1 DEF Inv, Counters, Counted
    <3>3. \A event : ~Turned(e, t, id, event)
      BY <1>1, <3>1, <3>2, MoveFacts DEF Turned, NoRequest, Kinds
    <3>4. A1 = "Pending"
      <4>1. Fresh(e, t, id)
        BY <1>1, <1>2, <2>3, <3>1, <3>3, RecordStep DEF Kept
      <4> QED
        BY <1>1, <2>3, <3>1, <4>1 DEF Fresh, Opened
    <3>5. B1 = "Idle"
      BY <1>1, <3>1, <3>2 DEF NoRequest
    <3> QED
      BY <2>2, <3>4, <3>5
  <2> QED
    BY <2>2, <2>3
<1>3. CASE ep[o].requests[id].kind = "fetch"
  <2>1. ep'[o].requests[id].kind = "fetch"
    BY <1>1, <1>3, Lasting
  <2>2. FetchFate(e, t, id)
    BY <1>3, FetchFateIs DEF Asking
  <2>3. /\ a \in {"Pending", "Unanswered", "Receiving", "Done"}
        /\ b \in {"Idle", "Pending", "Unanswered", "Receiving", "Done"}
    <3>1. a \in {"Pending", "Unanswered", "Receiving", "Done"}
      BY <1>1, <1>3 DEF Proper, StatesOf
    <3>2. ep[p].requests[id].kind \in {"none", "fetch"}
      BY <1>1, <1>3 DEF Agree
    <3> QED
      BY <1>1, <3>1, <3>2 DEF Proper, StatesOf
  <2>4. /\ stream[id] \in {"none", "fin", "finished", "reset", "was_reset"}
        /\ verdict[id] \in {None, "ok", "error"}
    BY <1>1 DEF TypeOK
  <2>5. verdict[id] # None => b \notin Undecided
    BY <1>1 DEF Verdicts
  <2>6. CASE stream'[id] \in {"reset", "was_reset"}
    BY <2>1, <2>6
  <2>7. CASE stream'[id] \notin {"reset", "was_reset"}
    <3> DEFINE Before == /\ b \in {"Idle", "Pending", "Receiving"} => stream[id] = "none"
                         /\ b = "Unanswered" => stream[id] \in {"fin", "finished"}
                         /\ a \in {"Pending", "Receiving"} => stream[id] # "finished"
                         /\ a = "Unanswered" => stream[id] = "finished"
                         /\ a = "Receiving" => verdict[id] = "ok"
                         /\ verdict[id] = "ok" /\ b = "Done" /\ a # "Done" => stream[id] \in {"fin", "finished"}
               After1 == /\ B1 \in {"Idle", "Pending", "Receiving"} => stream'[id] = "none"
                         /\ B1 = "Unanswered" => stream'[id] \in {"fin", "finished"}
                         /\ A1 \in {"Pending", "Receiving"} => stream'[id] # "finished"
                         /\ A1 = "Unanswered" => stream'[id] = "finished"
                         /\ A1 = "Receiving" => verdict'[id] = "ok"
                         /\ verdict'[id] = "ok" /\ B1 = "Done" /\ A1 # "Done" =>
                              stream'[id] \in {"fin", "finished"}
    <3>1. ASSUME stream[id] \notin {"reset", "was_reset"}
          PROVE  Before
      BY <1>3, <3>1 DEF Fetches, Asking, Answering
    <3>2. CASE FetchFlows(e, t, id) /\ verdict'[id] = verdict[id]
      <4>1. stream[id] \notin {"reset", "was_reset"}
        BY <3>2 DEF FetchFlows
      <4>2. CASE Owner(id) = e
        <5>1. A1 = t.requests[id].state /\ B1 = b /\ a = ep[e].requests[id].state
          BY <1>1, <4>2
        <5>2. After1
          BY <2>3, <3>1, <3>2, <4>1, <4>2, <5>1 DEF FetchFlows
        <5> QED
          BY <2>1, <5>2
      <4>3. CASE Owner(id) # e
        <5>1. B1 = t.requests[id].state /\ A1 = a /\ b = ep[e].requests[id].state
          BY <1>1, <4>3
        <5>2. After1
          BY <2>3, <3>1, <3>2, <4>1, <4>3, <5>1 DEF FetchFlows
        <5> QED
          BY <2>1, <5>2
      <4> QED
        BY <4>2, <4>3
    <3>3. CASE stream'[id] = stream[id] /\ t.requests[id] = ep[e].requests[id] /\ verdict'[id] = verdict[id]
      <4>1. A1 = a /\ B1 = b
        BY <1>1, <3>3
      <4>2. After1
        BY <2>7, <3>1, <3>3, <4>1
      <4> QED
        BY <2>1, <4>2
    <3>4. CASE stream'[id] = stream[id] /\ Owner(id) = e /\ FetchHeard(e, t, id) /\ verdict'[id] = verdict[id]
      <4>1. A1 = t.requests[id].state /\ B1 = b /\ a = ep[e].requests[id].state
        BY <1>1, <3>4
      <4>2. After1
        BY <2>3, <2>7, <3>1, <3>4, <4>1 DEF FetchHeard
      <4> QED
        BY <2>1, <4>2
    <3>5. CASE stream'[id] = stream[id] /\ Owner(id) # e /\ (FetchDecided(e, t, id) \/ FetchServed(e, t, id))
      <4>1. B1 = t.requests[id].state /\ A1 = a /\ b = ep[e].requests[id].state /\ Asking(id).state = a
        BY <1>1, <3>5 DEF Asking
      <4>2. verdict[id] # None => b \notin {"Idle", "Pending", "Unanswered"}
        BY <2>5 DEF Undecided
      <4>3. CASE FetchDecided(e, t, id)
        <5>1. a = "Receiving" => verdict'[id] = "ok"
          <6>1. a = "Receiving" => verdict[id] = "ok"
            BY <2>7, <3>1, <3>5
          <6> QED
            BY <1>1, <6>1, Lasting, SessionAssumption
        <5>2. After1
          BY <2>3, <2>7, <3>1, <3>5, <4>1, <4>3, <5>1 DEF FetchDecided
        <5> QED
          BY <2>1, <5>2
      <4>4. CASE FetchServed(e, t, id)
        <5>1. After1
          BY <2>3, <2>7, <3>1, <3>5, <4>1, <4>4 DEF FetchServed
        <5> QED
          BY <2>1, <5>1
      <4> QED
        BY <3>5, <4>3, <4>4
    <3> QED
      BY <2>2, <2>7, <3>2, <3>3, <3>4, <3>5 DEF FetchFate
  <2> QED
    BY <2>6, <2>7
<1> QED
  BY <1>2, <1>3

(* A cancel that is read ends the fetch it names.                          *)
LEMMA CancelHeard ==
  ASSUME Inv, Proper, NEW e \in Roles, NEW t, Step(e, t), Open', NEW m, Taking(e, t, m),
         m.type = "FETCH_CANCEL", ep[e].requests[m.id].kind = "fetch"
  PROVE  t.requests[m.id].state = "Done"
<1>1. m \in OnWire(e) /\ Heeds(ep[e], t, m)
  BY TakenBy DEF EndTypes
<1>2. m.id \in Ids /\ Owner(m.id) # e /\ ep[e].role = e
  BY <1>1, Numbers, Sides DEF Meant, EndTypes
<1>3. Concerns(ep[e], m.id, m) /\ \A id \in Ids : Concerns(ep[e], id, m) => id = m.id
  BY <1>2 DEF Concerns, IsPeers, AnswerTypes, OkTypes, ErrorTypes
<1>4. EventOf(m.type) = "cancel"
  BY EventsOf DEF EndTypes
<1>5. CASE ep[e].requests[m.id].state = "Done"
  BY <1>2, <1>5, Lasting, Sides DEF Step
<1>6. CASE ep[e].requests[m.id].state # "Done"
  <2>1. CanMove(ep[e], m.id, "cancel")
    <3>1. ep[e].requests[m.id].state \in StatesOf("fetch") /\ "fetch" \in Kinds
      BY <1>2 DEF Proper, Kinds
    <3> QED
      BY <1>6, <3>1, Able DEF CanMove
  <2>2. Changed(ep[e], t, m.id, "cancel", BindsTo(ep[e], m.id, m))
    BY <1>1, <1>2, <1>3, <1>4, <2>1 DEF Heeds
  <2> QED
    BY <2>2, MoveFacts DEF Changed
<1> QED
  BY <1>5, <1>6

(* While no send is lost, a fetch its asker gave up is over at the other   *)
(* end too, or is being cancelled there.                                   *)
LEMMA CancelledKept ==
  ASSUME AliasInv, Greeting, Proper, Refused, Fetches, Sequence, Cancelled,
         NEW e \in Roles, NEW t, Step(e, t), Clean'
  PROVE  Cancelled'
<1> SUFFICES ASSUME NEW id \in Ids, ep'[Owner(id)].requests[id].kind = "fetch",
                    ep'[Owner(id)].requests[id].state = "Done",
                    stream'[id] \notin {"reset", "was_reset"}
             PROVE  LET p == Peer(Owner(id))
                    IN  /\ ep'[p].requests[id].state \notin {"Idle", "Done"} =>
                             \E m \in OnWire(p)' : m.type = "FETCH_CANCEL" /\ m.id = id
                        /\ ep'[p].peer_next_id <= id =>
                             \E k, n \in DOMAIN wire'[p] :
                               /\ k < n /\ wire'[p][k].type \in RequestTypes /\ wire'[p][k].id = id
                               /\ wire'[p][n].type = "FETCH_CANCEL" /\ wire'[p][n].id = id
  BY DEF Cancelled, Asking, Answering
<1> DEFINE o == Owner(id)
           p == Peer(o)
<1>1. /\ Inv /\ Agree /\ Verdicts /\ Counters /\ TypeOK /\ Stepped(e, t) /\ Open' /\ dropped' = 0
      /\ o \in Roles /\ p \in Roles /\ p # o /\ Peer(p) = o
      /\ ep[e].role = e /\ ep[o].role = o /\ ep[p].role = p
      /\ (e = p => ep'[o] = ep[o] /\ ep'[p] = t) /\ (e # p => e = o /\ ep'[p] = ep[p] /\ ep'[o] = t)
  BY Sides DEF AliasInv, Inv, Step, Clean
<1>2. id \in Nat /\ ep[p].peer_next_id \in Nat /\ ep[o].next_id \in Nat
  BY <1>1, Numbers, EndpointAssumption
<1>3. ep[o].requests[id].kind = "fetch"
  <2>1. ep[o].requests[id].kind \in {"none", "fetch"}
    BY <1>1, Lasting
  <2>2. ASSUME ep[o].requests[id].kind = "none"
        PROVE  FALSE
    <3>1. e = o /\ ~Kept(e, t, id)
      BY <1>1, <2>2 DEF Kept
    <3>2. \A event : ~Turned(e, t, id, event)
      BY <2>2, <3>1, MoveFacts DEF Turned, Kinds
    <3>3. Fresh(e, t, id)
      BY <1>1, <3>1, <3>2, RecordStep
    <3> QED
      BY <1>1, <3>1, <3>3 DEF Fresh, Opened
  <2> QED
    BY <2>1, <2>2
<1>4. FetchFate(e, t, id)
  BY <1>3, FetchFateIs DEF Asking
<1>5. stream[id] \notin {"reset", "was_reset"}
  BY <1>4 DEF FetchFate, FetchFlows
<1>6. /\ ep[p].requests[id].kind \in {"none", "fetch"}
      /\ ep[p].requests[id].kind = "none" => ep[p].requests[id].state = "Idle"
  BY <1>1, <1>3 DEF Agree, Counters, Counted, NoRequest
<1>7. PICK d \in {0, 1} : Flow(e, t, p, d)
  BY <1>1, WireStep
<1>8. CASE ep[o].requests[id].state = "Done"
  <2>1. ASSUME ep[p].peer_next_id <= id
        PROVE  \E k, n \in DOMAIN wire[p] :
                 /\ k < n /\ wire[p][k].type \in RequestTypes /\ wire[p][k].id = id
                 /\ wire[p][n].type = "FETCH_CANCEL" /\ wire[p][n].id = id
    BY <1>3, <1>5, <1>8, <2>1 DEF Cancelled, Asking
  <2>2. ASSUME ep'[p].requests[id].state \notin {"Idle", "Done"}
        PROVE  \E m \in OnWire(p)' : m.type = "FETCH_CANCEL" /\ m.id = id
    <3>1. CASE ep[p].requests[id].state = "Done"
      BY <1>1, <2>2, <3>1, Lasting
    <3>2. CASE ep[p].requests[id].state = "Idle"
      <4>1. e = p
        BY <1>1, <2>2, <3>2
      <4>2. \E m \in Messages : Enrolled(e, t, id, m)
        BY <1>1, <1>4, <1>5, <2>2, <3>2, <4>1 DEF FetchFate, FetchFlows, FetchDecided, FetchServed
      <4>3. ep[p].peer_next_id = id
        BY <4>1, <4>2 DEF Enrolled, Enters
      <4>4. PICK k, n \in DOMAIN wire[p] : k < n /\ wire[p][n].type = "FETCH_CANCEL" /\ wire[p][n].id = id
        BY <1>2, <2>1, <4>3
      <4>5. n \in Nat /\ n > 1
        BY <1>7, <4>4, FlowForth
      <4>6. \E i \in DOMAIN wire'[p] : i + d = n /\ wire'[p][i] = wire[p][n]
        BY <1>7, <4>4, <4>5, FlowForth
      <4> QED
        BY <4>4, <4>6 DEF OnWire
    <3>3. CASE ep[p].requests[id].state \notin {"Idle", "Done"}
      <4>1. PICK m \in OnWire(p) : m.type = "FETCH_CANCEL" /\ m.id = id
        BY <1>3, <1>5, <1>8, <3>3 DEF Cancelled, Asking, Answering
      <4>2. ep[p].requests[id].kind = "fetch"
        BY <1>6, <3>3
      <4>3. ASSUME p = e, Taking(e, t, m)
            PROVE  FALSE
        BY <1>1, <2>2, <4>1, <4>2, <4>3, CancelHeard
      <4> QED
        BY <1>1, <4>1, <4>3, WireStays DEF SetupTypes
    <3> QED
      BY <3>1, <3>2, <3>3
  <2>3. ASSUME ep'[p].peer_next_id <= id
        PROVE  \E k, n \in DOMAIN wire'[p] :
                 /\ k < n /\ wire'[p][k].type \in RequestTypes /\ wire'[p][k].id = id
                 /\ wire'[p][n].type = "FETCH_CANCEL" /\ wire'[p][n].id = id
    <3>1. ep[p].peer_next_id <= id /\ (ep'[p].peer_next_id = ep[p].peer_next_id \/ ep[p].peer_next_id + 2 <= id)
      BY <1>1, <1>2, <2>3, CountsStep
    <3>2. PICK k, n \in DOMAIN wire[p] :
            /\ k < n /\ wire[p][k].type \in RequestTypes /\ wire[p][k].id = id
            /\ wire[p][n].type = "FETCH_CANCEL" /\ wire[p][n].id = id
      BY <2>1, <3>1
    <3>3. k \in Nat /\ n \in Nat /\ k >= 1
      BY <1>7, <3>2, FlowForth
    <3>4. k > d
      <4> SUFFICES ASSUME ~(k > d)
                   PROVE  FALSE
        OBVIOUS
      <4>1. p = e /\ Taking(e, t, wire[p][k])
        BY <1>7, <3>2, FlowForth DEF RequestTypes, SetupTypes
      <4>2. Enters(ep[e], t, wire[p][k])
        BY <1>1, <3>2, <4>1, TakenBy
      <4>3. ep[p].peer_next_id = id /\ ep'[p].peer_next_id = id + 2
        BY <1>1, <3>2, <4>1, <4>2 DEF Enters
      <4> QED
        BY <1>2, <2>3, <4>3
    <3>5. PICK i \in DOMAIN wire'[p] : i + d = k /\ wire'[p][i] = wire[p][k]
      BY <1>7, <3>2, <3>4, FlowForth
    <3>6. PICK j \in DOMAIN wire'[p] : j + d = n /\ wire'[p][j] = wire[p][n]
      BY <1>7, <3>2, <3>3, <3>4, FlowForth
    <3>7. i < j
      BY <1>7, <3>2, <3>3, <3>5, <3>6, FlowBack
    <3> QED
      BY <3>2, <3>5, <3>6, <3>7
  <2> QED
    BY <2>2, <2>3
<1>9. CASE ep[o].requests[id].state # "Done"
  <2>1. e = o /\ ep'[p] = ep[p] /\ t.requests[id].state = "Done"
    BY <1>1, <1>9
  <2>2. verdict[id] # None => ep[p].requests[id].state \notin {"Idle", "Pending", "Unanswered"}
    BY <1>1 DEF Verdicts, Undecided
  <2>3. ep[p].requests[id].state \in {"Idle", "Pending", "Unanswered", "Receiving", "Done"}
    BY <1>1, <1>6 DEF Proper, StatesOf
  <2>4. /\ ep[p].requests[id].state \in {"Idle", "Pending", "Receiving"} => stream[id] = "none"
        /\ ep[o].requests[id].state = "Unanswered" => stream[id] = "finished"
        /\ ep[o].requests[id].state = "Receiving" => verdict[id] = "ok"
    BY <1>3, <1>5 DEF Fetches, Asking, Answering
  <2>5. ASSUME ep[p].requests[id].state = "Done"
        PROVE  ~(ep'[p].peer_next_id <= id)
    <3>1. Counted(ep[p]) /\ o # ep[p].role
      BY <1>1 DEF Counters
    <3> QED
      BY <1>2, <2>1, <2>5, <3>1 DEF Counted, NoRequest
  <2>6. CASE FetchFlows(e, t, id)
    <3>1. stream[id] = "fin" /\ ep[o].requests[id].state = "Receiving"
      BY <1>9, <2>1, <2>6 DEF FetchFlows
    <3>2. ep[p].requests[id].state = "Done"
      BY <2>2, <2>3, <2>4, <3>1, SessionAssumption
    <3> QED
      BY <2>1, <2>5, <3>2
  <2>7. CASE verdict[id] = "ok" /\ ep[e].requests[id].state = "Unanswered"
    <3>1. ep[p].requests[id].state = "Done"
      BY <2>1, <2>2, <2>3, <2>4, <2>7, SessionAssumption
    <3> QED
      BY <2>1, <2>5, <3>1
  <2>8. CASE verdict[id] = "error"
    <3>1. ep[p].requests[id].state = "Done"
      BY <2>8 DEF Refused, Answering
    <3> QED
      BY <2>1, <2>5, <3>1
  <2>9. CASE \E m \in Messages : Parted(e, t, id, m) /\ m.type = "FETCH_CANCEL" /\ m.id = id
    <3>1. PICK m \in Messages : Parted(e, t, id, m) /\ m.type = "FETCH_CANCEL" /\ m.id = id
      BY <2>9
    <3>2. PICK n \in DOMAIN wire'[p] : wire'[p][n] = m /\ \A j \in DOMAIN wire[p] : j < n
      BY <1>1, <2>1, <3>1, PartedWritten
    <3>3. m \in OnWire(p)'
      BY <3>2 DEF OnWire
    <3>4. ASSUME ep'[p].peer_next_id <= id
          PROVE  \E k \in DOMAIN wire'[p] : k < n /\ wire'[p][k].type \in RequestTypes /\ wire'[p][k].id = id
      <4>1. id < ep[o].next_id
        <5>1. Counted(ep[o]) /\ o = ep[o].role
          BY <1>1 DEF Counters
        <5> QED
          BY <1>2, <1>3, <5>1 DEF Counted, NoRequest
      <4>2. PICK q \in OnWire(p) : q.type \in RequestTypes /\ q.id = id
        BY <1>1, <1>2, <2>1, <3>4, <4>1 DEF Sequence
      <4>3. PICK k \in DOMAIN wire[p] : wire[p][k] = q
        BY <4>2 DEF OnWire
      <4>4. k > d
        BY <1>1, <1>7, <2>1, <4>2, <4>3, FlowForth DEF RequestTypes, SetupTypes
      <4>5. PICK i \in DOMAIN wire'[p] : i + d = k /\ wire'[p][i] = wire[p][k]
        BY <1>7, <4>3, <4>4, FlowForth
      <4>6. i < n
        <5>1. i \in Nat /\ n \in Nat /\ d \in Nat
          BY <1>7, <3>2, <4>5, FlowBack
        <5> QED
          BY <3>2, <4>3, <4>5, <5>1
      <4> QED
        BY <4>2, <4>3, <4>5, <4>6
    <3> QED
      BY <3>1, <3>2, <3>3, <3>4
  <2> QED
    BY <1>4, <1>5, <1>9, <2>1, <2>6, <2>7, <2>8, <2>9 DEF FetchFate, FetchHeard
<1> QED
  BY <1>8, <1>9

-----------------------------------------------------------------------------
(* A request for a prefix that was not there before is one that is opened, *)
(* or one that arrives.                                                    *)
LEMMA PrefixOpened ==
  ASSUME Inv, NEW e \in Roles, NEW t, Step(e, t), NEW id \in Ids,
         ep[e].requests[id].kind # "subscribe_namespace",
         t.requests[id].kind = "subscribe_namespace"
  PROVE  \E m \in Messages :
           /\ m.type = "SUBSCRIBE_NAMESPACE" /\ m.id = id /\ m.what = t.requests[id].what
           /\ IF Owner(id) = e THEN Opening(e, t, m) ELSE Enrolled(e, t, id, m)
<1>1. Fate(e, t, id) /\ ep[e].role = e /\ Counted(ep[e])
  BY FateIs, Sides DEF Inv, Counters
<1>2. \A event, alias : ~Changed(ep[e], t, id, event, alias)
  BY DEF Changed
<1>3. ASSUME NEW m \in Messages, Opening(e, t, m), m.id = id, m.type # "SUBSCRIBE_UPDATE"
      PROVE  /\ m.type = "SUBSCRIBE_NAMESPACE" /\ m.what = t.requests[id].what /\ Owner(id) = e
  <2>1. m.type = "SUBSCRIBE_NAMESPACE"
    BY <1>3 DEF Opening, RequestTypes, KindOf
  <2>2. m.what = t.requests[id].what
    BY <1>3, <2>1 DEF Opening, Asked
  <2>3. id = ep[e].next_id
    BY <1>3 DEF Opening, NextId
  <2> QED
    BY <1>1, <2>1, <2>2, <2>3 DEF Counted
<1>4. ASSUME NEW m \in Messages, Enrolled(e, t, id, m)
      PROVE  /\ m.type = "SUBSCRIBE_NAMESPACE" /\ m.id = id /\ m.what = t.requests[id].what /\ Owner(id) # e
  <2>1. m.id = id /\ m.what = t.requests[id].what /\ Owner(id) # e /\ KindOf(m.type) = "subscribe_namespace"
        /\ m.type \in RequestTypes
    BY <1>1, <1>4 DEF Enrolled, Enters
  <2> QED
    BY <2>1 DEF RequestTypes, KindOf
<1>5. ASSUME NEW m \in Messages, Parted(e, t, id, m)
      PROVE  FALSE
  BY <1>5 DEF Parted
<1>6. ASSUME NEW m \in Messages, Deciding(e, t, m), m.id = id
      PROVE  FALSE
  BY <1>2, <1>6 DEF Deciding
<1>7. ASSUME NEW m \in Messages, Affected(e, t, id, m)
      PROVE  FALSE
  BY <1>2, <1>7 DEF Affected
<1>8. PICK m \in Messages :
        \/ Opening(e, t, m) /\ m.id = id /\ m.type # "SUBSCRIBE_UPDATE"
        \/ Enrolled(e, t, id, m)
  BY <1>1, <1>2, <1>5, <1>6, <1>7 DEF Fate
<1> QED
  BY <1>3, <1>4, <1>8

(* No endpoint asks for a prefix it has asked for.                         *)
LEMMA OwnPrefixesKept ==
  ASSUME Inv, OwnPrefixes, NEW e \in Roles, NEW t, Step(e, t)
  PROVE  OwnPrefixes'
<1> SUFFICES ASSUME NEW i \in Ids, NEW j \in Ids, i # j, Owner(i) = Owner(j),
                    ep'[Owner(i)].requests[i].kind = "subscribe_namespace",
                    ep'[Owner(j)].requests[j].kind = "subscribe_namespace",
                    ep'[Owner(i)].requests[i].state # "Done", ep'[Owner(j)].requests[j].state # "Done",
                    ep'[Owner(i)].requests[i].what = ep'[Owner(j)].requests[j].what
             PROVE  FALSE
  BY DEF OwnPrefixes, Asking
<1> DEFINE o == Owner(i)
<1>1. Stepped(e, t) /\ o \in Roles /\ ep'[e] = t /\ (o # e => ep'[o] = ep[o]) /\ ep[e].role = e
  BY Sides DEF Step
<1>2. ASSUME NEW k \in Ids, ep[o].requests[k].kind = "subscribe_namespace",
             ep'[o].requests[k].state # "Done"
      PROVE  ep[o].requests[k].state # "Done" /\ ep[o].requests[k].what = ep'[o].requests[k].what
  BY <1>1, <1>2, Lasting
<1>3. ASSUME NEW k \in Ids, NEW l \in Ids, Owner(k) = o, Owner(l) = o, k # l,
             ep[o].requests[k].kind # "subscribe_namespace",
             ep'[o].requests[k].kind = "subscribe_namespace", ep'[o].requests[l].kind = "subscribe_namespace",
             ep'[o].requests[l].state # "Done", ep'[o].requests[k].what = ep'[o].requests[l].what
      PROVE  FALSE
  <2>1. o = e
    BY <1>1, <1>3
  <2>2. PICK m \in Messages : /\ m.type = "SUBSCRIBE_NAMESPACE" /\ m.id = k /\ m.what = t.requests[k].what
                              /\ Opening(e, t, m)
    BY <1>1, <1>3, <2>1, PrefixOpened
  <2>3. t.requests[l] = ep[e].requests[l] /\ ~own_prefix_overlap(ep[e], m.what)
    BY <1>3, <2>2 DEF Opening, Asked
  <2>4. prefixes_overlap(m.what, m.what)
    BY DEF prefixes_overlap
  <2>5. Overlaps(ep[e].requests[l], m.what)
    BY <1>1, <1>3, <2>1, <2>2, <2>3, <2>4 DEF Overlaps
  <2> QED
    BY <1>1, <1>3, <2>1, <2>3, <2>5 DEF own_prefix_overlap
<1>4. CASE ep[o].requests[i].kind = "subscribe_namespace" /\ ep[o].requests[j].kind = "subscribe_namespace"
  BY <1>1, <1>2, <1>4 DEF OwnPrefixes, Asking
<1> QED
  BY <1>3, <1>4

(* A prefix the peer has been granted is given up by an                    *)
(* UNSUBSCRIBE_NAMESPACE, and by nothing else.                             *)
LEMMA GivenUp ==
  ASSUME Inv, NEW e \in Roles, NEW t, Step(e, t), NEW id \in Ids,
         IsPeers(ep[e], id, "subscribe_namespace"), ep[e].requests[id].state = "Active",
         t.requests[id] # ep[e].requests[id]
  PROVE  \E m \in Messages : Taking(e, t, m) /\ GivesUp(m, ep[e].requests[id].what)
<1>1. Fate(e, t, id) /\ ep[e].role = e /\ Counted(ep[e]) /\ Owner(id) # e
  BY FateIs, Sides DEF Inv, Counters, IsPeers
<1>2. ASSUME NEW m \in Messages, Opening(e, t, m), m.id = id
      PROVE  FALSE
  BY <1>1, <1>2 DEF Opening, NextId, Counted
<1>3. ASSUME NEW m \in Messages, Deciding(e, t, m), m.id = id
      PROVE  FALSE
  BY <1>3, MoveFacts DEF Deciding, Changed, Undecided
<1>4. ASSUME NEW m \in Messages, Enrolled(e, t, id, m)
      PROVE  FALSE
  <2>1. ep[e].peer_next_id = id /\ ep[e].peer_next_id \in Nat
    BY <1>4, Numbers DEF Enrolled, Enters
  <2> QED
    BY <1>1, <2>1 DEF Counted, NoRequest
<1>5. ASSUME NEW m \in Messages, Affected(e, t, id, m)
      PROVE  Taking(e, t, m) /\ GivesUp(m, ep[e].requests[id].what)
  BY <1>1, <1>5 DEF Affected, Concerns, GivesUp, IsOwn, IsPeers, GivenOut, inbound_subscribe_namespace_ids,
       inbound_publish_namespace_ids, own_publish_namespace_ids
<1>6. ASSUME NEW m \in Messages, Parted(e, t, id, m)
      PROVE  FALSE
  BY <1>1, <1>6 DEF Parted, Farewell, Names, Received, GivenOut, IsOwn, IsPeers
<1>7. ASSUME Streaming(e, t, id)
      PROVE  FALSE
  BY <1>7 DEF Streaming, IsPeers
<1> QED
  BY <1>1, <1>2, <1>3, <1>4, <1>5, <1>6, <1>7 DEF Fate

(* And what is given up is found. *)
LEMMA GivesUpHeard ==
  ASSUME Inv, PeerPrefixes, NEW e \in Roles, NEW t, Step(e, t), Open', NEW m, NEW prefix,
         Taking(e, t, m), GivesUp(m, prefix), NEW id \in Ids, Inbound(e, id, prefix),
         ep[e].requests[id].state = "Active"
  PROVE  t.requests[id].state = "Done"
<1>1. m.type = "UNSUBSCRIBE_NAMESPACE" /\ m.what = prefix /\ ep[e].role = e
  BY Sides DEF GivesUp
<1>2. Heeds(ep[e], t, m)
  BY <1>1, TakenBy DEF AboutTypes
<1>3. EventOf(m.type) = "unsubscribe"
  BY <1>1, EventsOf DEF AboutTypes
<1>4. Concerns(ep[e], id, m)
  BY <1>1 DEF Concerns, Inbound, inbound_subscribe_namespace_ids
<1>5. ASSUME NEW j \in Ids, Concerns(ep[e], j, m)
      PROVE  j = id
  <2>1. j \in inbound_subscribe_namespace_ids(ep[e], prefix)
    BY <1>1, <1>5 DEF Concerns, AnswerTypes, OkTypes, ErrorTypes
  <2>2. Inbound(e, j, prefix)
    BY <2>1 DEF inbound_subscribe_namespace_ids, Inbound
  <2> QED
    BY <2>2 DEF PeerPrefixes
<1>6. CanMove(ep[e], id, "unsubscribe")
  <2>1. /\ "subscribe_namespace" \in Kinds /\ ep[e].requests[id].kind = "subscribe_namespace"
        /\ "Active" \in StatesOf("subscribe_namespace")
    BY DEF Inbound, IsPeers, Kinds, StatesOf
  <2> QED
    BY <2>1, Able DEF CanMove
<1>7. Changed(ep[e], t, id, "unsubscribe", BindsTo(ep[e], id, m))
  BY <1>2, <1>3, <1>4, <1>5, <1>6 DEF Heeds
<1> QED
  BY <1>7, MoveFacts DEF Changed

(* While no send is lost, no endpoint has two requests of its peer's for   *)
(* one prefix.                                                             *)
LEMMA PeerPrefixesKept ==
  ASSUME Inv, PeerPrefixes, Prefixes, NEW e \in Roles, NEW t, Step(e, t), Clean'
  PROVE  PeerPrefixes'
<1> DEFINE Now(x, id, prefix) ==
             /\ ep'[x].requests[id].kind = "subscribe_namespace" /\ Owner(id) # x
             /\ ep'[x].requests[id].what = prefix /\ ep'[x].requests[id].state # "Done"
<1> SUFFICES ASSUME NEW x \in Roles, NEW i \in Ids, NEW j \in Ids, NEW prefix,
                    Now(x, i, prefix), Now(x, j, prefix), i # j
             PROVE  FALSE
  <2>1. \A x \in Roles : ep'[x].role = x
    BY Sides
  <2> QED
    BY <2>1 DEF PeerPrefixes, Inbound, IsPeers
<1>1. /\ Stepped(e, t) /\ ep'[e] = t /\ (x # e => ep'[x] = ep[x]) /\ ep[x].role = x /\ ep[e].role = e
  BY Sides DEF Step
<1>2. ASSUME NEW k \in Ids, Now(x, k, prefix), ep[x].requests[k].kind = "subscribe_namespace"
      PROVE  Inbound(x, k, prefix)
  BY <1>1, <1>2, Lasting DEF Inbound, IsPeers
<1>3. ASSUME NEW k \in Ids, Now(x, k, prefix), ep[x].requests[k].kind # "subscribe_namespace"
      PROVE  x = e /\ \E m \in Messages : /\ m.type = "SUBSCRIBE_NAMESPACE" /\ m.id = k /\ m.what = prefix
                                          /\ Taking(e, t, m)
  <2>1. x = e
    BY <1>1, <1>3
  <2> QED
    BY <1>1, <1>3, <2>1, PrefixOpened DEF Enrolled
<1>4. ASSUME NEW k \in Ids, NEW l \in Ids, Now(x, k, prefix), Now(x, l, prefix), k # l,
             ep[x].requests[k].kind # "subscribe_namespace"
      PROVE  FALSE
  <2>1. PICK m \in Messages : /\ m.type = "SUBSCRIBE_NAMESPACE" /\ m.id = k /\ m.what = prefix
                              /\ Taking(e, t, m)
    BY <1>3, <1>4
  <2>2. x = e
    BY <1>3, <1>4
  <2>3. 1 \in DOMAIN wire[e] /\ wire[e][1] = m
    BY <2>1, TakingIs
  <2>4. CASE ep[x].requests[l].kind # "subscribe_namespace"
    <3>1. PICK q \in Messages : q.id = l /\ Taking(e, t, q)
      BY <1>3, <1>4, <2>4
    <3>2. q = m
      BY <2>3, <3>1, TakingIs
    <3> QED
      BY <1>4, <2>1, <3>1, <3>2
  <2>5. CASE ep[x].requests[l].kind = "subscribe_namespace"
    <3>1. Inbound(e, l, wire[e][1].what)
      BY <1>2, <1>4, <2>1, <2>2, <2>3, <2>5
    <3>2. PICK k1 \in DOMAIN wire[e] : k1 < 1
      BY <2>1, <2>3, <3>1 DEF Prefixes
    <3> QED
      BY <3>2, Numbers
  <2> QED
    BY <2>4, <2>5
<1>5. CASE ep[x].requests[i].kind = "subscribe_namespace" /\ ep[x].requests[j].kind = "subscribe_namespace"
  BY <1>2, <1>5 DEF PeerPrefixes
<1> QED
  BY <1>4, <1>5

(* What an endpoint gives up, it was granted.                              *)
LEMMA GrantedFirst ==
  ASSUME AliasInv, SameTarget, NamespaceStates, NEW e \in Roles, NEW t, NEW m, Sent(e, t, m),
         m.type = "UNSUBSCRIBE_NAMESPACE"
  PROVE  \E id \in Ids : /\ Inbound(Peer(e), id, m.what) /\ ep[Peer(e)].requests[id].state = "Active"
                         /\ ep[e].requests[id].state = "Active" /\ t.requests[id].state = "Done"
<1>1. PICK id \in Ids : Farewell(e, t, id, m)
  BY SentBy DEF AboutTypes
<1>2. Inv /\ TypeOK
  BY DEF AliasInv, Inv
<1>3. ep[e].role = e /\ ep[Peer(e)].role = Peer(e) /\ Peer(e) \in Roles /\ Peer(e) # e
  BY <1>2 DEF TypeOK, Roles, Peer
<1>4. /\ ep[e].requests[id].kind = "subscribe_namespace" /\ Owner(id) = e
      /\ m.what = ep[e].requests[id].what /\ t.requests[id].state = "Done"
      /\ ep[e].requests[id].state = "Active"
  BY <1>1, <1>3 DEF Farewell, Names, IsOwn
<1>5. Answering(id).state = "Active"
  BY <1>4 DEF NamespaceStates, Asking
<1>6. Answering(id).kind = "subscribe_namespace"
  BY <1>4, <1>5, DecidedKinds DEF Undecided, Asking
<1>7. Answering(id).what = m.what
  BY <1>4, <1>6 DEF SameTarget, Asking
<1> QED
  BY <1>3, <1>4, <1>5, <1>6, <1>7 DEF Inbound, IsPeers, Answering

(* What is still to be recorded is still wanted. *)
LEMMA StillWanted ==
  ASSUME AliasInv, SameTarget, Sequence, NEW e \in Roles, NEW m \in OnWire(e),
         m.type = "SUBSCRIBE_NAMESPACE"
  PROVE  /\ m.id \in Ids /\ Owner(m.id) = Peer(e) /\ Asking(m.id).kind = "subscribe_namespace"
         /\ Asking(m.id).what = m.what /\ Asking(m.id).state # "Done"
<1>1. Inv /\ Counted(ep[e]) /\ TypeOK
  BY DEF AliasInv, Inv, Counters
<1>2. ep[e].role = e /\ Peer(e) \in Roles /\ Peer(e) # e /\ Peer(Peer(e)) = e
  BY <1>1 DEF TypeOK, Roles, Peer
<1>3. /\ m.id \in Ids /\ m.id \in Nat /\ ep[e].peer_next_id \in Nat /\ Owner(m.id) = Peer(e)
      /\ ep[Peer(e)].requests[m.id].kind = "subscribe_namespace"
  <2>1. m.id \in Ids /\ m.id \in Nat /\ ep[e].peer_next_id \in Nat /\ Meant(e, m)
    BY <1>1, Numbers DEF RequestTypes
  <2> QED
    BY <2>1 DEF Meant, RequestTypes, KindOf
<1>4. ep[Peer(e)].requests[m.id].what = m.what
  BY DEF SameTarget, RequestTypes
<1>5. ep[e].peer_next_id <= m.id
  BY DEF Sequence, RequestTypes
<1>6. ep[e].requests[m.id] = NoRequest
  BY <1>1, <1>2, <1>3, <1>5 DEF Counted
<1>7. ep[Owner(m.id)].requests[m.id].state \in Undecided
  BY <1>2, <1>3, <1>6, StillWaiting DEF NoRequest, Undecided
<1> QED
  BY <1>3, <1>4, <1>7 DEF Asking, Undecided

(* While no send is lost, a prefix is asked for again only behind the      *)
(* message that gives it up.                                               *)
LEMMA PrefixesKept ==
  ASSUME AliasInv, Greeting, Proper, SameTarget, OwnPrefixes, Sequence, PeerPrefixes, Prefixes,
         NamespaceStates, NEW e \in Roles, NEW t, Step(e, t), Clean'
  PROVE  Prefixes'
<1> DEFINE Now(x, id, prefix) ==
             /\ ep'[x].requests[id].kind = "subscribe_namespace" /\ Owner(id) # x
             /\ ep'[x].requests[id].what = prefix /\ ep'[x].requests[id].state # "Done"
<1> SUFFICES ASSUME NEW x \in Roles, NEW n \in DOMAIN wire'[x]
             PROVE  /\ wire'[x][n].type = "SUBSCRIBE_NAMESPACE" =>
                         \A id \in Ids : Now(x, id, wire'[x][n].what) =>
                           \E k \in DOMAIN wire'[x] : k < n /\ GivesUp(wire'[x][k], wire'[x][n].what)
                    /\ wire'[x][n].type = "UNSUBSCRIBE_NAMESPACE" =>
                         /\ \E id \in Ids : /\ Now(x, id, wire'[x][n].what)
                                            /\ ep'[Peer(x)].requests[id].state = "Done"
                                            /\ ep'[x].requests[id].state = "Active"
                         /\ \A k \in DOMAIN wire'[x] : GivesUp(wire'[x][k], wire'[x][n].what) => k = n
  <2>1. \A x \in Roles : ep'[x].role = x
    BY Sides DEF AliasInv
  <2> QED
    BY <2>1 DEF Prefixes, Inbound, IsPeers, GivesUp
<1>1. /\ Inv /\ Agree /\ Stepped(e, t) /\ Open' /\ ep'[e] = t /\ ep'[Peer(e)] = ep[Peer(e)]
      /\ (x # e => x = Peer(e) /\ Peer(x) = e) /\ ep[x].role = x /\ ep[e].role = e
      /\ Peer(x) \in Roles /\ Peer(x) # x
  BY Sides DEF AliasInv, Step, Clean
<1>2. PICK d \in {0, 1} : Flow(e, t, x, d)
  BY <1>1, WireStep
<1>3. n \in Nat /\ d \in Nat
  BY <1>2, FlowBack
<1>4. ASSUME NEW id \in Ids, Inbound(x, id, ep[x].requests[id].what), ep'[x].requests[id].state # "Done"
      PROVE  Now(x, id, ep[x].requests[id].what)
  BY <1>1, <1>4, Lasting DEF Inbound, IsPeers
<1>5. ASSUME wire'[x][n].type = "SUBSCRIBE_NAMESPACE", NEW id \in Ids, Now(x, id, wire'[x][n].what)
      PROVE  \E k \in DOMAIN wire'[x] : k < n /\ GivesUp(wire'[x][k], wire'[x][n].what)
  <2> DEFINE prefix == wire'[x][n].what
  <2>1. wire'[x][n].type \notin SetupTypes
    BY <1>5 DEF SetupTypes
  <2>2. CASE n + d \in DOMAIN wire[x]
    <3>1. wire'[x][n] = wire[x][n + d]
      BY <1>2, <2>2, FlowBack
    <3>2. CASE ep[x].requests[id].kind = "subscribe_namespace"
      <4>1. Inbound(x, id, prefix)
        BY <1>1, <1>5, <3>2, Lasting DEF Inbound, IsPeers
      <4>2. PICK k \in DOMAIN wire[x] : k < n + d /\ GivesUp(wire[x][k], prefix)
        BY <1>5, <2>2, <3>1, <4>1 DEF Prefixes
      <4>3. wire[x][k].type = "UNSUBSCRIBE_NAMESPACE" /\ wire[x][k].what = prefix
        BY <4>2 DEF GivesUp
      <4>4. k > d
        <5> SUFFICES ASSUME ~(k > d)
                     PROVE  FALSE
          OBVIOUS
        <5>1. x = e /\ Taking(e, t, wire[x][k])
          BY <1>2, <4>3, FlowForth DEF SetupTypes
        <5>2. ep[x].requests[id].state = "Active"
          <6>1. PICK j \in Ids : Inbound(x, j, prefix) /\ ep[x].requests[j].state = "Active"
            BY <4>3 DEF Prefixes
          <6> QED
            BY <4>1, <6>1 DEF PeerPrefixes
        <5> QED
          BY <1>1, <1>5, <4>1, <4>2, <5>1, <5>2, GivesUpHeard
      <4>5. PICK i \in DOMAIN wire'[x] : i + d = k /\ wire'[x][i] = wire[x][k]
        BY <1>2, <4>4, FlowForth
      <4>6. i < n
        BY <1>2, <1>3, <4>2, <4>5, FlowBack
      <4> QED
        BY <4>2, <4>5, <4>6
    <3>3. CASE ep[x].requests[id].kind # "subscribe_namespace"
      <4>1. x = e
        BY <1>1, <1>5, <3>3
      <4>2. PICK m \in Messages : /\ m.type = "SUBSCRIBE_NAMESPACE" /\ m.id = id /\ m.what = prefix
                                  /\ Taking(e, t, m)
        BY <1>1, <1>5, <3>3, <4>1, PrefixOpened DEF Enrolled
      <4>3. d = 1 /\ 1 \in DOMAIN wire[e] /\ wire[e][1] = m
        BY <1>1, <1>2, <4>1, <4>2, FlowTaken
      <4>4. m \in OnWire(e) /\ wire'[x][n] \in OnWire(e)
        BY <2>2, <3>1, <4>1, <4>3 DEF OnWire
      <4>5. 1 < n + 1
        BY <1>2, <1>3, FlowBack
      <4>6. m.id < wire'[x][n].id
        BY <1>1, <1>5, <2>2, <3>1, <4>1, <4>2, <4>3, <4>5 DEF Sequence, RequestTypes
      <4>7. m.id # wire'[x][n].id
        BY <1>1, <1>5, <4>1, <4>2, <4>4, <4>6, StillWanted, EndpointAssumption
      <4> QED
        BY <1>5, <4>2, <4>4, <4>7, StillWanted DEF OwnPrefixes
    <3> QED
      BY <3>2, <3>3
  <2>3. CASE n + d \notin DOMAIN wire[x]
    <3> DEFINE m == wire'[x][n]
    <3>1. x = Peer(e) /\ Opening(e, t, m) /\ x # e /\ Peer(x) = e
      BY <1>1, <1>2, <1>5, <2>1, <2>3, FlowBack, SentBy DEF RequestTypes
    <3>2. /\ ep[x].requests[id].kind = "subscribe_namespace" /\ Owner(id) = e
          /\ ep[x].requests[id].what = prefix /\ ep[x].requests[id].state # "Done"
      BY <1>1, <1>5, <3>1, Sides
    <3>3. Asking(id).kind = "subscribe_namespace" /\ Asking(id).what = prefix /\ Asking(id) = ep[e].requests[id]
      BY <1>1, <3>1, <3>2, Records DEF Asking
    <3>4. ~own_prefix_overlap(ep[e], prefix)
      BY <1>5, <3>1 DEF Opening, Asked
    <3>5. Asking(id).state = "Done"
      <4>1. prefixes_overlap(prefix, prefix)
        BY DEF prefixes_overlap
      <4> QED
        BY <1>1, <3>2, <3>3, <3>4, <4>1 DEF own_prefix_overlap, Overlaps
    <3>6. Answering(id).state = "Active"
      <4>1. Answering(id) = ep[x].requests[id]
        BY <3>1, <3>2 DEF Answering
      <4>2. Answering(id).state \notin Undecided
        BY <3>3, <3>5, StillWaiting DEF Asking, Answering, Undecided
      <4>3. Answering(id).state \in {"Pending", "Active", "Done"}
        BY <3>2, <4>1 DEF Proper, StatesOf
      <4> QED
        BY <3>2, <4>1, <4>2, <4>3 DEF Undecided
    <3>7. PICK q \in OnWire(x) : GivesUp(q, prefix)
      BY <3>1, <3>2, <3>3, <3>5, <3>6 DEF NamespaceStates
    <3>8. PICK k \in DOMAIN wire[x] : wire[x][k] = q
      BY <3>7 DEF OnWire
    <3>9. k > d
      BY <1>2, <3>1, <3>7, <3>8, FlowForth DEF GivesUp, SetupTypes
    <3>10. PICK i \in DOMAIN wire'[x] : i + d = k /\ wire'[x][i] = wire[x][k]
      BY <1>2, <3>8, <3>9, FlowForth
    <3>11. i < n
      BY <1>2, <2>3, <3>8, <3>10, FlowOrder
    <3> QED
      BY <3>7, <3>8, <3>10, <3>11
  <2> QED
    BY <2>2, <2>3
<1>6. ASSUME NEW i \in DOMAIN wire'[x], wire'[x][i].type = "UNSUBSCRIBE_NAMESPACE",
             i + d \notin DOMAIN wire[x]
      PROVE  /\ x = Peer(e) /\ x # e
             /\ \E id \in Ids : /\ Inbound(x, id, wire'[x][i].what) /\ ep[x].requests[id].state = "Active"
                                /\ ep[e].requests[id].state = "Active" /\ t.requests[id].state = "Done"
  <2>1. x = Peer(e) /\ Sent(e, t, wire'[x][i])
    BY <1>2, <1>6, FlowBack DEF SetupTypes
  <2>2. x # e
    BY <2>1, Sides, <1>1
  <2> QED
    BY <1>6, <2>1, <2>2, GrantedFirst
<1>7. ASSUME NEW i \in DOMAIN wire'[x], wire'[x][i].type = "UNSUBSCRIBE_NAMESPACE",
             i + d \in DOMAIN wire[x]
      PROVE  /\ wire'[x][i] = wire[x][i + d]
             /\ \E id \in Ids : /\ Inbound(x, id, wire'[x][i].what) /\ ep[x].requests[id].state = "Active"
                                /\ ep[Peer(x)].requests[id].state = "Done"
             /\ \A k \in DOMAIN wire[x] : GivesUp(wire[x][k], wire'[x][i].what) => k = i + d
  <2>1. wire'[x][i] = wire[x][i + d]
    BY <1>2, <1>7, FlowBack
  <2> QED
    BY <1>7, <2>1 DEF Prefixes
<1>8. ASSUME wire'[x][n].type = "UNSUBSCRIBE_NAMESPACE"
      PROVE  \E id \in Ids : /\ Now(x, id, wire'[x][n].what)
                             /\ ep'[Peer(x)].requests[id].state = "Done"
                             /\ ep'[x].requests[id].state = "Active"
  <2>1. CASE n + d \in DOMAIN wire[x]
    <3>1. PICK id \in Ids : /\ Inbound(x, id, wire'[x][n].what) /\ ep[x].requests[id].state = "Active"
                            /\ ep[Peer(x)].requests[id].state = "Done"
      BY <1>7, <1>8, <2>1
    <3>2. ep'[Peer(x)].requests[id].state = "Done"
      BY <1>1, <3>1, Lasting
    <3>3. ep'[x].requests[id] = ep[x].requests[id]
      <4>1. CASE x # e
        BY <1>1, <4>1
      <4>2. CASE x = e
        <5> SUFFICES ASSUME t.requests[id] # ep[e].requests[id]
                     PROVE  FALSE
          BY <1>1, <4>2
        <5>1. PICK m \in Messages : Taking(e, t, m) /\ GivesUp(m, ep[e].requests[id].what)
          BY <1>1, <3>1, <4>2, GivenUp DEF Inbound
        <5>2. d = 1 /\ 1 \in DOMAIN wire[x] /\ wire[x][1] = m
          BY <1>1, <1>2, <4>2, <5>1, FlowTaken
        <5>3. GivesUp(wire[x][1], wire'[x][n].what)
          BY <3>1, <4>2, <5>1, <5>2 DEF Inbound
        <5>4. 1 = n + d
          BY <1>7, <1>8, <2>1, <5>2, <5>3
        <5> QED
          BY <1>2, <1>3, <5>2, <5>4, FlowBack
      <4> QED
        BY <4>1, <4>2
    <3> QED
      BY <1>1, <3>1, <3>2, <3>3 DEF Inbound, IsPeers
  <2>2. CASE n + d \notin DOMAIN wire[x]
    <3>1. PICK id \in Ids : /\ Inbound(x, id, wire'[x][n].what) /\ ep[x].requests[id].state = "Active"
                            /\ t.requests[id].state = "Done"
      BY <1>6, <1>8, <2>2
    <3>2. x = Peer(e) /\ Peer(x) = e /\ ep'[x] = ep[x] /\ ep'[Peer(x)] = t
      BY <1>1, <1>6, <1>8, <2>2
    <3> QED
      BY <1>1, <3>1, <3>2 DEF Inbound, IsPeers
  <2> QED
    BY <2>1, <2>2
<1>9. ASSUME NEW i \in DOMAIN wire'[x], NEW k \in DOMAIN wire'[x],
             i + d \in DOMAIN wire[x], k + d \notin DOMAIN wire[x],
             wire'[x][i].type = "UNSUBSCRIBE_NAMESPACE", wire'[x][k].type = "UNSUBSCRIBE_NAMESPACE",
             wire'[x][i].what = wire'[x][k].what
      PROVE  FALSE
  <2>1. PICK id \in Ids : Inbound(x, id, wire'[x][i].what) /\ ep[Peer(x)].requests[id].state = "Done"
    BY <1>7, <1>9
  <2>2. PICK j \in Ids : Inbound(x, j, wire'[x][k].what) /\ ep[e].requests[j].state = "Active"
    BY <1>6, <1>9
  <2>3. Peer(x) = e
    BY <1>1, <1>6, <1>9
  <2>4. j = id
    BY <1>9, <2>1, <2>2 DEF PeerPrefixes
  <2> QED
    BY <2>1, <2>2, <2>3, <2>4
<1>10. ASSUME wire'[x][n].type = "UNSUBSCRIBE_NAMESPACE",
              NEW k \in DOMAIN wire'[x], GivesUp(wire'[x][k], wire'[x][n].what)
       PROVE  k = n
  <2>1. wire'[x][k].type = "UNSUBSCRIBE_NAMESPACE" /\ wire'[x][k].what = wire'[x][n].what /\ k \in Nat
    BY <1>2, <1>10, FlowBack DEF GivesUp
  <2>2. CASE n + d \in DOMAIN wire[x] /\ k + d \in DOMAIN wire[x]
    <3>1. wire'[x][k] = wire[x][k + d]
      BY <1>2, <2>2, FlowBack
    <3>2. k + d = n + d
      BY <1>7, <1>10, <2>2, <3>1
    <3> QED
      BY <1>3, <2>1, <3>2
  <2>3. CASE n + d \notin DOMAIN wire[x] /\ k + d \notin DOMAIN wire[x]
    <3>1. n = k \/ wire'[x][n].type \in {"UNSUBSCRIBE", "FETCH_CANCEL"}
      BY <1>2, <2>3 DEF Flow
    <3> QED
      BY <1>10, <3>1
  <2> QED
    BY <1>9, <1>10, <2>1, <2>2, <2>3
<1> QED
  BY <1>5, <1>8, <1>10

(* While no send is lost, a prefix that is granted is granted at both      *)
(* ends, but for what is on its way.                                       *)
LEMMA NamespaceStatesKept ==
  ASSUME AliasInv, Greeting, Proper, SameTarget, Refused, PeerPrefixes, Prefixes, NamespaceStates,
         NEW e \in Roles, NEW t, Step(e, t), Clean'
  PROVE  NamespaceStates'
<1> SUFFICES ASSUME NEW id \in Ids, ep'[Owner(id)].requests[id].kind = "subscribe_namespace"
             PROVE  LET a1 == ep'[Owner(id)].requests[id]
                        b1 == ep'[Peer(Owner(id))].requests[id]
                    IN  /\ a1.state = "Active" => b1.state = "Active"
                        /\ verdict'[id] = "ok" /\ a1.state \in Undecided => b1.state = "Active"
                        /\ a1.state = "Done" /\ b1.state = "Active" =>
                             \E m \in OnWire(Peer(Owner(id)))' : GivesUp(m, a1.what)
  BY DEF NamespaceStates, Asking, Answering, GivesUp
<1> DEFINE o == Owner(id)
           p == Peer(o)
           a == ep[o].requests[id]
           b == ep[p].requests[id]
           a1 == ep'[o].requests[id]
           b1 == ep'[p].requests[id]
<1>1. /\ Inv /\ Agree /\ Verdicts /\ Counters /\ Stepped(e, t) /\ Open' /\ dropped' = 0
      /\ o \in Roles /\ p \in Roles /\ p # o /\ Peer(p) = o /\ ep[e].role = e /\ ep[p].role = p
      /\ (e = p => ep'[o] = ep[o] /\ ep'[p] = t) /\ (e # p => e = o /\ ep'[p] = ep[p] /\ ep'[o] = t)
  BY Sides DEF AliasInv, Inv, Step, Clean
<1>2. CASE a.kind # "subscribe_namespace"
  <2>1. e = o /\ a.kind = "none"
    BY <1>1, <1>2, Lasting
  <2>2. b.kind = "none"
    BY <1>1, <2>1 DEF Agree
  <2>3. a = NoRequest /\ b = NoRequest
    BY <1>1, <2>1, <2>2 DEF Counters, Counted
  <2>4. Fresh(e, t, id)
    <3>1. \A event : ~Turned(e, t, id, event)
      BY <2>1, MoveFacts DEF Turned, Kinds
    <3> QED
      BY <1>1, <1>2, <2>1, <3>1, RecordStep DEF Kept
  <2>5. a1.state = "Pending" /\ verdict'[id] = verdict[id]
    BY <1>1, <2>1, <2>4 DEF Fresh, Opened
  <2>6. verdict[id] = None
    BY <1>1, <2>3 DEF Verdicts, NoRequest, Undecided
  <2> QED
    BY <2>5, <2>6, SessionAssumption
<1>3. CASE a.kind = "subscribe_namespace"
  <2>1. a1.what = a.what
    BY <1>1, <1>3, Lasting
  <2>2. ASSUME b.state = "Active"
        PROVE  Inbound(p, id, a.what) /\ IsPeers(ep[p], id, "subscribe_namespace") /\ b.what = a.what
    <3>1. b.kind = "subscribe_namespace"
      BY <1>3, <2>2, DecidedKinds DEF Asking, Answering, Undecided
    <3>2. b.what = a.what
      BY <3>1 DEF SameTarget, Asking, Answering
    <3> QED
      BY <1>1, <2>2, <3>1, <3>2 DEF Inbound, IsPeers
  <2>3. ASSUME b.state = "Active", a1.state # "Done"
        PROVE  b1.state = "Active"
    <3> SUFFICES ASSUME b1 # b
                 PROVE  FALSE
      BY <2>3
    <3>1. e = p /\ t.requests[id] # ep[e].requests[id]
      BY <1>1
    <3>2. PICK m \in Messages : Taking(e, t, m) /\ GivesUp(m, a.what)
      BY <1>1, <2>2, <2>3, <3>1, GivenUp
    <3>3. 1 \in DOMAIN wire[p] /\ wire[p][1] = m
      BY <1>1, <3>1, <3>2, TakingIs
    <3>4. PICK j \in Ids : Inbound(p, j, a.what) /\ ep[o].requests[j].state = "Done"
      BY <1>1, <3>2, <3>3 DEF Prefixes, GivesUp
    <3>5. j = id
      BY <1>1, <2>2, <2>3, <3>4 DEF PeerPrefixes
    <3> QED
      BY <1>1, <2>3, <3>4, <3>5, Lasting
  <2>4. ASSUME a1.state = "Active"
        PROVE  b1.state = "Active"
    <3>1. CASE a.state = "Active"
      <4>1. b.state = "Active"
        BY <1>3, <3>1 DEF NamespaceStates, Asking, Answering
      <4> QED
        BY <2>3, <2>4, <4>1
    <3>2. CASE a.state # "Active"
      <4>1. e = o
        BY <1>1, <2>4, <3>2
      <4>2. PICK m \in Messages :
              /\ m.type \in OkTypes /\ m.id = id /\ m \in OnWire(e)
              /\ Changed(ep[e], t, id, "ok", BindsTo(ep[e], id, m))
        BY <1>1, <2>4, <3>2, <4>1, BecomesActive
      <4>3. verdict[id] = "ok"
        BY <1>1, <4>2, Numbers DEF Meant
      <4>4. a.state \in Undecided
        BY <4>1, <4>2, MoveFacts DEF Changed
      <4>5. b.state = "Active"
        BY <1>3, <4>3, <4>4 DEF NamespaceStates, Asking, Answering
      <4> QED
        BY <1>1, <4>1, <4>5
    <3> QED
      BY <3>1, <3>2
  <2>5. ASSUME verdict'[id] = "ok", a1.state \in Undecided
        PROVE  b1.state = "Active"
    <3>1. a.state \in Undecided
      BY <1>1, <2>5, Lasting
    <3>2. CASE verdict[id] = "ok"
      <4>1. b.state = "Active"
        BY <1>3, <3>1, <3>2 DEF NamespaceStates, Asking, Answering
      <4> QED
        BY <2>3, <2>5, <4>1 DEF Undecided
    <3>3. CASE verdict[id] # "ok"
      <4>1. PICK m \in Messages : Deciding(e, t, m) /\ m.id = id
        BY <1>1, <2>5, <3>3, VerdictGiven
      <4>2. e = p /\ m.type \in OkTypes
        <5>1. verdict'[id] = IF m.type \in OkTypes THEN "ok" ELSE "error"
          BY <1>1, <4>1 DEF Deciding, Inv, TypeOK
        <5> QED
          BY <1>1, <2>5, <4>1, <5>1 DEF Deciding, IsPeers
      <4>3. <<b.state, "ok", b1.state>> \in Moves(b.kind)
        BY <1>1, <4>1, <4>2 DEF Deciding, Changed
      <4>4. b.kind = "subscribe_namespace"
        <5>1. b.kind \in Kinds
          BY <4>3, MoveFacts
        <5> QED
          BY <1>1, <1>3, <5>1 DEF Agree, Kinds
      <4> QED
        BY <4>3, <4>4, Moving
    <3> QED
      BY <3>2, <3>3
  <2>6. ASSUME a1.state = "Done", b1.state = "Active"
        PROVE  \E m \in OnWire(p)' : GivesUp(m, a.what)
    <3>1. CASE a.state = "Done" /\ b.state = "Active"
      <4>1. PICK m \in OnWire(p) : GivesUp(m, a.what)
        BY <1>3, <3>1 DEF NamespaceStates, Asking, Answering
      <4>2. ASSUME p = e, Taking(e, t, m)
            PROVE  FALSE
        <5>1. Inbound(e, id, a.what) /\ ep[e].requests[id].state = "Active"
          BY <2>2, <3>1, <4>2
        <5>2. t.requests[id].state = "Done"
          BY <1>1, <4>1, <4>2, <5>1, GivesUpHeard
        <5> QED
          BY <1>1, <2>6, <4>2, <5>2
      <4> QED
        BY <1>1, <4>1, <4>2, WireStays DEF GivesUp, SetupTypes
    <3>2. CASE a.state = "Done" /\ b.state # "Active"
      <4>1. e = p
        BY <1>1, <2>6, <3>2
      <4>2. PICK m \in Messages : Deciding(e, t, m) /\ m.id = id
        BY <1>1, <2>6, <3>2, <4>1, BecomesActive
      <4>3. b.state \in Undecided
        BY <4>1, <4>2, MoveFacts DEF Deciding, Changed
      <4>4. a.state \in Undecided
        BY <1>3, <4>3, StillWaiting
      <4> QED
        BY <3>2, <4>4 DEF Undecided
    <3>3. CASE a.state # "Done"
      <4>1. e = o /\ b.state = "Active" /\ t.requests[id].state = "Done" /\ Peer(e) = p
        BY <1>1, <2>6, <3>3
      <4>2. a.kind \in Kinds /\ a.state \in {"Pending", "Active"}
        BY <1>1, <1>3, <3>3 DEF Proper, StatesOf, Kinds
      <4>3. CASE a.state = "Pending"
        <5>1. PICK m \in Messages : m.type \in AnswerTypes /\ m.id = id /\ Affected(e, t, id, m)
          BY <1>1, <1>3, <4>1, <4>3, Waits DEF Undecided
        <5>2. Meant(e, m) /\ m.type \in AnswerTypes \union EndTypes \union AboutTypes
          BY <1>1, <5>1, TakingIs DEF Affected
        <5>3. CASE m.type \in OkTypes
          <6>1. EventOf(m.type) = "ok"
            BY <5>2, <5>3, EventsOf
          <6>2. t.requests[id].state = "Active"
            BY <1>3, <4>1, <5>1, <6>1, Moving DEF Affected, Changed
          <6> QED
            BY <4>1, <6>2
        <5>4. CASE m.type \in ErrorTypes
          <6>1. verdict[id] = "error"
            BY <5>1, <5>2, <5>4 DEF Meant
          <6> QED
            BY <4>1, <6>1 DEF Refused, Answering
        <5> QED
          BY <5>1, <5>3, <5>4 DEF AnswerTypes
      <4>4. CASE a.state = "Active"
        <5>1. Fate(e, t, id) /\ t.requests[id] # ep[e].requests[id]
          BY <1>1, <4>1, <4>4, FateIs
        <5>2. ASSUME NEW m \in Messages, Opening(e, t, m), m.id = id
              PROVE  FALSE
          <6>1. m.id = ep[e].next_id /\ ep[e].next_id \in Nat
            BY <1>1, <5>2, Numbers DEF Opening, NextId
          <6> QED
            BY <1>1, <1>3, <4>1, <5>2, <6>1 DEF Counters, Counted, NoRequest
        <5>3. ASSUME NEW m \in Messages, Deciding(e, t, m), m.id = id
              PROVE  FALSE
          BY <1>1, <4>1, <5>3 DEF Deciding, IsPeers
        <5>4. ASSUME NEW m \in Messages, Enrolled(e, t, id, m)
              PROVE  FALSE
          BY <1>1, <4>1, <5>4 DEF Enrolled, Enters
        <5>5. ASSUME NEW m \in Messages, Affected(e, t, id, m)
              PROVE  FALSE
          <6>1. m.type \in AnswerTypes
            BY <1>1, <1>3, <4>1, <5>5 DEF Affected, Concerns, IsOwn, IsPeers, GivenOut,
                 inbound_subscribe_namespace_ids, inbound_publish_namespace_ids, own_publish_namespace_ids
          <6>2. EventOf(m.type) \in {"ok", "error"}
            BY <6>1, EventsOf DEF AnswerTypes
          <6> QED
            BY <4>1, <4>4, <5>5, <6>2, MoveFacts DEF Affected, Changed, Undecided
        <5>6. ASSUME Streaming(e, t, id)
              PROVE  FALSE
          BY <1>3, <4>1, <5>6 DEF Streaming
        <5>7. PICK m \in Messages : Parted(e, t, id, m)
          BY <5>1, <5>2, <5>3, <5>4, <5>5, <5>6 DEF Fate
        <5>8. GivesUp(m, a.what)
          BY <1>1, <1>3, <4>1, <5>7 DEF Parted, Farewell, Names, GivesUp, IsOwn, IsPeers, Received, GivenOut
        <5> QED
          BY <1>1, <4>1, <5>7, <5>8, PartedWritten
      <4> QED
        BY <4>2, <4>3, <4>4
    <3> QED
      BY <2>6, <3>1, <3>2, <3>3
  <2> QED
    BY <2>1, <2>4, <2>5, <2>6
<1> QED
  BY <1>2, <1>3

-----------------------------------------------------------------------------
(* What is invariant, and is enough for SettledAgreement. *)
Underway == Answered /\ Cancelled /\ PeerPrefixes /\ Prefixes /\ NamespaceStates

Pact == Conduct /\ Decided /\ Fetches /\ OwnPrefixes /\ (Clean => Underway)

(* It holds at the start, *)
LEMMA InitPact ==
  ASSUME Init
  PROVE  Pact
<1>1. Conduct
  BY InitConduct
<1>2. \A e \in Roles : OnWire(e) = {} /\ DOMAIN wire[e] = {} /\ \A id \in Ids : ep[e].requests[id] = NoRequest
  BY DEF Init, new, OnWire
<1>3. \A id \in Ids : Asking(id) = NoRequest /\ Answering(id) = NoRequest
  BY <1>2, RolesAre DEF Asking, Answering
<1>4. Decided
  BY <1>3 DEF Decided, NoRequest, Undecided
<1>5. Fetches
  BY <1>3 DEF Fetches, NoRequest, Init
<1>6. OwnPrefixes /\ NamespaceStates /\ Cancelled
  BY <1>3 DEF OwnPrefixes, NamespaceStates, Cancelled, NoRequest
<1>7. Answered
  BY DEF Answered, Init
<1>8. PeerPrefixes /\ Prefixes
  BY <1>2 DEF PeerPrefixes, Prefixes, Inbound, IsPeers, NoRequest
<1> QED
  BY <1>1, <1>4, <1>5, <1>6, <1>7, <1>8 DEF Pact, Underway

(* is kept by every step, *)
LEMMA StepPact ==
  ASSUME Pact, NEW e \in Roles, NEW t, Step(e, t)
  PROVE  Decided' /\ Fetches' /\ OwnPrefixes' /\ (Clean' => Underway')
<1>1. /\ AliasInv /\ Inv /\ Greeting /\ Proper /\ SameTarget /\ Replies /\ Refused
      /\ Decided /\ Fetches /\ OwnPrefixes
      /\ Clean => Sequence /\ Answered /\ Cancelled /\ PeerPrefixes /\ Prefixes /\ NamespaceStates
  BY DEF Pact, Conduct, Rules, InOrder, AliasInv, Underway
<1>2. Decided' /\ Fetches' /\ OwnPrefixes'
  BY <1>1, DecidedKept, FetchesKept, OwnPrefixesKept
<1>3. ASSUME Clean'
      PROVE  Underway'
  <2>1. Sequence /\ Answered /\ Cancelled /\ PeerPrefixes /\ Prefixes /\ NamespaceStates
    BY <1>1, <1>3, StepFrame
  <2>2. Answered' /\ Cancelled'
    BY <1>1, <1>3, <2>1, AnsweredKept, CancelledKept
  <2>3. PeerPrefixes' /\ Prefixes'
    BY <1>1, <1>3, <2>1, PeerPrefixesKept, PrefixesKept
  <2>4. NamespaceStates'
    BY <1>1, <1>3, <2>1, NamespaceStatesKept
  <2> QED
    BY <2>2, <2>3, <2>4 DEF Underway
<1> QED
  BY <1>2, <1>3

(* and by one that changes nothing, *)
LEMMA StillPact ==
  ASSUME Pact, UNCHANGED vars
  PROVE  Decided' /\ Fetches' /\ OwnPrefixes' /\ (Clean' => Underway')
<1>1. /\ ep' = ep /\ wire' = wire /\ verdict' = verdict /\ stream' = stream /\ dropped' = dropped
      /\ \A e : OnWire(e)' = OnWire(e)
  BY DEF vars, OnWire
<1>2. /\ \A id : Asking(id)' = Asking(id) /\ Answering(id)' = Answering(id)
      /\ \A e, id, prefix : Inbound(e, id, prefix)' = Inbound(e, id, prefix)
      /\ Clean' = Clean
  BY <1>1 DEF Asking, Answering, Inbound, IsPeers, Clean, Open
<1>3. /\ Decided /\ Fetches /\ OwnPrefixes
      /\ Clean => Answered /\ Cancelled /\ PeerPrefixes /\ Prefixes /\ NamespaceStates
  BY DEF Pact, Underway
<1>4. Decided' /\ OwnPrefixes'
  BY <1>1, <1>2, <1>3 DEF Decided, OwnPrefixes
<1>5. Fetches'
  BY <1>1, <1>2, <1>3 DEF Fetches
<1>6. Clean' => Answered' /\ Cancelled'
  BY <1>1, <1>2, <1>3 DEF Answered, Cancelled
<1>7. Clean' => PeerPrefixes' /\ NamespaceStates'
  BY <1>1, <1>2, <1>3 DEF PeerPrefixes, NamespaceStates, GivesUp
<1>8. Clean' => Prefixes'
  BY <1>1, <1>2, <1>3 DEF Prefixes, GivesUp, Inbound
<1> QED
  BY <1>4, <1>5, <1>6, <1>7, <1>8 DEF Underway

(* and so is inductive. *)
LEMMA NextPact ==
  ASSUME Pact, [Next]_vars
  PROVE  Pact'
<1>1. Conduct'
  BY NextConduct DEF Pact
<1>2. CASE Next
  <2>1. \E e \in Roles : \E t \in Endpoints : Step(e, t)
    BY <1>2, NextShape DEF Pact, Conduct, AliasInv
  <2> QED
    BY <1>1, <2>1, StepPact DEF Pact
<1>3. CASE UNCHANGED vars
  BY <1>1, <1>3, StillPact DEF Pact
<1> QED
  BY <1>2, <1>3

(* A request that both ends have, and that is no fetch, is in one state at *)
(* both when nothing is on its way.                                        *)
LEMMA RequestSettled ==
  ASSUME Pact, Clean, Settled, NEW id \in Ids, ~Reannounced(id), Asking(id).kind # "none",
         Answering(id).kind = Asking(id).kind, Asking(id).kind # "fetch"
  PROVE  Asking(id).state = Answering(id).state
<1> DEFINE kind == Asking(id).kind
<1>1. /\ AliasInv /\ Proper /\ Decided /\ Answered /\ Over /\ NamespaceStates
  BY DEF Pact, Conduct, Rules, InOrder, Underway
<1>2. Owner(id) \in Roles /\ Peer(Owner(id)) \in Roles /\ Peer(Peer(Owner(id))) = Owner(id)
  BY RolesAre
<1>3. \A e \in Roles : OnWire(e) = {}
  BY DEF Settled, OnWire, Roles
<1>4. kind \in Kinds /\ Asking(id).state \in StatesOf(kind) /\ Answering(id).state \in StatesOf(kind)
  <2>1. Asking(id).state \in StatesOf(kind) /\ Answering(id).state \in StatesOf(kind)
    BY <1>1, <1>2 DEF Proper, Asking, Answering
  <2>2. kind \in Kinds \union {"none"}
    BY <1>1, <1>2 DEF AliasInv, Inv, TypeOK, Endpoints, Requests, Asking
  <2> QED
    BY <2>1, <2>2
<1>5. CASE Answering(id).state \in Undecided
  <2>1. Asking(id).state \in Undecided
    BY <1>1, <1>5, StillWaiting DEF Asking, Answering
  <2> QED
    BY <1>4, <1>5, <2>1 DEF StatesOf, Kinds, Undecided
<1>6. CASE Answering(id).state \notin Undecided
  <2>1. verdict[id] # None
    BY <1>1, <1>6 DEF Decided
  <2>2. Asking(id).state \notin Undecided
    BY <1>1, <1>2, <1>3, <2>1 DEF Answered
  <2>3. Asking(id).state \in {"Active", "Done"} /\ Answering(id).state \in {"Active", "Done"}
    BY <1>4, <1>6, <2>2 DEF StatesOf, Kinds, Undecided
  <2>4. CASE kind \in {"subscribe", "publish", "publish_namespace"}
    <3>1. Plain(id)
      BY <2>4 DEF Plain
    <3>2. \A e \in Roles : ~(ep[e].requests[id].state = "Active" /\ ep[Peer(e)].requests[id].state = "Done")
      BY <1>1, <1>3, <3>1 DEF Over
    <3> QED
      BY <1>2, <2>3, <3>2 DEF Asking, Answering
  <2>5. CASE kind = "subscribe_namespace"
    BY <1>1, <1>2, <1>3, <2>3, <2>5 DEF NamespaceStates
  <2>6. CASE kind = "track_status"
    BY <1>4, <1>6, <2>2, <2>6 DEF StatesOf, Undecided
  <2> QED
    BY <1>4, <2>4, <2>5, <2>6 DEF Kinds
<1> QED
  BY <1>5, <1>6

(* So is a fetch whose stream was not reset. *)
LEMMA FetchSettled ==
  ASSUME Pact, Clean, Settled, NEW id \in Ids, Answering(id).kind = "fetch", Asking(id).kind = "fetch",
         stream[id] # "was_reset"
  PROVE  Asking(id).state = Answering(id).state
<1>1. /\ AliasInv /\ Proper /\ Decided /\ Fetches /\ Answered /\ Cancelled /\ Verdicts /\ TypeOK
  BY DEF Pact, Conduct, Rules, InOrder, Underway, AliasInv, Inv
<1>2. Owner(id) \in Roles /\ Peer(Owner(id)) \in Roles
  BY RolesAre
<1>3. \A e \in Roles : OnWire(e) = {}
  BY DEF Settled, OnWire, Roles
<1>4. stream[id] \in {"none", "finished"}
  BY <1>1 DEF TypeOK, Settled
<1>5. /\ Asking(id).state \in {"Pending", "Unanswered", "Receiving", "Done"}
      /\ Answering(id).state \in {"Pending", "Unanswered", "Receiving", "Done"}
  BY <1>1, <1>2 DEF Proper, StatesOf, Asking, Answering
<1>6. /\ Answering(id).state \in {"Pending", "Receiving"} => stream[id] = "none"
      /\ Answering(id).state = "Unanswered" => stream[id] \in {"fin", "finished"}
      /\ Asking(id).state \in {"Pending", "Receiving"} => stream[id] # "finished"
      /\ Asking(id).state = "Unanswered" => stream[id] = "finished"
      /\ Asking(id).state = "Receiving" => verdict[id] = "ok"
      /\ verdict[id] = "ok" /\ Answering(id).state = "Done" /\ Asking(id).state # "Done" =>
           stream[id] \in {"fin", "finished"}
  BY <1>1, <1>4 DEF Fetches
<1>7. verdict[id] # None => Answering(id).state \notin Undecided /\ Asking(id).state \notin Undecided
  BY <1>1, <1>2, <1>3 DEF Verdicts, Answered, Answering
<1>8. Answering(id).state \notin Undecided => verdict[id] # None \/ Asking(id).state = "Done"
  BY <1>1 DEF Decided
<1>9. CASE Asking(id).state = "Done"
  BY <1>1, <1>2, <1>3, <1>4, <1>5, <1>9 DEF Cancelled
<1>10. CASE Asking(id).state # "Done"
  BY <1>4, <1>5, <1>6, <1>7, <1>8, <1>10, SessionAssumption DEF Undecided
<1> QED
  BY <1>9, <1>10

(* When nothing is on its way, both ends have every request in the same    *)
(* state, whichever messages crossed, were answered late or were cancelled *)
(* on the way (the receive_ and send_ handlers of endpoint.rs); but for    *)
(* what a draining endpoint refused unanswered, a fetch whose stream was   *)
(* reset, and a namespace announced again.                                 *)
THEOREM SessionsAgree == Spec => []SettledAgreement
<1>1. Init => Pact
  BY InitPact
<1>2. Pact /\ [Next]_vars => Pact'
  BY NextPact
<1>3. Pact => SettledAgreement
  <2> SUFFICES ASSUME Pact, Open, Settled, dropped = 0, NEW id \in Ids, ~Reannounced(id)
               PROVE  Agreed(id)
    BY DEF SettledAgreement
  <2> DEFINE o == Owner(id)
             p == Peer(o)
  <2>1. Clean /\ Inv /\ Agree /\ Counters /\ TypeOK /\ Sequence /\ Noted
    BY DEF Clean, Pact, Conduct, InOrder, AliasInv, Inv
  <2>2. /\ o \in Roles /\ p \in Roles /\ p # o /\ Peer(p) = o /\ ep[o].role = o /\ ep[p].role = p
        /\ id \in Nat /\ ep[p].peer_next_id \in Nat /\ ep[o].next_id \in Nat
    BY <2>1, RolesAre, Numbers, EndpointAssumption DEF TypeOK
  <2>3. ASSUME Asking(id).state = Answering(id).state
        PROVE  Agreed(id)
    BY <2>2, <2>3 DEF Agreed, Asking, Answering, Roles, Peer
  <2>4. CASE Asking(id).kind = "none"
    <3>1. Answering(id).kind = "none"
      BY <2>1, <2>4 DEF Agree, Asking, Answering
    <3>2. Asking(id) = NoRequest /\ Answering(id) = NoRequest
      BY <2>1, <2>2, <2>4, <3>1 DEF Counters, Counted, Asking, Answering
    <3> QED
      BY <2>3, <3>2
  <2>5. CASE Asking(id).kind # "none" /\ Answering(id).kind = "none"
    <3>1. id < ep[o].next_id
      <4>1. Counted(ep[o])
        BY <2>1, <2>2 DEF Counters
      <4> QED
        BY <2>2, <2>5, <4>1 DEF Counted, NoRequest, Asking
    <3>2. id < ep[p].peer_next_id
      <4>1. OnWire(p) = {}
        BY <2>2 DEF Settled, OnWire, Roles
      <4> QED
        BY <2>1, <2>2, <3>1, <4>1 DEF Sequence
    <3>3. ep[p].session = "Draining"
      BY <2>1, <2>5, <3>2 DEF Noted
    <3>4. ep[p].requests[id] = NoRequest
      BY <2>1, <2>2, <2>5 DEF Counters, Counted, Answering
    <3> QED
      BY <3>3, <3>4 DEF Agreed
  <2>6. CASE Asking(id).kind # "none" /\ Answering(id).kind # "none"
    <3>1. Answering(id).kind = Asking(id).kind
      BY <2>1, <2>6 DEF Agree, Asking, Answering
    <3>2. CASE Asking(id).kind # "fetch"
      BY <2>1, <2>3, <2>6, <3>1, <3>2, RequestSettled
    <3>3. CASE Asking(id).kind = "fetch" /\ stream[id] # "was_reset"
      BY <2>1, <2>3, <3>1, <3>3, FetchSettled
    <3>4. CASE stream[id] = "was_reset"
      BY <3>4 DEF Agreed
    <3> QED
      BY <3>2, <3>3, <3>4
  <2> QED
    BY <2>4, <2>5, <2>6
<1> QED
  BY <1>1, <1>2, <1>3, PTL DEF Spec
=============================================================================
