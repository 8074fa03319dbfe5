--------------------------- MODULE RequestFlows ---------------------------
(***************************************************************************)
(* The state machines of the client crate's draft-14 module: one per kind  *)
(* of request, and the one of the session.  Each is a set of moves         *)
(* <<from, event, to>>; an event with no move from the present state is    *)
(* the machine's InvalidTransition and leaves the state as it is.          *)
(*                                                                         *)
(* Every machine serves both ends of its request: the events of the end    *)
(* that answers (on_subscribe_received, on_subscribe_ok_sent, ...) are     *)
(* defined in the code as those of the end that asked.                     *)
(***************************************************************************)
EXTENDS Naturals

(* SubscriptionStateMachine: a PUBLISH_DONE that finds the subscription    *)
(* over is no error.                                                       *)
SubscriptionMoves ==
  { <<"Subscribing", "ok",          "Active">>,
    <<"Subscribing", "error",       "Done">>,
    <<"Subscribing", "update",      "Subscribing">>,
    <<"Active",      "update",      "Active">>,
    <<"Active",      "unsubscribe", "Done">>,
    <<"Active",      "done",        "Done">>,
    <<"Done",        "done",        "Done">> }

(* PublishStateMachine: the three ways to end an accepted offer all go     *)
(* through on_publish_done_sent, which wants it Active.                    *)
PublishMoves ==
  { <<"Publishing", "ok",          "Active">>,
    <<"Publishing", "error",       "Done">>,
    <<"Active",     "unsubscribe", "Done">>,
    <<"Active",     "done",        "Done">> }

(* Faulty variant: an answer that comes after the cancel opens the fetch again. *)
RevivingFetch ==
  { <<"Pending", "ok", "Receiving">>,    <<"Unanswered", "ok", "Done">>,
    <<"Done", "ok", "Receiving">>,       <<"Pending", "error", "Done">>,
    <<"Unanswered", "error", "Done">>,   <<"Pending", "cancel", "Done">>,
    <<"Receiving", "cancel", "Done">>,   <<"Unanswered", "cancel", "Done">>,
    <<"Receiving", "end", "Done">>,      <<"Pending", "end", "Unanswered">>,
    <<"Done", "end", "Done">> }

(* FetchStateMachine: the data stream is not ordered with the control      *)
(* stream, so its end may come before the answer.                          *)
FetchMoves ==
  { <<"Pending",    "ok",     "Receiving">>,
    <<"Unanswered", "ok",     "Done">>,
    <<"Pending",    "error",  "Done">>,
    <<"Unanswered", "error",  "Done">>,
    <<"Pending",    "cancel", "Done">>,
    <<"Receiving",  "cancel", "Done">>,
    <<"Unanswered", "cancel", "Done">>,
    <<"Receiving",  "end",    "Done">>,
    <<"Pending",    "end",    "Unanswered">>,
    <<"Done",       "end",    "Done">> }

SubscribeNamespaceMoves ==
  { <<"Pending", "ok",          "Active">>,
    <<"Pending", "error",       "Done">>,
    <<"Active",  "unsubscribe", "Done">> }

PublishNamespaceMoves ==
  { <<"Pending", "ok",     "Active">>,
    <<"Pending", "error",  "Done">>,
    <<"Active",  "done",   "Done">>,
    <<"Active",  "cancel", "Done">> }

TrackStatusMoves ==
  { <<"Pending", "ok",    "Done">>,
    <<"Pending", "error", "Done">> }

Kinds == {"subscribe", "publish", "fetch", "subscribe_namespace",
          "publish_namespace", "track_status"}

States == {"Idle", "Subscribing", "Publishing", "Pending", "Unanswered",
           "Active", "Receiving", "Done"}

Moves(kind) ==
  CASE kind = "subscribe"           -> SubscriptionMoves
    [] kind = "publish"             -> PublishMoves
    [] kind = "fetch"               -> FetchMoves
    [] kind = "subscribe_namespace" -> SubscribeNamespaceMoves
    [] kind = "publish_namespace"   -> PublishNamespaceMoves
    [] kind = "track_status"        -> TrackStatusMoves
    [] OTHER                        -> {}

(* The state a request is in once it is sent, or has been received.        *)
Opened(kind) ==
  CASE kind = "subscribe" -> "Subscribing"
    [] kind = "publish"   -> "Publishing"
    [] OTHER              -> "Pending"

Can(kind, state, event)   == \E to \in States : <<state, event, to>> \in Moves(kind)
After(kind, state, event) == CHOOSE to \in States : <<state, event, to>> \in Moves(kind)

-----------------------------------------------------------------------------
(* SessionStateMachine *)

SessionStates == {"Connecting", "SetupExchange", "Active", "Draining", "Closed"}

OnConnect(state)       == state = "Connecting"
OnSetupComplete(state) == state = "SetupExchange"
OnGoAway(state)        == state = "Active"
OnClose(state)         == state \in {"SetupExchange", "Active", "Draining"}
=============================================================================
