---------------------------- MODULE RequestLife ----------------------------
(***************************************************************************)
(* What a request is to the two ends of a session, without messages: one   *)
(* end asks, the other learns of it and decides once, the first learns the *)
(* decision, and either end may end what was accepted.  Requests do not    *)
(* depend on each other, and one step may advance several.                 *)
(***************************************************************************)
CONSTANTS Ids,
          None

VARIABLES asker,     \* asker[id]: "none", "pending", "active" or "over"
          answerer,  \* the same, as the other end sees it
          verdict    \* verdict[id]: None, "ok" or "error"

vars == <<asker, answerer, verdict>>

Init ==
  /\ asker    = [id \in Ids |-> "none"]
  /\ answerer = [id \in Ids |-> "none"]
  /\ verdict  = [id \in Ids |-> None]

SameAsker(id)    == asker'[id] = asker[id]
SameAnswerer(id) == answerer'[id] = answerer[id]
SameVerdict(id)  == verdict'[id] = verdict[id]

Ask(id) ==
  /\ asker[id] = "none" /\ asker'[id] = "pending"
  /\ SameAnswerer(id) /\ SameVerdict(id)

Arrive(id) ==
  /\ asker[id] # "none" /\ answerer[id] = "none" /\ answerer'[id] = "pending"
  /\ SameAsker(id) /\ SameVerdict(id)

(* What is accepted may be over at once: an answer that is all there is to *)
(* the request, or the last piece of a fetch that was already delivered.   *)
Decide(id) ==
  /\ answerer[id] = "pending" /\ verdict[id] = None
  /\ \/ verdict'[id] = "ok"    /\ answerer'[id] \in {"active", "over"}
     \/ verdict'[id] = "error" /\ answerer'[id] = "over"
  /\ SameAsker(id)

Learn(id) ==
  /\ asker[id] = "pending" /\ verdict[id] # None
  /\ asker'[id] \in (IF verdict[id] = "ok" THEN {"active", "over"} ELSE {"over"})
  /\ SameAnswerer(id) /\ SameVerdict(id)

AskerEnds(id) ==
  /\ asker[id] \in {"pending", "active"} /\ asker'[id] = "over"
  /\ SameAnswerer(id) /\ SameVerdict(id)

(* A request nobody has decided on ends at the answerer only because the   *)
(* asker gave it up.                                                       *)
AnswererEnds(id) ==
  /\ answerer[id] = "active" \/ (answerer[id] = "pending" /\ asker[id] = "over")
  /\ answerer'[id] = "over"
  /\ SameAsker(id) /\ SameVerdict(id)

Stays(id) == SameAsker(id) /\ SameAnswerer(id) /\ SameVerdict(id)

Next == \A id \in Ids :
  Stays(id) \/ Ask(id) \/ Arrive(id) \/ Decide(id) \/ Learn(id) \/ AskerEnds(id) \/ AnswererEnds(id)

Spec == Init /\ [][Next]_vars
=============================================================================
