--------------------------- MODULE WebhookReceiver ---------------------------
(***************************************************************************)
(* One verified endpoint of the webhook receiver (platform-node            *)
(* webhook-receiver.ts) and the sender that posts to it.  A delivery       *)
(* carries an id, the same for every attempt at a message, and the time of *)
(* the attempt under the sender's signature; whoever holds an attempt may  *)
(* post it again at any time, and several requests are served at once.     *)
(* The sender tries again, with a fresh timestamp, until it has an answer  *)
(* of 2xx.  Both read one clock that never goes back; the sender's may be  *)
(* off by Skew.                                                            *)
(***************************************************************************)
EXTENDS Integers

CONSTANTS
  Msg,          \* message ids
  Request,      \* requests served at a time
  NoTime,       \* stands for an id that is not remembered
  Tolerance,    \* how far a timestamp may be from the receiver's clock
  Skew,         \* how far the sender's clock may be
  MaxTime       \* bound: the clock

ASSUME ReceiverAssumption ==
  /\ NoTime \notin Int
  /\ Tolerance \in Nat /\ Skew \in Nat /\ MaxTime \in Nat

VARIABLES
  clock,
  open,       \* the endpoint is registered
  seen,       \* when the endpoint accepted each id, for those it remembers
  inFlight,   \* ids whose handler is running
  req,        \* the requests being served
  answered,   \* the sender: messages answered with 2xx
  done        \* history: what the handler has handled, and when

receiverVars == <<clock, open, seen, inFlight, req, answered, done>>

-----------------------------------------------------------------------------
Time == Int
NoRequest == [pc |-> "free", id |-> NoTime, ts |-> 0]
Attempt(m, t) == [pc |-> "body", id |-> m, ts |-> t]
Completion == [id : Msg, ts : Time, at : Time]

ReceiverInit ==
  /\ clock = 0 /\ open = TRUE
  /\ seen = [m \in Msg |-> NoTime] /\ inFlight = {}
  /\ req = [r \in Request |-> NoRequest]
  /\ answered = {} /\ done = {}

(* A request comes in while the endpoint is open; its body is read next. *)
Arrive(r, m, t) ==
  /\ open /\ req[r].pc = "free"
  /\ req' = [req EXCEPT ![r] = Attempt(m, t)]
  /\ UNCHANGED <<clock, open, seen, inFlight, answered, done>>

(* The sender's attempts, and an attempt posted once more, or held up. *)
Try(m) == m \notin answered /\ \E r \in Request : Arrive(r, m, clock)
Post == \E r \in Request, m \in Msg, t \in -Skew .. MaxTime + Skew :
          t <= clock + Skew /\ Arrive(r, m, t)

Answer(r, s) ==
  /\ req' = [req EXCEPT ![r] = NoRequest]
  /\ answered' = IF s \in {200, 204} THEN answered \cup {req[r].id} ELSE answered

(* An answer that does not reach the sender. *)
Lost(r) == req' = [req EXCEPT ![r] = NoRequest] /\ UNCHANGED answered
Reply(r, s) == Answer(r, s) \/ Lost(r)

Fresh(t) == clock - t <= Tolerance /\ t - clock <= Tolerance

Refuse(r) ==
  /\ req[r].pc = "body"
  /\ ~Fresh(req[r].ts)
  /\ Reply(r, 401)
  /\ UNCHANGED <<clock, open, seen, inFlight, done>>

(* Mutant: ids are forgotten after one window. *)
Kept_OneWindow(at) == at # NoTime /\ clock - at <= Tolerance

(* Ids accepted more than twice the window ago are forgotten. *)
Kept(at) == at # NoTime /\ clock - at <= 2 * Tolerance
Pruned == [m \in Msg |-> IF Kept(seen[m]) THEN seen[m] ELSE NoTime]

Duplicate(r) ==
  /\ req[r].pc = "body" /\ Fresh(req[r].ts)
  /\ seen' = Pruned
  /\ \/ seen'[req[r].id] # NoTime /\ Reply(r, 200)
     \/ seen'[req[r].id] = NoTime /\ req[r].id \in inFlight /\ Reply(r, 409)
  /\ UNCHANGED <<clock, open, inFlight, done>>

Dispatch(r) ==
  /\ req[r].pc = "body" /\ Fresh(req[r].ts)
  /\ seen' = Pruned
  /\ seen'[req[r].id] = NoTime /\ req[r].id \notin inFlight
  /\ inFlight' = inFlight \cup {req[r].id}
  /\ req' = [req EXCEPT ![r].pc = "handler"]
  /\ UNCHANGED <<clock, open, answered, done>>

(* The time of acceptance is read when the handler is done. *)
Handled(r) ==
  /\ req[r].pc = "handler"
  /\ seen' = [seen EXCEPT ![req[r].id] = clock]
  /\ inFlight' = inFlight \ {req[r].id}
  /\ done' = done \cup {[id |-> req[r].id, ts |-> req[r].ts, at |-> clock]}
  /\ Reply(r, 204)
  /\ UNCHANGED <<clock, open>>

(* Mutant: a handler that throws leaves its id in flight. *)
Throws_KeepsId(r) ==
  /\ req[r].pc = "handler"
  /\ Reply(r, 500)
  /\ UNCHANGED <<clock, open, seen, inFlight, done>>

Throws(r) ==
  /\ req[r].pc = "handler"
  /\ inFlight' = inFlight \ {req[r].id}
  /\ Reply(r, 500)
  /\ UNCHANGED <<clock, open, seen, done>>

(* A closed endpoint takes no request; those it has taken are served. *)
Close == open /\ open' = FALSE /\ UNCHANGED <<clock, seen, inFlight, req, answered, done>>

Tick == clock < MaxTime /\ clock' = clock + 1 /\ UNCHANGED <<open, seen, inFlight, req, answered, done>>

Serve(r) == Refuse(r) \/ Duplicate(r) \/ Dispatch(r) \/ Handled(r) \/ Throws(r)

ReceiverNext ==
  \/ \E m \in Msg : Try(m)
  \/ Post
  \/ \E r \in Request : Serve(r)
  \/ Close \/ Tick

ReceiverSafety == ReceiverInit /\ [][ReceiverNext]_receiverVars

(* Requests are served, the sender does not give up, and a handler that is
   called again and again succeeds in the end. *)
Succeeds(m) == \E r \in Request : req[r].id = m /\ Handled(r)
ReceiverFairness ==
  /\ \A r \in Request : WF_receiverVars(Serve(r))
  /\ \A m \in Msg : SF_receiverVars(Try(m)) /\ SF_receiverVars(Succeeds(m))

ReceiverSpec == ReceiverSafety /\ ReceiverFairness

-----------------------------------------------------------------------------
(* Properties. *)

(* Every variable keeps its type, and the ids in flight are those of the
   running handlers, one handler to an id (webhook-receiver.ts:360-378). *)
Running == {r \in Request : req[r].pc = "handler"}

ReceiverTypeOK ==
  /\ clock \in Nat /\ open \in BOOLEAN
  /\ seen \in [Msg -> Nat \cup {NoTime}] /\ answered \subseteq Msg
  /\ req \in [Request -> [pc : {"free", "body", "handler"}, id : Msg \cup {NoTime}, ts : Time]]
  /\ \A r \in Request : req[r].pc # "free" => req[r].id \in Msg
  /\ done \subseteq Completion
  /\ inFlight = {req[r].id : r \in Running}
  /\ \A r, q \in Running : req[r].id = req[q].id => r = q

(* "ids seen more than twice the window ago can never be replayed
   successfully": once a handler has handled an id, only an attempt stamped
   more than the tolerance later starts one for it again, however late or
   often the old attempts are posted (webhook-receiver.ts:332-340, 350-379). *)
HandledOnce ==
  [][\A r \in Request : req[r].pc = "body" /\ req'[r].pc = "handler" =>
       \A d \in done : d.id = req[r].id => req[r].ts > d.at + Tolerance]_receiverVars

(* A sender that keeps trying has every message handled, unless the endpoint
   is closed: a handler that throws, a request refused while another runs and
   an answer that is lost leave the way open (webhook-receiver.ts:95-100, 365-378). *)
EveryMessageHandled ==
  \A m \in Msg : <>((\E d \in done : d.id = m) \/ ~open)

=============================================================================
