------------------------------ MODULE Delivery ------------------------------
(***************************************************************************)
(* Durable delivery of an agent's output over a local socket: the server's *)
(* stream pumps and ask-user broadcasts append frames to a persisted queue *)
(* and send them to the connected client (platform-node agent-ipc-server), *)
(* the queue numbers, stores and compacts them (durable-outbound-queue),   *)
(* and the client drops what it has surfaced already and acknowledges      *)
(* (agent-ipc-client).                                                     *)
(*                                                                         *)
(* Every storage call is awaited, so an append, a replay and any number of *)
(* acknowledgements are under way at the same time: the server starts the  *)
(* handler of each line it reads without awaiting the one before.  The     *)
(* connection and the process may be lost at any point; a client object    *)
(* serves one connection, and the host hands the next one the watermark of *)
(* what it has surfaced.                                                   *)
(***************************************************************************)
EXTENDS Integers, Sequences, FiniteSets

CONSTANTS
  Source,       \* what appends frames: the stream pumps, ask-user broadcasts
  Pump,         \* those that end with the first append that throws
  None,
  MaxFrames,    \* bound: frames produced
  MaxRaced,     \* bound: frames produced when storage calls overlap or fail
  MaxDrops,     \* bound: connections lost
  MaxFaults,    \* bound: storage calls that fail
  MaxCrashes    \* bound: processes that die

ASSUME DeliveryAssumption ==
  /\ Pump \subseteq Source
  /\ None \notin Nat
  /\ None \notin [from : Nat, listed : BOOLEAN, todo : SUBSET Nat,
                  out : Seq([num : Nat, frame : Nat])]
  /\ MaxFrames \in Nat

VARIABLES
  calm,          \* storage answers a call before the next event, and fails none
  frames, meta,  \* storage: the frame under each number; the head and the ack watermark
  up,            \* the server listens
  head, acked,   \* its head number and ack watermark
  app,           \* the append each source has under way
  acking,        \* the acknowledgements under way
  replay,        \* the replay of the connected client
  conn,          \* the client is connected (and subscribed)
  highest,       \* the highest number the client object has surfaced
  wire,          \* frames on their way to it
  mark, got,     \* the host: its watermark, and all it was given
  log,           \* history: the frames stored, in order
  ackSent,       \* history: the highest number acknowledged
  made, drops, faults, crashes

storage == <<frames, meta>>
server  == <<up, head, acked, app, acking, replay>>
client  == <<conn, highest, wire>>
host    == <<mark, got>>
bounds  == <<made, drops, faults, crashes>>
vars    == <<calm, storage, server, client, host, log, ackSent, bounds>>

-----------------------------------------------------------------------------
(* Data.  A frame is the number of its production. *)

Num == 1 .. MaxFrames
Frame == 1 .. MaxFrames
Numbered == [num : Num, frame : Frame]
Meta == [head : 0 .. MaxFrames, acked : 0 .. MaxFrames]
Stored == {n \in Num : frames[n] # None}
Now == [head |-> head, acked |-> acked]

Append0 == [pc |-> "idle", num |-> 0, frame |-> 0, meta |-> None]
Items(s) == {s[i] : i \in DOMAIN s}

(* Mutant: an acknowledgement is not clamped to the head. *)
Least_First(a, b) == a

Least(a, b) == IF a < b THEN a ELSE b
Greatest(a, b) == IF a < b THEN b ELSE a

InFlight == \/ \E s \in Source : app[s].pc \in {"frame", "meta"}
            \/ acking # {} \/ replay # None

(* The server takes up something new. *)
Free == up /\ (calm => ~InFlight)

Init ==
  /\ calm \in BOOLEAN
  /\ frames = [n \in Num |-> None] /\ meta = [head |-> 0, acked |-> 0]
  /\ up = TRUE /\ head = 0 /\ acked = 0
  /\ app = [s \in Source |-> Append0] /\ acking = {} /\ replay = None
  /\ conn = FALSE /\ highest = 0 /\ wire = <<>>
  /\ mark = 0 /\ got = <<>>
  /\ log = <<>> /\ ackSent = 0
  /\ made = 0 /\ drops = 0 /\ faults = 0 /\ crashes = 0

-----------------------------------------------------------------------------
(* append, and the broadcast that follows it. *)

(* The number is taken before the frame is written. *)
Start(s) ==
  /\ Free /\ app[s].pc = "idle"
  /\ made < MaxFrames /\ (calm \/ made < MaxRaced)
  /\ made' = made + 1
  /\ head' = head + 1
  /\ app' = [app EXCEPT ![s] = [pc |-> "frame", num |-> head + 1, frame |-> made + 1, meta |-> None]]
  /\ UNCHANGED <<calm, storage, up, acked, acking, replay, client, host, log, ackSent,
                 drops, faults, crashes>>

Store(a) ==
  /\ frames' = [frames EXCEPT ![a.num] = a.frame]
  /\ log' = Append(log, [num |-> a.num, frame |-> a.frame])

(* The frame is stored; the meta document goes out with the counters of now. *)
Persist(s) ==
  /\ app[s].pc = "frame"
  /\ Store(app[s])
  /\ app' = [app EXCEPT ![s] = [pc |-> "meta", num |-> @.num, frame |-> @.frame, meta |-> Now]]
  /\ UNCHANGED <<calm, meta, up, head, acked, acking, replay, client, host, ackSent, bounds>>

Broadcast(a) ==
  wire' = IF conn THEN Append(wire, [num |-> a.num, frame |-> a.frame]) ELSE wire

(* append returns, and the frame is sent. *)
Flush(s) ==
  /\ app[s].pc = "meta"
  /\ meta' = app[s].meta
  /\ Broadcast(app[s])
  /\ app' = [app EXCEPT ![s] = Append0]
  /\ UNCHANGED <<calm, frames, up, head, acked, acking, replay, conn, highest, host, log, ackSent, bounds>>

(* A storage call of the append throws, whether it took effect or not. *)
Fault == ~calm /\ faults < MaxFaults /\ faults' = faults + 1
AppendFails(s) ==
  /\ Fault
  /\ app[s].pc \in {"frame", "meta"}
  /\ \/ UNCHANGED <<storage, log>>
     \/ app[s].pc = "frame" /\ Store(app[s]) /\ UNCHANGED meta
     \/ app[s].pc = "meta" /\ meta' = app[s].meta /\ UNCHANGED <<frames, log>>
  /\ app' = [app EXCEPT ![s] = [Append0 EXCEPT !.pc = IF s \in Pump THEN "ended" ELSE "idle"]]
  /\ UNCHANGED <<calm, up, head, acked, acking, replay, client, host, ackSent, made, drops, crashes>>

-----------------------------------------------------------------------------
(* durableResume: list the frames, read them one by one, then send them all. *)

(* Mutant: the frame at the watermark is asked for again. *)
ResumeFrom_Mark == mark

(* Mutant: only what comes from now on is asked for. *)
ResumeFrom_Head == head + 1

ResumeFrom == mark + 1

(* The host connects a client, subscribes and asks for what it has not seen. *)
Connect ==
  /\ Free /\ ~conn
  /\ conn' = TRUE /\ highest' = 0 /\ wire' = <<>>
  /\ replay' = [from |-> ResumeFrom, listed |-> FALSE, todo |-> {}, out |-> <<>>]
  /\ UNCHANGED <<calm, storage, up, head, acked, app, acking, host, log, ackSent, bounds>>

(* Mutant: whatever follows is listed. *)
Listed_After(from, to) == {n \in Stored : from <= n}

Listed(from, to) == {n \in Stored : from <= n /\ n <= to}

Range ==
  /\ replay # None /\ ~replay.listed
  /\ LET todo == Listed(replay.from, MaxFrames)
     IN replay' = IF todo = {} THEN None ELSE [from |-> replay.from, listed |-> TRUE, todo |-> todo, out |-> replay.out]
  /\ UNCHANGED <<calm, storage, up, head, acked, app, acking, client, host, log, ackSent, bounds>>

(* A frame acknowledged since it was listed is gone, and left out. *)
Found(n) == IF frames[n] = None THEN <<>> ELSE <<[num |-> n, frame |-> frames[n]]>>

Get ==
  /\ replay # None /\ replay.listed
  /\ \E n \in replay.todo :
       /\ \A k \in replay.todo : n <= k
       /\ IF replay.todo = {n}
          THEN /\ wire' = wire \o replay.out \o Found(n)
               /\ replay' = None
          ELSE /\ replay' = [from |-> replay.from, listed |-> TRUE,
                             todo |-> replay.todo \ {n}, out |-> replay.out \o Found(n)]
               /\ UNCHANGED wire
  /\ UNCHANGED <<calm, storage, up, head, acked, app, acking, conn, highest, host, log, ackSent, bounds>>

(* The client is told of an error and gets no replay. *)
ReplayFails ==
  /\ Fault
  /\ replay # None
  /\ replay' = None
  /\ UNCHANGED <<calm, storage, up, head, acked, app, acking, client, host, log, ackSent,
                 made, drops, crashes>>

-----------------------------------------------------------------------------
(* durableAck: the watermark moves at once, the frames are deleted one by
   one, and the meta document follows. *)

AckUpTo(n) ==
  /\ Free /\ conn
  /\ n \in 1 .. mark /\ n > acked
  /\ ackSent' = Greatest(ackSent, n)
  /\ acked' = Least(n, head)
  /\ acking' = acking \cup {[from |-> acked + 1, to |-> Least(n, head), pc |-> "list",
                             todo |-> {}, meta |-> None]}
  /\ UNCHANGED <<calm, storage, up, head, app, replay, client, host, log, bounds>>

(* What is left to do once todo is what remains to be deleted. *)
Deleting(a, todo) ==
  IF todo = {} THEN [a EXCEPT !.pc = "meta", !.todo = {}, !.meta = Now]
               ELSE [a EXCEPT !.pc = "delete", !.todo = todo]

AckRange(a) ==
  /\ a.pc = "list"
  /\ acking' = (acking \ {a}) \cup {Deleting(a, Listed(a.from, a.to))}
  /\ UNCHANGED <<calm, storage, up, head, acked, app, replay, client, host, log, ackSent, bounds>>

AckDelete(a) ==
  /\ a.pc = "delete"
  /\ \E n \in a.todo :
       /\ frames' = [frames EXCEPT ![n] = None]
       /\ acking' = (acking \ {a}) \cup {Deleting(a, a.todo \ {n})}
  /\ UNCHANGED <<calm, meta, up, head, acked, app, replay, client, host, log, ackSent, bounds>>

AckFlush(a) ==
  /\ a.pc = "meta"
  /\ meta' = a.meta
  /\ acking' = acking \ {a}
  /\ UNCHANGED <<calm, frames, up, head, acked, app, replay, client, host, log, ackSent, bounds>>

AckFails(a) ==
  /\ Fault
  /\ acking' = acking \ {a}
  /\ UNCHANGED <<calm, storage, up, head, acked, app, replay, client, host, log, ackSent,
                 made, drops, crashes>>

-----------------------------------------------------------------------------
(* The client, and what goes wrong around it. *)

(* A number not above the highest surfaced is taken for a repetition. *)
Receive ==
  /\ wire # <<>>
  /\ LET f == Head(wire)
     IN IF f.num <= highest
        THEN UNCHANGED <<highest, host>>
        ELSE /\ highest' = f.num
             /\ mark' = Greatest(mark, f.num)
             /\ got' = Append(got, f.frame)
  /\ wire' = Tail(wire)
  /\ UNCHANGED <<calm, storage, server, conn, log, ackSent, bounds>>

(* What the client had not read is lost, and so is a replay under way. *)
Hangup == conn' = FALSE /\ wire' = <<>> /\ highest' = 0 /\ replay' = None

Disconnect ==
  /\ conn /\ drops < MaxDrops
  /\ drops' = drops + 1
  /\ Hangup
  /\ UNCHANGED <<calm, storage, up, head, acked, app, acking, host, log, ackSent,
                 made, faults, crashes>>

Crash ==
  /\ up /\ crashes < MaxCrashes
  /\ crashes' = crashes + 1
  /\ up' = FALSE
  /\ head' = 0 /\ acked' = 0 /\ app' = [s \in Source |-> Append0] /\ acking' = {}
  /\ Hangup
  /\ UNCHANGED <<calm, storage, host, log, ackSent, made, drops, faults>>

(* The head a new queue starts from: no stored frame may be above it. *)
Recovered(h) ==
  /\ h \in Stored \cup {meta.head}
  /\ \A n \in Stored \cup {meta.head} : n <= h

Listen ==
  /\ ~up
  /\ up' = TRUE
  /\ \E h \in 0 .. MaxFrames : Recovered(h) /\ head' = h
  /\ acked' = meta.acked
  /\ UNCHANGED <<calm, storage, app, acking, replay, client, host, log, ackSent, bounds>>

-----------------------------------------------------------------------------
AppendStep(s) == Persist(s) \/ Flush(s)
AckStep == \E a \in acking : AckRange(a) \/ AckDelete(a) \/ AckFlush(a)

Next ==
  \/ \E s \in Source : Start(s) \/ AppendStep(s) \/ AppendFails(s)
  \/ Connect \/ Range \/ Get \/ ReplayFails
  \/ \E n \in Num : AckUpTo(n)
  \/ AckStep
  \/ \E a \in acking : AckFails(a)
  \/ Receive \/ Disconnect \/ Crash \/ Listen

Safety == Init /\ [][Next]_vars

(* Storage answers, the host connects again, and the client reads. *)
Fairness ==
  /\ \A s \in Source : WF_vars(AppendStep(s))
  /\ WF_vars(Range \/ Get) /\ WF_vars(AckStep)
  /\ WF_vars(Connect) /\ WF_vars(Receive) /\ WF_vars(Listen)

Spec == Safety /\ Fairness

-----------------------------------------------------------------------------
(* Properties. *)

Phases == {"idle", "frame", "meta", "ended"}

(* Every variable keeps its type; no stored frame lies above the head a server
   counts from, and the ack watermark never passes it
   (durable-outbound-queue.ts:22-28). *)
TypeOK ==
  /\ calm \in BOOLEAN /\ up \in BOOLEAN /\ conn \in BOOLEAN
  /\ frames \in [Num -> Frame \cup {None}] /\ meta \in Meta
  /\ head \in 0 .. MaxFrames /\ acked \in 0 .. MaxFrames
  /\ app \in [Source -> [pc : Phases, num : 0 .. MaxFrames, frame : 0 .. MaxFrames,
                         meta : Meta \cup {None}]]
  /\ \A a \in acking : /\ a.from \in 1 .. MaxFrames + 1 /\ a.to \in 0 .. MaxFrames
                       /\ a.pc \in {"list", "delete", "meta"}
                       /\ a.todo \subseteq Num /\ a.meta \in Meta \cup {None}
  /\ replay # None => replay.todo \subseteq Num /\ Items(replay.out) \subseteq Numbered
  /\ highest \in 0 .. MaxFrames /\ mark \in 0 .. MaxFrames
  /\ Items(wire) \subseteq Numbered /\ Items(log) \subseteq Numbered
  /\ up => acked <= head /\ \A n \in Stored : n <= head

(* A stored frame is never overwritten, and leaves storage only once a client
   has acknowledged its number: not by an acknowledgement that runs over it,
   nor by an append of a server that came back from a crash with a lower
   head (durable-outbound-queue.ts:22-33, agent-ipc-server.ts:161-165). *)
UnackedStaysStored ==
  [][\A n \in Stored : frames'[n] = frames[n] \/ (frames'[n] = None /\ n <= ackSent)]_vars

(* As long as storage calls do not overlap and none fails, the host is given
   every frame kept, once and in order, whatever connections and processes are
   lost: the implementation of OrderedDelivery (agent-ipc-server.ts:164-166). *)
Frames(l) == [i \in DOMAIN l |-> l[i].frame]
Promise == INSTANCE OrderedDelivery
             WITH sent <- IF calm THEN Frames(log) ELSE <<>>,
                  received <- IF calm THEN got ELSE <<>>
DeliversInOrder == Promise!Spec

(* Unless a storage call fails, a stored frame above the host's watermark is
   eventually passed by it: no replay or broadcast leaves the host behind for
   good (agent-ipc-server.ts:386-434, 549-560). *)
FramesArrive ==
  \A n \in Num : (n \in Stored /\ mark < n) ~> (n <= mark \/ faults > 0)

(* "A reconnecting client that issues `durableResume` replays every un-acked
   frame exactly once" (agent-ipc-server.ts:165-166): what the host's
   watermark has passed and is still kept, the host was given. *)
ReplayedExactlyOnce ==
  \A n \in Stored : n <= mark => Cardinality({i \in DOMAIN got : got[i] = frames[n]}) = 1

=============================================================================
