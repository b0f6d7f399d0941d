------------------------------- MODULE Triggers -------------------------------
(***************************************************************************)
(* One trigger (connections/triggers.ts): the listener that reads events   *)
(* of a connection into a durable inbox, and the deliveries that turn each *)
(* inbox entry into a turn on its thread and record it as done.  Both run  *)
(* at the same time; every storage call is a step of its own, may fail,    *)
(* and the process may crash between any two.                              *)
(*                                                                         *)
(* The source is at-least-once: it replays what follows the stored cursor  *)
(* and may name an event twice.                                            *)
(***************************************************************************)
EXTENDS Integers, Sequences, SequencesExt

CONSTANTS
  Event, Thread,
  ThreadOf,     \* the thread each event goes to
  Log,          \* the source's events in order; positions are cursors
  NoCursor,     \* positions whose event carries no cursor
  Filtered,     \* events the trigger's filter rejects
  Bad,          \* events whose filter or input throws
  MaxAttempts,  \* MAX_DELIVERY_ATTEMPTS
  MaxFails,     \* bound: turns that fail
  MaxFaults,    \* bound: storage or connection calls that fail
  MaxEnds,      \* bound: streams that end
  MaxCrashes    \* bound: crashes

ASSUME TriggersAssumption ==
  /\ Log \in Seq(Event) /\ ThreadOf \in [Event -> Thread]
  /\ NoCursor \subseteq 1 .. Len(Log)
  /\ Filtered \subseteq Event /\ Bad \subseteq Event \ Filtered
  /\ MaxAttempts \in Nat \ {0}
  /\ {MaxFails, MaxFaults, MaxEnds, MaxCrashes} \subseteq Nat

VARIABLES
  inbox, seen, cursor,  \* stored: undelivered events, events done, cursor
  phase,      \* where the listener is
  todo,       \* inbox keys start has listed and not read yet
  pos,        \* position of the event last read from the stream
  handling,   \* what the handler of that event does next
  line,       \* per thread: the events whose delivery is chained on it
  job,        \* per thread: what the first of them does next, and its attempt
  aborted,    \* the runner was closed
  turns,      \* history: turns completed for each event
  left,       \* history: entries this process leaves to the next start
  dead,       \* history: events dead-lettered
  raced,      \* history: lookups that straddled the end of a delivery
  fails, faults, ends, crashes

stored == <<inbox, seen, cursor>>
listener == <<phase, todo, pos, handling>>
deliveries == <<line, job>>
history == <<turns, left, dead, raced>>
bounds == <<fails, faults, ends, crashes>>
vars == <<stored, listener, deliveries, aborted, history, bounds>>

Now == Log[pos]
First == [pc |-> "turn", attempt |-> 1]

Init ==
  /\ inbox = {} /\ seen = {} /\ cursor = 0
  /\ phase = "down" /\ todo = {} /\ pos = 0 /\ handling = "none"
  /\ line = [t \in Thread |-> <<>>] /\ job = [t \in Thread |-> First]
  /\ aborted = FALSE
  /\ turns = [e \in Event |-> 0] /\ left = {} /\ dead = {} /\ raced = 0
  /\ fails = 0 /\ faults = 0 /\ ends = 0 /\ crashes = 0

Fault == faults < MaxFaults /\ faults' = faults + 1 /\ UNCHANGED <<fails, ends, crashes>>

(* deliver: chained on the thread's last delivery; once the runner is closed
   its loop does not run. *)
Deliver(e) ==
  /\ line' = IF aborted THEN line ELSE [line EXCEPT ![ThreadOf[e]] = Append(@, e)]
  /\ left' = IF aborted THEN left \cup {e} ELSE left

-----------------------------------------------------------------------------
(* start and listenLoop *)

(* start: the inbox is listed ... *)
Start ==
  /\ phase = "down"
  /\ phase' = "redeliver" /\ todo' = inbox
  /\ UNCHANGED <<stored, pos, handling, deliveries, aborted, history, bounds>>

(* ... each entry read and delivered, in the order the store lists keys ... *)
Redeliver(e) ==
  /\ phase = "redeliver" /\ e \in todo
  /\ todo' = todo \ {e} /\ Deliver(e)
  /\ UNCHANGED <<stored, phase, pos, handling, job, aborted, turns, dead, raced, bounds>>

(* ... and a call that fails rejects start: nothing listens. *)
StartFails ==
  /\ phase = "redeliver" /\ Fault
  /\ phase' = "failed" /\ todo' = {}
  /\ UNCHANGED <<stored, pos, handling, deliveries, aborted, history>>

(* Mutant: a stream is resumed where the last one stopped being read. *)
ResumeAt_Read == IF pos = 0 THEN cursor ELSE pos

(* listenOnce reads the stored cursor. *)
ResumeAt == cursor

Listen ==
  /\ \/ phase = "redeliver" /\ todo = {}
     \/ phase = "idle"
  /\ phase' = IF aborted THEN "closed" ELSE "listening"
  /\ pos' = IF aborted THEN pos ELSE ResumeAt
  /\ UNCHANGED <<stored, todo, handling, deliveries, aborted, history, bounds>>

(* The stream ends, terminates or throws; the loop waits and listens again. *)
StreamEnds ==
  /\ phase = "listening" /\ handling = "none" /\ ends < MaxEnds
  /\ phase' = "idle" /\ ends' = ends + 1
  /\ UNCHANGED <<stored, todo, pos, handling, deliveries, aborted, history,
                 fails, faults, crashes>>

StopListening ==
  /\ phase = "listening" /\ handling = "none" /\ aborted
  /\ phase' = "closed"
  /\ UNCHANGED <<stored, todo, pos, handling, deliveries, aborted, history, bounds>>

-----------------------------------------------------------------------------
(* handle: one event of the stream *)

Goes(next) ==
  /\ handling' = next
  /\ UNCHANGED <<phase, todo, pos, deliveries, aborted, bounds>>

Receive ==
  /\ phase = "listening" /\ handling = "none" /\ ~aborted /\ pos < Len(Log)
  /\ pos' = pos + 1 /\ handling' = "seen"
  /\ UNCHANGED <<stored, phase, todo, deliveries, aborted, history, bounds>>

LookSeen ==
  /\ handling = "seen"
  /\ Goes(IF Now \in seen THEN "skip" ELSE "inbox")
  /\ UNCHANGED <<stored, history>>

(* Mutant: an event whose delivery still runs is not taken for a repetition. *)
InInbox_No(e) == FALSE
InInbox(e) == e \in inbox

LookInbox ==
  /\ handling = "inbox"
  /\ Goes(IF InInbox(Now) THEN "skip" ELSE "admit")
  /\ raced' = raced + (IF Now \in seen \ inbox THEN 1 ELSE 0)
  /\ UNCHANGED <<stored, turns, left, dead>>

(* entryFor *)
Admit ==
  /\ handling = "admit"
  /\ Goes(CASE Now \in Bad -> "bad" [] Now \in Filtered -> "skip" [] OTHER -> "put")
  /\ UNCHANGED <<stored, history>>

(* A rejection of admit (the artifact store's, or the connection dropped) is
   taken for the event's fault too. *)
AdmitFails ==
  /\ handling = "admit" /\ Fault
  /\ handling' = "bad"
  /\ UNCHANGED <<stored, phase, todo, pos, deliveries, aborted, history>>

DeadLetter ==
  /\ handling = "bad"
  /\ seen' = seen \cup {Now} /\ dead' = dead \cup {Now}
  /\ Goes("skip")
  /\ UNCHANGED <<inbox, cursor, turns, left, raced>>

Put ==
  /\ handling = "put"
  /\ inbox' = inbox \cup {Now}
  /\ Goes("advance")
  /\ UNCHANGED <<seen, cursor, history>>

Advanced == cursor' = IF pos \in NoCursor THEN cursor ELSE pos

Skip ==
  /\ handling = "skip"
  /\ Advanced
  /\ Goes("none")
  /\ UNCHANGED <<inbox, seen, history>>

(* The cursor saved, the entry's delivery is chained. *)
Advance ==
  /\ handling = "advance"
  /\ Advanced /\ handling' = "none" /\ Deliver(Now)
  /\ UNCHANGED <<inbox, seen, phase, todo, pos, job, aborted, turns, dead, raced, bounds>>

(* A storage call rejects: listenOnce does, and the loop listens again from the
   stored cursor.  The entry of an event whose cursor was not saved stays in
   the inbox, where its repetition finds it: nothing delivers it before the
   next start. *)
HandlerFails ==
  /\ handling \notin {"none", "admit"} /\ Fault
  /\ phase' = "idle" /\ handling' = "none"
  /\ left' = IF handling = "advance" THEN left \cup {Now} ELSE left
  /\ UNCHANGED <<stored, todo, pos, deliveries, aborted, turns, dead, raced>>

-----------------------------------------------------------------------------
(* deliverWithRetry: the first delivery of a thread *)

Running(t, pc) == line[t] # <<>> /\ job[t].pc = pc
On(t) == Head(line[t])
Then(t, pc) == job' = [job EXCEPT ![t].pc = pc]
NextOn(t) ==
  /\ line' = [line EXCEPT ![t] = IF aborted THEN <<>> ELSE Tail(@)]
  /\ job' = [job EXCEPT ![t] = First]
Elsewhere == UNCHANGED <<listener, aborted, dead, raced>>

TurnDone(t) ==
  /\ Running(t, "turn")
  /\ turns' = [turns EXCEPT ![On(t)] = @ + 1] /\ Then(t, "mark")
  /\ Elsewhere /\ UNCHANGED <<stored, line, left, bounds>>

TurnFails(t) ==
  /\ Running(t, "turn") /\ fails < MaxFails
  /\ fails' = fails + 1 /\ Then(t, "wait")
  /\ Elsewhere /\ UNCHANGED <<stored, line, turns, left, faults, ends, crashes>>

Mark(t) ==
  /\ Running(t, "mark")
  /\ seen' = seen \cup {On(t)} /\ Then(t, "clear")
  /\ Elsewhere /\ UNCHANGED <<inbox, cursor, line, turns, left, bounds>>

Clear(t) ==
  /\ Running(t, "clear")
  /\ inbox' = inbox \ {On(t)} /\ NextOn(t)
  /\ left' = IF aborted THEN left \cup Range(Tail(line[t])) ELSE left
  /\ Elsewhere /\ UNCHANGED <<seen, cursor, turns, bounds>>

(* set or delete rejects: the whole attempt failed, turn included. *)
RecordFails(t) ==
  /\ (Running(t, "mark") \/ Running(t, "clear"))
  /\ Fault /\ Then(t, "wait")
  /\ Elsewhere /\ UNCHANGED <<stored, line, turns, left>>

(* Mutant: one attempt more than MAX_DELIVERY_ATTEMPTS. *)
Retry_OneMore(t) ==
  /\ Running(t, "wait") /\ job[t].attempt <= MaxAttempts /\ ~aborted
  /\ job' = [job EXCEPT ![t] = [pc |-> "turn", attempt |-> @.attempt + 1]]
  /\ Elsewhere /\ UNCHANGED <<stored, line, turns, left, bounds>>

Retry(t) ==
  /\ Running(t, "wait") /\ job[t].attempt < MaxAttempts /\ ~aborted
  /\ job' = [job EXCEPT ![t] = [pc |-> "turn", attempt |-> @.attempt + 1]]
  /\ Elsewhere /\ UNCHANGED <<stored, line, turns, left, bounds>>

(* Mutant: an event whose attempts are used up is recorded as done. *)
GiveUp_Done(t) ==
  /\ Running(t, "wait") /\ (job[t].attempt = MaxAttempts \/ aborted)
  /\ seen' = seen \cup {On(t)} /\ inbox' = inbox \ {On(t)} /\ NextOn(t)
  /\ Elsewhere /\ UNCHANGED <<cursor, turns, left, bounds>>

(* The attempts are used up, or the runner closed: the entry stays. *)
GiveUp(t) ==
  /\ Running(t, "wait") /\ (job[t].attempt = MaxAttempts \/ aborted)
  /\ NextOn(t)
  /\ left' = left \cup (IF aborted THEN Range(line[t]) ELSE {On(t)})
  /\ Elsewhere /\ UNCHANGED <<stored, turns, bounds>>

-----------------------------------------------------------------------------
Close ==
  /\ phase # "down" /\ ~aborted /\ aborted' = TRUE
  /\ UNCHANGED <<stored, listener, deliveries, history, bounds>>

Crash ==
  /\ phase # "down" /\ crashes < MaxCrashes
  /\ crashes' = crashes + 1
  /\ phase' = "down" /\ todo' = {} /\ pos' = 0 /\ handling' = "none"
  /\ line' = [t \in Thread |-> <<>>] /\ job' = [t \in Thread |-> First]
  /\ aborted' = FALSE /\ left' = {}
  /\ UNCHANGED <<stored, turns, dead, raced, fails, faults, ends>>

Listening ==
  \/ Start \/ (\E e \in Event : Redeliver(e)) \/ Listen \/ StopListening
  \/ Receive \/ LookSeen \/ LookInbox \/ Admit \/ DeadLetter \/ Put \/ Skip \/ Advance

Delivering(t) ==
  TurnDone(t) \/ Mark(t) \/ Clear(t) \/ Retry(t) \/ GiveUp(t)

Next ==
  \/ Listening \/ StartFails \/ StreamEnds \/ AdmitFails \/ HandlerFails
  \/ \E t \in Thread : Delivering(t) \/ TurnFails(t) \/ RecordFails(t)
  \/ Close \/ Crash

Safety == Init /\ [][Next]_vars
Spec == Safety /\ WF_vars(Listening) /\ \A t \in Thread : WF_vars(Delivering(t))

-----------------------------------------------------------------------------
(* Properties *)

TypeOK ==
  /\ inbox \subseteq Event /\ seen \subseteq Event /\ cursor \in 0 .. Len(Log)
  /\ phase \in {"down", "redeliver", "idle", "listening", "closed", "failed"}
  /\ todo \subseteq inbox /\ pos \in 0 .. Len(Log)
  /\ handling \in {"none", "seen", "inbox", "admit", "bad", "put", "advance", "skip"}
  /\ handling # "none" => phase = "listening" /\ pos > 0
  /\ line \in [Thread -> Seq(Event)]
  /\ job \in [Thread -> [pc : {"turn", "mark", "clear", "wait"}, attempt : 1 .. MaxAttempts]]
  /\ aborted \in BOOLEAN
  /\ turns \in [Event -> Nat] /\ left \subseteq Event /\ dead \subseteq Event
  /\ {raced, fails, faults, ends, crashes} \subseteq Nat

(* No event is lost, wherever the process stops: one the stored cursor has
   passed, or whose repetition would be skipped as done, had its turn, waits in
   the inbox for it, was dead-lettered, or was rejected by the filter
   (triggers.ts:275-314, 374-394). *)
NothingLost ==
  \A e \in seen \cup {Log[p] : p \in 1 .. cursor} :
    turns[e] > 0 \/ e \in inbox \cup dead \cup Filtered

(* An event starts one turn, and one more at most for each crash, each call
   that failed and each repetition whose two lookups straddle the end of the
   first delivery (triggers.ts:280-285, 374-392). *)
OneTurnPerTrouble ==
  \A e \in Event : turns[e] <= 1 + crashes + faults + raced

(* Every event the filter lets through ends recorded as done, unless this
   process leaves its entry to the next start - its attempts used up, its
   cursor unsaved, the runner closed - or start itself failed
   (triggers.ts:208-239, 366-394). *)
EveryEventDelivered ==
  \A p \in 1 .. Len(Log) :
    <>[](\/ Log[p] \in seen \cup left \cup Filtered
         \/ aborted \/ phase = "failed")

=============================================================================
