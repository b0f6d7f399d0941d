---------------------------- MODULE ChannelStore ----------------------------
(***************************************************************************)
(* One channel of the channel store (core runtime/channel-store.ts): steps *)
(* that send and receive and park when they must, external senders that    *)
(* never park, and external readers that live until their execution        *)
(* completes.  A value is the number of its send.                          *)
(***************************************************************************)
EXTENDS Naturals, Sequences, FiniteSets, Functions, Subsequences

CONSTANTS
  Proc,       \* steps that send and receive
  Reader,     \* external subscriptions to one execution
  Capacity,   \* the capacities a queue channel may have
  MaxBuffer,  \* what a reader's own buffer holds
  MaxSends    \* bound: values sent, those of a restored snapshot included

ASSUME ChannelAssumption ==
  /\ Proc \cap Reader = {}
  /\ Capacity \subseteq Nat /\ MaxBuffer \in Nat \ {0} /\ MaxSends \in Nat

VARIABLES
  mode, capacity,
  value,     \* value mode: the current value, or 0
  queue,     \* queue mode
  waiters,   \* parties parked in recv or, in queue mode, in next
  senders,   \* senders parked on a full queue, with their values
  busy,      \* what each step awaits: "no", "recv" or "send"
  reader,    \* external subscribers
  subs,      \* the open ones, in order of subscription
  observed,  \* a handle was issued for the execution
  closed,    \* the execution completed, after a handle was issued
  sent,      \* history: sends so far
  external,  \* history: values external senders sent
  gone,      \* history: values rejected, or dropped for an external one
  taken,     \* history: values taken out of a queue channel, in order
  last       \* history: the last value sent that each reader was offered

store   == <<mode, capacity, value, queue, waiters, senders>>
readers == <<reader, subs>>
life    == <<observed, closed>>
history == <<sent, external, gone, taken, last>>
vars    == <<store, busy, readers, life, history>>

-----------------------------------------------------------------------------
(* Data. *)

Value == 1 .. MaxSends
Sender == [by : Proc, value : Value]
Subscriber == [pc : {"new", "open", "done"}, next : BOOLEAN, buffer : Seq(Value)]
Iterating(pc, buffer) == [pc |-> pc, next |-> FALSE, buffer |-> buffer]
Upto(n) == [i \in 1 .. n |-> i]
Oldest(seq) == IF seq = <<>> THEN {} ELSE {Head(seq)}
Newer(seq) == IF seq = <<>> THEN <<>> ELSE Tail(seq)
Values(parked) == [i \in 1 .. Len(parked) |-> parked[i].value]

(* The channel is new, or refilled from a checkpoint. *)
Init ==
  /\ mode \in {"value", "queue", "topic"} /\ capacity \in Capacity
  /\ sent \in 0 .. (CASE mode = "value" -> 1 [] mode = "queue" -> capacity [] OTHER -> 0)
  /\ sent <= MaxSends
  /\ value = (IF mode = "value" THEN sent ELSE 0)
  /\ queue = (IF mode = "queue" THEN Upto(sent) ELSE <<>>)
  /\ waiters = <<>> /\ senders = <<>> /\ busy = [p \in Proc |-> "no"]
  /\ reader = [r \in Reader |-> Iterating("new", <<>>)] /\ subs = <<>>
  /\ observed = FALSE /\ closed = FALSE
  /\ external = {} /\ gone = {} /\ taken = <<>> /\ last = [r \in Reader |-> 0]

(* Mutant: the queue takes one value more. *)
Full_Late == mode = "queue" /\ waiters = <<>> /\ Len(queue) > capacity

Full == mode = "queue" /\ waiters = <<>> /\ Len(queue) >= capacity
Freed(who) == [p \in Proc |-> IF p \in who THEN "no" ELSE busy[p]]

-----------------------------------------------------------------------------
(* send. *)

(* Every receiver parked on a topic or a value gets what is sent. *)
Woken == Range(waiters)

(* What a reader's own buffer holds after one more value. *)
Buffered(buffer, v) ==
  IF mode = "value" THEN <<v>>
  ELSE Append(IF Len(buffer) >= MaxBuffer THEN Tail(buffer) ELSE buffer, v)

Push(v) == [r \in Reader |->
  IF reader[r].pc # "open" THEN reader[r]
  ELSE IF reader[r].next THEN [reader[r] EXCEPT !.next = FALSE]
  ELSE [reader[r] EXCEPT !.buffer = Buffered(@, v)]]

Broadcast(v) ==
  /\ mode # "queue"
  /\ value' = IF mode = "value" THEN v ELSE value
  /\ busy' = Freed(Woken) /\ waiters' = Selected(waiters, Range(waiters) \ Woken)
  /\ reader' = Push(v)
  /\ last' = [r \in Reader |-> IF reader[r].next THEN v ELSE last[r]]
  /\ UNCHANGED <<queue, taken>>

HandOff(v) ==
  /\ mode = "queue" /\ waiters # <<>>
  /\ LET w == Head(waiters)
     IN /\ busy' = Freed({w})
        /\ reader' = IF w \in Reader THEN [reader EXCEPT ![w].next = FALSE] ELSE reader
  /\ waiters' = Tail(waiters) /\ taken' = Append(taken, v)
  /\ UNCHANGED <<value, queue, last>>

Enqueue(v) ==
  /\ mode = "queue" /\ waiters = <<>> /\ ~Full
  /\ queue' = Append(queue, v)
  /\ UNCHANGED <<value, waiters, busy, reader, taken, last>>

Deliver(v) == Broadcast(v) \/ HandOff(v) \/ Enqueue(v)

NextValue(v) == sent < MaxSends /\ v = sent + 1 /\ sent' = v

Send(p, v) ==
  /\ busy[p] = "no" /\ NextValue(v)
  /\ \/ Deliver(v) /\ UNCHANGED senders
     \/ /\ Full
        /\ senders' = Append(senders, [by |-> p, value |-> v])
        /\ busy' = [busy EXCEPT ![p] = "send"]
        /\ UNCHANGED <<value, queue, waiters, reader, taken, last>>
  /\ UNCHANGED <<mode, capacity, subs, life, external, gone>>

(* An external sender drops the oldest queued value instead of parking. *)
SendExternal(v) ==
  /\ observed /\ ~closed /\ NextValue(v)
  /\ external' = external \cup {v}
  /\ \/ ~Full /\ Deliver(v) /\ UNCHANGED gone
     \/ /\ Full
        /\ gone' = gone \cup Oldest(queue)
        /\ queue' = Append(Newer(queue), v)
        /\ UNCHANGED <<value, waiters, busy, reader, taken, last>>
  /\ UNCHANGED <<mode, capacity, senders, subs, life>>

-----------------------------------------------------------------------------
(* recv, tryRecv and an external next. *)

(* Mutant: the slot that a dequeue frees is left empty. *)
Promoted_None == <<>>

(* The oldest parked sender, when the dequeue of the head makes room for it. *)
Promoted == IF senders # <<>> /\ Len(queue) - 1 < capacity THEN <<Head(senders)>> ELSE <<>>

Dequeue ==
  /\ queue # <<>>
  /\ queue' = Tail(queue) \o Values(Promoted)
  /\ senders' = IF Promoted = <<>> THEN senders ELSE Tail(senders)
  /\ busy' = Freed({s.by : s \in Range(Promoted)})
  /\ taken' = Append(taken, Head(queue))

(* With capacity 0 the queue is empty while senders are parked. *)
TakeParked ==
  /\ queue = <<>> /\ senders # <<>>
  /\ senders' = Tail(senders)
  /\ busy' = Freed({Head(senders).by})
  /\ taken' = Append(taken, Head(senders).value)
  /\ UNCHANGED queue

Nothing == IF mode = "value" THEN value = 0 ELSE queue = <<>> /\ senders = <<>>

Recv(p) ==
  /\ busy[p] = "no"
  /\ \/ mode = "queue" /\ (Dequeue \/ TakeParked) /\ UNCHANGED waiters
     \/ /\ Nothing
        /\ waiters' = Append(waiters, p)
        /\ busy' = [busy EXCEPT ![p] = "recv"]
        /\ UNCHANGED <<queue, senders, taken>>
  /\ UNCHANGED <<mode, capacity, value, readers, life, sent, external, gone, last>>

TryRecv(p) ==
  /\ busy[p] = "no" /\ mode = "queue" /\ Dequeue
  /\ UNCHANGED <<mode, capacity, value, waiters, readers, life, sent, external, gone, last>>

(* Mutant: who gives up stays in line. *)
Leave_Stays(p) == UNCHANGED <<waiters, senders>>

Leave(p) ==
  /\ waiters' = Selected(waiters, Range(waiters) \ {p})
  /\ senders' = Selected(senders, {s \in Range(senders) : s.by # p})

(* The timeout of a parked recv or send passes, or its context is aborted. *)
GiveUp(p) ==
  /\ busy[p] # "no"
  /\ Leave(p)
  /\ busy' = [busy EXCEPT ![p] = "no"]
  /\ gone' = gone \cup {s.value : s \in {t \in Range(senders) : t.by = p}}
  /\ UNCHANGED <<mode, capacity, value, queue, readers, life, sent, external, taken, last>>

ReadBuffer(r) ==
  /\ reader[r].buffer # <<>>
  /\ reader' = [reader EXCEPT ![r].buffer = Tail(@)]
  /\ last' = IF mode = "queue" THEN last ELSE [last EXCEPT ![r] = Head(reader[r].buffer)]
  /\ UNCHANGED <<queue, waiters, senders, busy, taken>>

ReadShared(r) ==
  /\ reader[r].pc = "open" /\ mode = "queue" /\ (Dequeue \/ TakeParked)
  /\ UNCHANGED <<waiters, reader, last>>

Park(r) ==
  /\ reader[r].pc = "open" /\ reader[r].buffer = <<>>
  /\ mode = "queue" => Nothing
  /\ reader' = [reader EXCEPT ![r].next = TRUE]
  /\ waiters' = IF mode = "queue" THEN Append(waiters, r) ELSE waiters
  /\ UNCHANGED <<queue, senders, busy, taken, last>>

Read(r) ==
  /\ ~reader[r].next
  /\ ReadBuffer(r) \/ ReadShared(r) \/ Park(r)
  /\ UNCHANGED <<mode, capacity, value, subs, life, sent, external, gone>>

-----------------------------------------------------------------------------
(* Subscriptions and the life of their execution. *)

(* Mutant: a reader of a value waits for the next one. *)
FirstBuffer_Empty == <<>>

FirstBuffer == IF mode = "value" /\ value # 0 THEN <<value>> ELSE <<>>

Subscribe(r) ==
  /\ reader[r].pc = "new"
  /\ \/ /\ closed
        /\ reader' = [reader EXCEPT ![r] = Iterating("done", <<>>)]
        /\ UNCHANGED <<subs, last>>
     \/ /\ ~closed
        /\ reader' = [reader EXCEPT ![r] = Iterating("open", FirstBuffer)]
        /\ subs' = Append(subs, r)
        /\ last' = [last EXCEPT ![r] = IF mode = "topic" THEN sent ELSE 0]
  /\ UNCHANGED <<store, busy, life, sent, external, gone, taken>>

(* Mutant: a reader that ends leaves its place in the line of receivers. *)
Unparked_Kept(who) == waiters

Unparked(who) == Selected(waiters, Range(waiters) \ who)

(* The consumer walks away. *)
Return(r) ==
  /\ reader[r].pc # "new"
  /\ reader' = [reader EXCEPT ![r] = Iterating("done", <<>>)]
  /\ subs' = Selected(subs, Range(subs) \ {r})
  /\ waiters' = Unparked({r})
  /\ UNCHANGED <<mode, capacity, value, queue, senders, busy, life, history>>

GetHandle ==
  /\ ~observed /\ observed' = TRUE
  /\ UNCHANGED <<store, busy, readers, closed, history>>

(* The execution completes: each of its readers ends.  The first to close
   takes along what the queue and its parked senders hold. *)
CloseExecution ==
  LET left == queue \o Values(senders)
      Drains(r) == mode = "queue" /\ r = Head(subs)
  IN /\ subs # <<>> \/ observed
     /\ closed' = (closed \/ observed)
     /\ subs' = <<>>
     /\ reader' = [r \in Reader |->
          IF r \notin Range(subs) THEN reader[r]
          ELSE Iterating("done", reader[r].buffer \o (IF Drains(r) THEN left ELSE <<>>))]
     /\ waiters' = Unparked(Range(subs))
     /\ IF mode = "queue" /\ subs # <<>>
        THEN /\ queue' = <<>> /\ senders' = <<>>
             /\ busy' = Freed({s.by : s \in Range(senders)})
             /\ taken' = taken \o left
        ELSE UNCHANGED <<queue, senders, busy, taken>>
     /\ UNCHANGED <<mode, capacity, value, observed, sent, external, gone, last>>

(* A root run starts on the same id again. *)
OpenExecution ==
  /\ closed /\ closed' = FALSE
  /\ UNCHANGED <<store, busy, readers, observed, history>>

-----------------------------------------------------------------------------
Next ==
  \/ \E v \in Value : SendExternal(v) \/ \E p \in Proc : Send(p, v)
  \/ \E p \in Proc : Recv(p) \/ TryRecv(p) \/ GiveUp(p)
  \/ \E r \in Reader : Subscribe(r) \/ Read(r) \/ Return(r)
  \/ GetHandle \/ CloseExecution \/ OpenExecution

Spec == Init /\ [][Next]_vars

-----------------------------------------------------------------------------
(* Properties. *)

(* Every variable keeps its type, and the queue its capacity: an external
   value is kept even where the capacity is 0. *)
TypeOK ==
  /\ mode \in {"value", "queue", "topic"} /\ capacity \in Capacity
  /\ value \in 0 .. MaxSends /\ taken \in Seq(Value)
  /\ queue \in Seq(Value) /\ (Len(queue) <= capacity \/ Len(queue) = 1)
  /\ waiters \in Seq(Proc \cup Reader) /\ senders \in Seq(Sender)
  /\ busy \in [Proc -> {"no", "recv", "send"}]
  /\ reader \in [Reader -> Subscriber] /\ subs \in Seq(Reader)
  /\ \A r \in Reader : reader[r].pc = "open" <=> r \in Range(subs)
  /\ observed \in BOOLEAN /\ closed \in BOOLEAN
  /\ sent \in 0 .. MaxSends /\ external \subseteq Value /\ gone \subseteq Value
  /\ last \in [Reader -> 0 .. MaxSends]

(* Nobody is parked beside what it waits for: no receiver while a value is
   there to take, no sender while the queue has room ("this prevents silent
   deadlocks", specs/06-channels.md:247; channel-store.ts:275-285, 396-410, 460-466). *)
NobodyParkedInVain ==
  /\ waiters # <<>> => queue = <<>> /\ senders = <<>> /\ value = 0
  /\ senders # <<>> => Len(queue) >= capacity

(* Whoever is in line still waits there, once, and whoever waits is in line:
   a value is never handed to a party that timed out, was aborted, walked
   away or ended with its execution (channel-store.ts:350-357, 524-531, 887-963). *)
LinesAreAlive ==
  /\ \A p \in Proc :
       /\ busy[p] = "recv" <=> p \in Range(waiters)
       /\ busy[p] = "send" <=> \E s \in Range(senders) : s.by = p
  /\ \A r \in Reader :
       /\ reader[r].next => reader[r].pc = "open"
       /\ r \in Range(waiters) <=> mode = "queue" /\ reader[r].next
  /\ IsInjective(waiters) /\ IsInjective(senders)

(* A queue channel accounts for every value sent: it is queued, parked with
   its sender, taken once, or given up - and then never delivered ("the value
   never enters the queue").  What steps send is taken in the order they sent
   it, and so is what external senders send (specs/06-channels.md:195-196, 246-247;
   channel-store.ts:290-298, 366-377, 575-592, 906-910). *)
EveryValueOnce ==
  LET all == taken \o queue \o Values(senders)
  IN mode = "queue" =>
       /\ IsInjective(all)
       /\ Range(all) \cap gone = {} /\ Range(all) \cup gone = 1 .. sent
       /\ \A i, j \in 1 .. Len(taken) :
            i < j /\ (taken[i] \in external <=> taken[j] \in external) => taken[i] < taken[j]

(* A reader of a topic is offered every value sent since it subscribed, but
   for the oldest that did not fit its buffer; a reader of a value, the
   current one - and neither waits while it has something to read
   (specs/06-channels.md:181-183; channel-store.ts:664-670, 825-885). *)
Due(r) ==
  LET from == IF mode = "value" /\ last[r] < sent THEN sent - 1
              ELSE IF sent > MaxBuffer + last[r] THEN sent - MaxBuffer ELSE last[r]
  IN [i \in 1 .. sent - from |-> from + i]
ReaderMissesNothing ==
  mode # "queue" => \A r \in Range(subs) :
                      reader[r].buffer = Due(r) /\ (reader[r].next => Due(r) = <<>>)

=============================================================================
