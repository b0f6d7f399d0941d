------------------------------- MODULE Session -------------------------------
(***************************************************************************)
(* One conversation thread driven by harness.execute() with durability on: *)
(* the host that sends messages, the queue and the runner that works it    *)
(* off in turns (runtime/message-queue.ts, runtime/session-runner.ts), the *)
(* model call's steer inbox (harness/steer-inbox.ts), the thread's stored  *)
(* record, whose operations run one at a time in call order                *)
(* (harness/thread-record.ts), and what a restore finds of a turn's        *)
(* execution.                                                              *)
(*                                                                         *)
(* The host delivers at least once: after a crash, or a turn that failed,  *)
(* it may send again what it never saw answered.  The process may die at   *)
(* any point; another then serves the thread.  A turn is one model call of *)
(* several rounds; how an execution is recorded is the subject of          *)
(* DurableRun, of which this module keeps what a restore reads.            *)
(***************************************************************************)
EXTENDS Integers, Sequences, FiniteSets, Subsequences

CONSTANTS
  Msg,            \* messages the host sends
  Steer,          \* those sent as steers: for the turn that is running
  Interrupt,      \* those that cancel the running turn
  None,
  SnapshotFirst,  \* a turn's first snapshot is stored before anything is recorded
  MaxTurns,       \* bound: executions created
  MaxRounds,      \* bound: rounds of a turn that end in tool calls
  MaxFails,       \* bound: turns that throw or are aborted
  MaxFaults,      \* bound: storage calls that fail
  MaxCrashes      \* bound: crashes

ASSUME SessionAssumption ==
  /\ Steer \subseteq Msg /\ Interrupt \subseteq Msg
  /\ Steer \cap Interrupt = {}
  /\ None \notin Nat \cup Seq([kind : {"input", "steer", "answer"}, msg : Msg])
  /\ SnapshotFirst \in BOOLEAN
  /\ MaxTurns \in Nat /\ MaxRounds \in Nat

VARIABLES
  queue,      \* messages accepted and not delivered
  status,     \* what getStatus reports; "interrupted" and "aborted" are both aborting
  pc,         \* where the runner is
  batch,      \* the messages the turn delivers
  exec,       \* the turn's execution
  base, conv, \* the item log the turn's run began with, and as it is
  staged,     \* steers taken off the queue for the next round
  round,      \* the round of the model call
  saving,     \* the run's first snapshot is still to land
  outcome,    \* "done", "cut" by an interrupt, or "failed"
  ops,        \* record operations queued, the first one running
  waiting,    \* someone awaits getAgentResponse
  rec,        \* storage: the thread's record
  ck,         \* storage: what a restore of each execution finds
  sent,       \* history: messages the host has no reason to send
  answered,   \* history: messages of turns the host saw finished or interrupted
  again,      \* history: messages the host sent again though delivered or answered
  kept,       \* history: steers whose record was stored, until they are a turn's input
  cutStaged,  \* history: steers staged when their turn was interrupted
  late,       \* history: a turn was lost after its answer was recorded
  unheard,    \* history: a turn ended without telling its waiters
  unsaved,    \* history: the save that takes a turn off the record failed
  turns, fails, faults, crashes

inbox  == <<queue, status, waiting>>
turn   == <<pc, batch, exec, base, conv, staged, round, saving, outcome>>
stored == <<rec, ck>>
ghost  == <<sent, answered, again, kept, cutStaged, late, unheard, unsaved>>
bounds == <<turns, fails, faults, crashes>>
vars   == <<inbox, turn, ops, stored, ghost, bounds>>

-----------------------------------------------------------------------------
(* Data. *)

Exec == 1 .. MaxTurns

(* An item of the log: a message delivered as a turn's input or as a steer,
   or the answer of the turn whose first message is msg. *)
Item == [kind : {"input", "steer", "answer"}, msg : Msg]
Input(m) == [kind |-> "input", msg |-> m]
Steered(m) == [kind |-> "steer", msg |-> m]
AnswerTo(m) == [kind |-> "answer", msg |-> m]

Members(s) == {s[i] : i \in DOMAIN s}
Inputs(s) == [i \in DOMAIN s |-> Input(s[i])]
SteerItems(s) == [i \in DOMAIN s |-> Steered(s[i])]
Without(s, S) == Selected(s, Members(s) \ S)

Turn == [exec : Exec, ids : Seq(Msg)]
Record == [items : Seq(Item), turn : Turn \cup {None}, steers : Seq(Msg)]

(* An execution: its snapshot, the items its recorded rounds added, how many
   they are in a row, and whether the whole call is recorded. *)
Checkpoint == [snap : Seq(Item) \cup {None}, tail : Seq(Item), rounds : Nat, final : BOOLEAN]
NoCheckpoint == [snap |-> None, tail |-> <<>>, rounds |-> 0, final |-> FALSE]

Op == [op : {"keep", "create", "steers", "begin", "end", "usage"}, arg : SUBSET Msg]
Pending(name, arg) == [op |-> name, arg |-> arg]
Running(name) == ops # <<>> /\ Head(ops).op = name

Init ==
  /\ queue = <<>> /\ status = "idle" /\ waiting = FALSE
  /\ pc = "rest" /\ batch = <<>> /\ exec = None
  /\ base = <<>> /\ conv = <<>> /\ staged = <<>>
  /\ round = 0 /\ saving = FALSE /\ outcome = "done"
  /\ ops = <<>>
  /\ rec = [items |-> <<>>, turn |-> None, steers |-> <<>>]
  /\ ck = [e \in Exec |-> NoCheckpoint]
  /\ sent = {} /\ answered = {} /\ again = {} /\ kept = {} /\ cutStaged = {}
  /\ late = FALSE /\ unheard = FALSE /\ unsaved = FALSE
  /\ turns = 0 /\ fails = 0 /\ faults = 0 /\ crashes = 0

(* A storage call either does what it is asked or fails. *)
Lands == UNCHANGED faults
Fails == faults < MaxFaults /\ faults' = faults + 1

(* A failed save of the record is only warned about. *)
Write(r) ==
  \/ Lands /\ rec' = r
  \/ Fails /\ rec' = rec

-----------------------------------------------------------------------------
(* The host. *)

(* The loop drains the whole queue into one turn. *)
StartTurn(q) ==
  /\ batch' = q
  /\ queue' = <<>>
  /\ status' = "generating"
  /\ pc' = "create"
  /\ outcome' = "done"

Delivered(m) ==
  \/ m \in Members(queue) \cup Members(staged) \cup Members(rec.steers) \cup Members(batch)
  \/ \E x \in Members(rec.items) \cup Members(conv) : x.msg = m

(* execute(): an interrupt goes to the head of the queue and aborts the
   running turn; a message to a session at rest starts a turn of its own; any
   other is queued, and a steer for the running turn is kept in the record. *)
Send(m) ==
  /\ m \notin sent
  /\ sent' = sent \cup {m}
  /\ again' = IF Delivered(m) THEN again \cup {m} ELSE again
  /\ \/ /\ m \in Interrupt /\ status = "generating"
        /\ queue' = <<m>> \o queue
        /\ status' = "interrupted"
        /\ UNCHANGED <<pc, batch, outcome, ops>>
     \/ /\ pc = "rest"
        /\ StartTurn(<<m>>)
        /\ ops' = Append(ops, Pending("create", {}))
     \/ /\ pc # "rest" /\ ~(m \in Interrupt /\ status = "generating")
        /\ queue' = Append(queue, m)
        /\ ops' = IF m \in Steer /\ status = "generating"
                  THEN Append(ops, Pending("keep", {m}))
                  ELSE ops
        /\ UNCHANGED <<status, pc, batch, outcome>>
  /\ UNCHANGED <<waiting, exec, base, conv, staged, round, saving, stored,
                 answered, kept, cutStaged, late, unheard, unsaved, bounds>>

(* abort(): the running turn is cancelled and nothing of it kept. *)
Abort ==
  /\ status = "generating"
  /\ fails < MaxFails
  /\ fails' = fails + 1
  /\ status' = "aborted"
  /\ UNCHANGED <<queue, waiting, turn, ops, stored, ghost, turns, faults, crashes>>

(* getAgentResponse() while there is work. *)
Await ==
  /\ pc # "rest"
  /\ waiting' = TRUE
  /\ UNCHANGED <<queue, status, turn, ops, stored, ghost, bounds>>

-----------------------------------------------------------------------------
(* Ending a turn. *)

(* The turn's answer is recorded, and so is the turn as one in flight. *)
Answered(l) == \E x \in Members(l) : x.kind = "answer" /\ x.msg = batch[1]
LostLate ==
  /\ exec # None
  /\ rec.turn # None /\ rec.turn.exec = exec
  /\ ck[exec].final \/ (ck[exec].snap # None /\ Answered(ck[exec].snap))

(* The turn is over, and whatever is queued is the next turn.  The host has
   seen the turn answered or interrupted it; one that failed it sends again. *)
EndTurn(result) ==
  /\ IF result # "failed"
     THEN /\ answered' = answered \cup Members(batch)
                                  \cup {x.msg : x \in {y \in Members(conv) : y.kind = "steer"}}
          /\ UNCHANGED sent
     ELSE /\ sent' = sent \ Members(batch)
          /\ UNCHANGED answered
  /\ late' = (late \/ (result # "done" /\ LostLate))
  /\ exec' = None /\ base' = <<>> /\ conv' = <<>> /\ staged' = <<>>
  /\ round' = 0 /\ saving' = FALSE
  /\ IF queue # <<>>
     THEN StartTurn(queue) /\ ops' = Append(Tail(ops), Pending("create", {}))
     ELSE /\ pc' = "rest" /\ status' = "idle" /\ batch' = <<>> /\ outcome' = "done"
          /\ ops' = Tail(ops)
          /\ UNCHANGED queue
  /\ UNCHANGED <<ck, again, kept, cutStaged, unsaved, turns, fails, crashes>>

(* Mutant: waiters wait for the queue to drain whatever happened. *)
TellWaiters_Answers(result) ==
  /\ waiting' = (waiting /\ (result # "done" \/ queue # <<>>))
  /\ UNCHANGED unheard

(* Waiters hear of a failure at once, of an answer when nothing is queued. *)
TellWaiters(result) ==
  /\ waiting' = (waiting /\ result = "done" /\ queue # <<>>)
  /\ UNCHANGED unheard

(* The usage of the turn is settled before anyone hears of it. *)
Settle(result, queued) ==
  /\ pc' = "settle"
  /\ outcome' = result
  /\ ops' = Append(queued, Pending("usage", {}))

UsageSettles ==
  /\ Running("usage")
  /\ Lands
  /\ EndTurn(outcome)
  /\ TellWaiters(outcome)
  /\ UNCHANGED rec

(* Reading the stored totals fails: a turn that succeeded is settled again, as
   a failed one; the error of the second attempt ends the loop. *)
UsageFails ==
  /\ Running("usage")
  /\ Fails
  /\ \/ /\ outcome = "done"
        /\ Settle("failed", Tail(ops))
        /\ UNCHANGED <<inbox, batch, exec, base, conv, staged, round, saving, stored, ghost,
                       turns, fails, crashes>>
     \/ /\ outcome # "done"
        /\ EndTurn("failed")
        /\ unheard' = TRUE
        /\ UNCHANGED <<waiting, rec>>

-----------------------------------------------------------------------------
(* Preparing a turn: createContext. *)

NoTurn(r) == [r EXCEPT !.turn = None]
Restorable(e) == ck[e].snap # None \/ ck[e].rounds > 0 \/ ck[e].final
(* Mutant: a resumed turn begins with no history. *)
Restored_Empty(e) == <<>>

Restored(e) == IF ck[e].snap = None THEN <<>> ELSE ck[e].snap

Prepared(items) ==
  /\ base' = items /\ conv' = items
  /\ ops' = Append(Tail(ops), Pending("steers", {}))
  /\ pc' = "steers"
  /\ UNCHANGED <<inbox, batch, staged, round, saving, outcome, ghost, fails, crashes>>

(* A cut-off turn whose messages do not arrive again is abandoned. *)
Abandoned == rec.turn # None /\ rec.turn.ids # batch

(* The cut-off turn's messages arrive again: its execution is restored. *)
Resume ==
  /\ Running("create")
  /\ rec.turn # None /\ rec.turn.ids = batch /\ Restorable(rec.turn.exec)
  /\ exec' = rec.turn.exec
  /\ Prepared(Restored(exec'))
  /\ UNCHANGED <<stored, turns, faults>>

(* Mutant: the last execution is used again. *)
NextExec_Same == turns

NextExec == turns + 1

(* Its record and its checkpoint go, the ledger last: where the save of the
   record fails, a crash may leave the turn on record with its ledger alone. *)
Abandon ==
  /\ Running("create") /\ pc = "create"
  /\ Abandoned /\ turns < MaxTurns
  /\ Fails
  /\ ck' = [ck EXCEPT ![rec.turn.exec].snap = None]
  /\ unsaved' = TRUE
  /\ pc' = "abandon"
  /\ UNCHANGED <<inbox, batch, exec, base, conv, staged, round, saving, outcome, ops, rec,
                 sent, answered, again, kept, cutStaged, late, unheard, turns, fails, crashes>>

(* Anything else is a fresh turn on the stored history. *)
Fresh ==
  /\ Running("create")
  /\ rec.turn # None => Abandoned \/ ~Restorable(rec.turn.exec)
  /\ turns < MaxTurns
  /\ turns' = turns + 1
  /\ exec' = NextExec
  /\ Prepared(rec.items \o Inputs(batch))
  /\ rec' = IF Abandoned /\ pc = "create" THEN NoTurn(rec) ELSE rec
  /\ ck' = IF Abandoned THEN [ck EXCEPT ![rec.turn.exec] = NoCheckpoint] ELSE ck
  /\ Lands

(* A record operation that throws before the turn runs, perhaps after a
   cut-off turn was dropped: the turn is reported failed. *)
PrepareFails ==
  /\ Running("create") \/ Running("steers") \/ Running("begin")
  /\ Fails
  /\ \/ UNCHANGED rec
     \/ /\ Running("create") /\ pc = "create" /\ Abandoned
        /\ rec' = NoTurn(rec)
  /\ EndTurn("failed")
  /\ TellWaiters("failed")

(* Kept steers go back in the queue. *)
Requeue ==
  /\ Running("steers")
  /\ queue' = queue \o Without(rec.steers, Members(queue) \cup Members(batch))
  /\ ops' = Append(Tail(ops), Pending("begin", {}))
  /\ pc' = "begin"
  /\ UNCHANGED <<status, waiting, batch, exec, base, conv, staged, round, saving, outcome, stored,
                 ghost, bounds>>

(* Mutant: a new turn forgets the steers kept for the last one. *)
Begin_DropsSteers ==
  /\ Running("begin")
  /\ Write([rec EXCEPT !.turn = [exec |-> exec, ids |-> batch], !.steers = <<>>])
  /\ kept' = IF rec' = rec THEN kept ELSE kept \ Members(batch)
  /\ ops' = Tail(ops)
  /\ pc' = "run"
  /\ UNCHANGED <<inbox, batch, exec, base, conv, staged, round, saving, outcome, ck,
                 sent, answered, again, cutStaged, late, unheard, unsaved, turns, fails, crashes>>

(* The record names the turn before any of it runs; steers it delivers as
   input stop being steers. *)
Begin ==
  /\ Running("begin")
  /\ Write([rec EXCEPT !.turn = [exec |-> exec, ids |-> batch],
                       !.steers = Without(@, Members(batch))])
  /\ kept' = IF rec' = rec THEN kept ELSE kept \ Members(batch)
  /\ ops' = Tail(ops)
  /\ pc' = "run"
  /\ UNCHANGED <<inbox, batch, exec, base, conv, staged, round, saving, outcome, ck,
                 sent, answered, again, cutStaged, late, unheard, unsaved, turns, fails, crashes>>

(* keepSteer: the newest last.  Its failure is nobody's to see. *)
Keep ==
  /\ Running("keep")
  /\ \E s \in Head(ops).arg :
       /\ Write([rec EXCEPT !.steers = Append(Without(@, {s}), s)])
       /\ kept' = IF rec' = rec THEN kept ELSE kept \cup {s}
  /\ ops' = Tail(ops)
  /\ UNCHANGED <<inbox, turn, ck, sent, answered, again, cutStaged, late, unheard, unsaved,
                 turns, fails, crashes>>

-----------------------------------------------------------------------------
(* The turn's run: rounds of one model call. *)

(* A run starts by queueing its first snapshot and replaying what is recorded. *)
BeginRun ==
  /\ pc = "run"
  /\ status = "generating"
  /\ saving' = TRUE
  /\ conv' = conv \o ck[exec].tail
  /\ round' = ck[exec].rounds
  /\ pc' = IF ck[exec].final THEN "ending" ELSE "ready"
  /\ UNCHANGED <<inbox, batch, exec, base, staged, outcome, ops, stored, ghost, bounds>>

SaveBaseline ==
  /\ saving
  /\ saving' = FALSE
  /\ \/ Lands /\ ck' = [ck EXCEPT ![exec].snap = base]
     \/ Fails /\ ~SnapshotFirst /\ UNCHANGED ck
  /\ UNCHANGED <<inbox, pc, batch, exec, base, conv, staged, round, outcome, ops, rec, ghost,
                 turns, fails, crashes>>

(* What is recorded of the execution. *)
MayRecord == SnapshotFirst => ~saving

(* Mutant: the conversation is not consulted. *)
Applied_Forgotten == {}

(* Steers in the queue, but for those the conversation already holds. *)
Applied == {m \in Steer : Steered(m) \in Members(conv)}
Offered == Selected(queue, Steer \ Applied)

(* Before a round, queued steers are taken and join the staged ones. *)
StartRound ==
  /\ pc = "ready"
  /\ status = "generating"
  /\ conv' = conv \o SteerItems(staged \o Offered)
  /\ staged' = <<>>
  /\ queue' = Without(queue, Steer)
  /\ pc' = "streaming"
  /\ UNCHANGED <<status, waiting, batch, exec, base, round, saving, outcome, ops, stored, ghost, bounds>>

(* A steer cuts the stream, or skips the rest of the round's tools; one that
   is already in the conversation only leaves the queue. *)
StageSteers ==
  /\ pc = "streaming"
  /\ status = "generating"
  /\ Members(queue) \cap Steer # {}
  /\ staged' = staged \o Offered
  /\ queue' = Without(queue, Steer)
  /\ pc' = IF Offered = <<>> THEN "streaming" ELSE "recordRound"
  /\ UNCHANGED <<status, waiting, batch, exec, base, conv, round, saving, outcome, ops, stored,
                 ghost, bounds>>

(* The round ends in tool calls. *)
ToolRound ==
  /\ pc = "streaming"
  /\ status = "generating"
  /\ round < MaxRounds
  /\ pc' = "recordRound"
  /\ UNCHANGED <<inbox, batch, exec, base, conv, staged, round, saving, outcome, ops, stored,
                 ghost, bounds>>

(* A round is of use to a resume only behind recorded ones, and a cancelled
   call records none. *)
RecordRound ==
  /\ pc = "recordRound"
  /\ MayRecord
  /\ \/ /\ Lands
        /\ ck' = IF ck[exec].rounds = round /\ status = "generating"
                 THEN [ck EXCEPT ![exec].tail = SubSeq(conv, Len(base) + 1, Len(conv)),
                                 ![exec].rounds = round + 1]
                 ELSE ck
     \/ Fails /\ UNCHANGED ck
  /\ round' = round + 1
  /\ pc' = "ready"
  /\ UNCHANGED <<inbox, batch, exec, base, conv, staged, saving, outcome, ops, rec, ghost,
                 turns, fails, crashes>>

(* The model answers: the call is recorded with its items. *)
Answer ==
  /\ pc = "streaming"
  /\ status = "generating"
  /\ MayRecord
  /\ conv' = Append(conv, AnswerTo(batch[1]))
  /\ \/ /\ Lands
        /\ ck' = [ck EXCEPT ![exec].tail = SubSeq(conv', Len(base) + 1, Len(conv')),
                            ![exec].final = TRUE]
     \/ Fails /\ UNCHANGED ck
  /\ pc' = "checkpoint"
  /\ UNCHANGED <<inbox, batch, exec, base, staged, round, saving, outcome, ops, rec, ghost,
                 turns, fails, crashes>>

(* The call's step checkpoints: in a run that is the baseline again. *)
StepCheckpoint ==
  /\ pc = "checkpoint"
  /\ ~saving
  /\ \/ Lands /\ ck' = [ck EXCEPT ![exec].snap = base]
     \/ Fails /\ UNCHANGED ck
  /\ pc' = "ending"
  /\ UNCHANGED <<inbox, batch, exec, base, conv, staged, round, saving, outcome, ops, rec, ghost,
                 turns, fails, crashes>>

(* Mutant: an interrupted turn is told before its history is stored. *)
KeepHistory_OnlyDone(result) ==
  IF result = "cut"
  THEN Settle(result, ops)
  ELSE /\ pc' = "keep"
       /\ outcome' = result
       /\ ops' = Append(ops, Pending("end", Members(queue)))

(* keepHistory: the queue as it is when the record's end is called. *)
KeepHistory(result) ==
  /\ pc' = "keep"
  /\ outcome' = result
  /\ ops' = Append(ops, Pending("end", Members(queue)))

(* The run is over: the whole log is the snapshot and the ledger is dropped. *)
EndRun ==
  /\ pc = "ending"
  /\ ~saving
  /\ \/ Lands /\ ck' = [ck EXCEPT ![exec] = [NoCheckpoint EXCEPT !.snap = conv]]
     \/ Fails /\ UNCHANGED ck
  /\ KeepHistory("done")
  /\ UNCHANGED <<inbox, batch, exec, base, conv, staged, round, saving, rec, ghost,
                 turns, fails, crashes>>

(* The run notices that it was cancelled.  An interrupt keeps what the turn
   finished, an abort nothing; steers still staged are with the call. *)
Cut ==
  /\ pc \in {"run", "ready", "streaming"}
  /\ \/ /\ status = "interrupted"
        /\ KeepHistory("cut")
        /\ cutStaged' = cutStaged \cup Members(staged)
     \/ /\ status = "aborted"
        /\ Settle("failed", ops)
        /\ UNCHANGED cutStaged
  /\ UNCHANGED <<inbox, batch, exec, base, conv, staged, round, saving, stored,
                 sent, answered, again, kept, late, unheard, unsaved, bounds>>

(* The model call throws. *)
TurnFails ==
  /\ pc = "streaming"
  /\ fails < MaxFails
  /\ fails' = fails + 1
  /\ Settle("failed", ops)
  /\ UNCHANGED <<inbox, batch, exec, base, conv, staged, round, saving, stored, ghost,
                 turns, faults, crashes>>

(* record.end: the history the turn left, and the steers still queued. *)
End ==
  /\ Running("end")
  /\ Write([items |-> conv, turn |-> None, steers |-> Selected(rec.steers, Head(ops).arg)])
  /\ unsaved' = (unsaved \/ faults' # faults)
  /\ ops' = Tail(ops)
  /\ pc' = "clear"
  /\ UNCHANGED <<inbox, batch, exec, base, conv, staged, round, saving, outcome, ck,
                 sent, answered, again, kept, cutStaged, late, unheard, turns, fails, crashes>>

EndThrows ==
  /\ Running("end")
  /\ Fails
  /\ Settle("failed", Tail(ops))
  /\ UNCHANGED <<inbox, batch, exec, base, conv, staged, round, saving, stored, ghost,
                 turns, fails, crashes>>

(* The checkpoint goes, first the snapshot and then the ledger; when that
   throws, so does the turn. *)
Clear ==
  /\ pc = "clear"
  /\ \/ /\ Lands
        /\ ck' = [ck EXCEPT ![exec].snap = None]
        /\ pc' = "clearLedger"
        /\ UNCHANGED <<outcome, ops>>
     \/ /\ Fails
        /\ Settle("failed", ops)
        /\ UNCHANGED ck
  /\ UNCHANGED <<inbox, batch, exec, base, conv, staged, round, saving, rec, ghost,
                 turns, fails, crashes>>

ClearLedger ==
  /\ pc = "clearLedger"
  /\ \/ Lands /\ ck' = [ck EXCEPT ![exec] = NoCheckpoint] /\ Settle(outcome, ops)
     \/ Fails /\ UNCHANGED ck /\ Settle("failed", ops)
  /\ UNCHANGED <<inbox, batch, exec, base, conv, staged, round, saving, rec, ghost,
                 turns, fails, crashes>>

-----------------------------------------------------------------------------
(* The process dies and another serves the thread. *)
Crash ==
  /\ crashes < MaxCrashes
  /\ crashes' = crashes + 1
  /\ queue' = <<>> /\ status' = "idle" /\ waiting' = FALSE
  /\ pc' = "rest" /\ batch' = <<>> /\ exec' = None
  /\ base' = <<>> /\ conv' = <<>> /\ staged' = <<>>
  /\ round' = 0 /\ saving' = FALSE /\ outcome' = "done"
  /\ ops' = <<>>
  /\ sent' = answered
  /\ late' = (late \/ LostLate)
  /\ UNCHANGED <<stored, answered, again, kept, cutStaged, unheard, unsaved, turns, fails, faults>>

TurnStep ==
  \/ Resume \/ Abandon \/ Fresh \/ Requeue \/ Begin \/ Keep
  \/ BeginRun \/ SaveBaseline \/ StartRound \/ StageSteers \/ ToolRound \/ RecordRound
  \/ Answer \/ StepCheckpoint \/ EndRun \/ Cut \/ End \/ Clear \/ ClearLedger \/ UsageSettles

Next ==
  \/ \E m \in Msg : Send(m)
  \/ Abort \/ Await
  \/ TurnStep
  \/ PrepareFails \/ TurnFails \/ EndThrows \/ UsageFails
  \/ Crash

Safety == Init /\ [][Next]_vars

(* A process that is up works its queue off. *)
Spec == Safety /\ WF_vars(TurnStep)

-----------------------------------------------------------------------------
(* Properties. *)

Statuses == {"idle", "generating", "interrupted", "aborted"}
Pcs == {"rest", "create", "abandon", "steers", "begin", "run", "ready", "streaming", "recordRound",
        "checkpoint", "ending", "keep", "clear", "clearLedger", "settle"}

(* Every variable keeps its type. *)
TypeOK ==
  /\ queue \in Seq(Msg)
  /\ status \in Statuses /\ waiting \in BOOLEAN
  /\ pc \in Pcs /\ batch \in Seq(Msg) /\ exec \in Exec \cup {None}
  /\ base \in Seq(Item) /\ conv \in Seq(Item) /\ staged \in Seq(Msg)
  /\ round \in Nat /\ saving \in BOOLEAN
  /\ outcome \in {"done", "cut", "failed"}
  /\ ops \in Seq(Op)
  /\ rec \in Record
  /\ ck \in [Exec -> Checkpoint]
  /\ sent \subseteq Msg /\ answered \subseteq Msg /\ again \subseteq Msg
  /\ kept \subseteq Msg /\ cutStaged \subseteq Msg
  /\ late \in BOOLEAN /\ unheard \in BOOLEAN /\ unsaved \in BOOLEAN
  /\ turns \in 0 .. MaxTurns
  /\ fails \in Nat /\ faults \in Nat /\ crashes \in Nat

(* The thread's stored history is only ever added to, unless the save failed
   that was to take a turn off the record
   (thread-record.ts:149-162, 23a-step-level-resume.md:171-174). *)
Extends(l, m) == Len(l) <= Len(m) /\ SubSeq(m, 1, Len(l)) = l
HistoryGrows == [][unsaved' \/ Extends(rec.items, rec'.items)]_vars

(* The conversation and the stored history hold no steer twice, no input
   twice and no answer twice - but for what the host itself sent again, and the
   answer of a turn lost after it had been recorded
   (steer-inbox.ts:98-105, thread-record.ts:79-91). *)
OnceEach(l) ==
  \A i, j \in DOMAIN l :
    l[i] = l[j] => \/ i = j
                   \/ l[i].kind # "answer" /\ l[i].msg \in again
                   \/ l[i].kind = "answer" /\ (late \/ l[i].msg \in again)

ItemsOnce == OnceEach(conv) /\ OnceEach(rec.items)

(* A kept steer is not lost: until a turn takes it as its input it is queued,
   stored as a steer, staged or applied, unless it was staged in a call that an
   interrupt cut (thread-record.ts:145-148, 23a-step-level-resume.md:176). *)
SteerKept ==
  unsaved \/ \A s \in kept \ cutStaged :
               \/ s \in Members(rec.steers)
               \/ Steered(s) \in Members(rec.items) \/ Input(s) \in Members(rec.items)

(* What the host saw answered, or interrupted, is in the stored history from
   then on: a turn is reported only once its record has ended, whoever
   interrupts it and whatever else is queued or fails - but for a failed save
   that was to take a turn off the record
   (agent-harness.ts:826-836, thread-record.ts:149-162). *)
AnsweredStored ==
  unsaved \/ \A m \in answered :
               \E x \in Members(rec.items) : x.msg = m /\ x.kind # "answer"

(* Whoever waits for a response hears of one, unless the error of a usage
   update escaped (session-runner.ts:181-202, 319-346) or the bound on
   executions ends the behaviour. *)
WaitersHear == waiting ~> (~waiting \/ unheard \/ turns = MaxTurns)

=============================================================================
