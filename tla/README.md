# Noetic: TLA+ models and proofs

Noetic is a TypeScript runtime for agents. A workflow is a tree of steps run
by an interpreter on a context that keeps an item log; a harness drives runs
and conversation threads, and, given a storage adapter, makes them durable: a
run that failed or was cut off by a crash is repeated from its last baseline,
and the steps it had completed are replayed from a ledger instead of run
again. This directory holds TLA+ modules that model the parts of it where
interleavings, failures and crashes decide correctness, the TLC configurations
that check them, and TLAPS proofs about them.

Run `tlc -config X.cfg M` on the pairs listed under "Runs", `tlapm M.tla` on
the proof modules.

## Inventory

Paths are under `packages/`. Concurrency is that of JavaScript: one thread,
any other task may run at every `await`.

| Component | State | Operations | What is hard | What makes it correct |
|---|---|---|---|---|
| Step ledger (`core/src/runtime/durable/step-ledger.ts`) | rows in storage, keyed by execution and sequence number; in memory the replayable entries, the live index, the next number | `load`, `adopt`, `take`, `record`, `drop`, `dropPaths`, `discardFrom`; private `prune`, `deleteSeq` | parallel legs record at once, each call awaits several storage calls, any may fail, the process may die | rows are never overwritten; memory and storage agree; nothing leaks; caps hold |
| Durable run (`core/src/interpreter/execute.ts`, `runtime/context-impl.ts`, `harness/agent-harness.ts`, `runtime/durable/harness-checkpoints.ts`) | item log, dispatch counts, run baseline, chain of captures, stored snapshot | `beginDurableRun`, `rebuildFromStorage`, `executeStep`, `checkpoint`/`saveCheckpoint`, `endDurableRun`, `restore` | a run repeated in place, on a new process, on another input, after saves that failed | each turn once on the log, a finished run is coherent and never replayed, a stored step does not run twice, runs end |
| Session (`core/src/runtime/session-runner.ts`, `message-queue.ts`, `harness/thread-record.ts`, `runtime/durable/session-store.ts`) | message queue, turn in flight, waiters, stored record {items, turn, steers, usage} | `execute`, `kick`, `runOneTurn`, `abort`, `resume`, `begin`, `end`, `addUsage`, `seed` | messages re-sent by an at-least-once host, interrupts in mid-turn, a crash between two writes | no message delivered twice into the history, none lost, a waiter always settles |
| Steer inbox (`core/src/harness/steer-inbox.ts`) | staged steers | `offer`, `takeStaged` | layers judge a steer while a sibling call takes it; retries of a call | a steer is applied once |
| Durable delivery (`platform-node/src/durable-outbound-queue.ts`, `agent-ipc-server.ts`, `agent-ipc-client.ts`) | persisted frames, head and last acknowledged number, client's highest delivered | `append`, `ackUpTo`, `frameRange`, `durableResume`, `durableAck` | a resume races live broadcasts; a crash between frame and counter; acknowledgements overlap appends | an unacknowledged frame survives and reaches the client exactly once |
| Webhook receiver (`platform-node/src/webhook-receiver.ts`) | seen and in-flight ids per endpoint | verify, prune, dispatch | redelivery while the handler runs, ids forgotten | a delivery is handled once per accepted timestamp |
| Connection pool (`core/src/connections/pool.ts`) | idle and leased connections, waiters | acquire, release, renew, reclaim, close, warm start | awaits inside the cap's arithmetic | in-use never over the cap, a lease has one holder |
| Channel store (`core/src/runtime/channel-store.ts`) | per-channel queue, parked senders and receivers, subscribers | send, recv, tryRecv, subscribe, external send, close | parked parties and external access | FIFO, capacity, no party parked beside what it waits for |
| Triggers (`core/src/connections/triggers.ts`) | stored cursor, inbox and seen set; listener, a chain of deliveries per thread | `start`, `redeliver`, `listenOnce`, `handle`, `deliver`, `deliverWithRetry`, `close` | an event named twice, a crash or a failed call between any two storage calls | no event lost, none delivered twice without cause |
| Event broadcaster, session streams (`core/src/runtime/event-broadcaster.ts`, `session-streams.ts`) | event buffer, consumers | emit, subscribe, leave | late and departed consumers | every consumer sees the log from its start |
| Spend (`core/src/harness/spend.ts`, `call-spend.ts`, `runtime/durable/spend-log.ts`) | a record per paid call in storage; holds and their ceilings per context, lookups, settlements, queued writes | `open`, `noteGeneration`, `settle`, `end`, `hold`, `leave`, `adopt`, `reconcile`, `writeOff` | a crash between a call and its charge; a hold moves while it is being settled | each bill charged once; a context holds exactly its open ceilings |
| Drains (`core/src/runtime/drain.ts`) | in-flight calls per subject | hold, track, drain | drain between hold and track | nothing starts after a drain |
| Control steps (`core/src/interpreter/execute-control.ts`, `execute-wait.ts`, ...) | none beyond the context | parallel, race, loop, spawn, wait | abandoned race losers | joins settle once |
| Model calls, context layers, ACP, MCP, artifact stores, subprocesses | protocol and I/O state | | external behaviour | outside these models |

How they interact: the session builds a context (or restores the cut-off
turn's) and runs the agent graph on it; the harness wraps the run in
`beginDurableRun` and `endDurableRun`; the interpreter dispatches each step,
asking the context for its path and the ledger for an answer; a completed step
is recorded in the ledger, then its root is checkpointed, both awaited; the
connection registry discards the ledger from the first entry recorded against
a replaced connection. Storage is shared by all and awaited by all.

## Modules

### `StepLedger` - the ledger of one execution

Variables: `rows` is storage; `up`, `replayable`, `live`, `nextSeq` the
`StepLedger` object (`replayable` and `live` are its maps, a missing key being
no row or `NoSeq`); `op[c]` the call that caller `c` has in flight, in one of
the phases between two awaits; `lost`, a history variable, the numbers of the
rows that a failed storage call or a crash stranded.

A caller is a concurrent leg of the run. `Dispatch` is `take` followed by the
step's body when the ledger does not answer; `Record` reserves the number and
calls the store, `Append`/`AppendFails` is the awaited write (which may be
reported failed and yet have landed), `Ack` makes the entry live,
`Replaced`, `Prune`, `Pruned` delete what it makes dead one awaited delete at a
time (each may fail, and is then only warned about), `Finish` returns.
`Drop`, `DropPaths`, `DiscardFrom` share the pruning phases. `Load` is a new
process building the ledger from storage, `Adopt` a run retried in place doing
so; both may find one row unreadable. `Crash` forgets everything but `rows`.

Payloads are abstracted to what the code compares: a hash of step id, kind and
input (`NoHash` when the input cannot be encoded, which matches any), and a
value that may be oversize. Paths are a set with the relation `Under`.

### `DurableRun` - one execution from end to end

Composes `StepLedger` (by INSTANCE; each step of the workflow is a caller) with
the context, the chain of captures, the snapshot and a host. `Start` begins a
run on a context at rest, `Retry` repeats an unfinished one as
`rebuildFromStorage` does; `Replay` and `Run` are the two branches of
`executeStep`, `Answer` and `StepFails` the outcomes of a leaf's body,
`Record`, `Recording`, `Checkpoint` the way out of `executeStep`. `chain` is the
promise chain of `saveCheckpoint`: `Capture` takes the snapshot when the
capture before it has settled, `SaveLands`/`SaveFails` settle it and wake who
awaits it. A capture holds the run's baseline while a run is under way and
the live log and count when there is none. The end of a run saves, then drops
its positional rows (`EndLands`, `Dropping`, `Dropped`) unless the save failed
(`EndFails`). `Crash` and `Restore` are the process's.

The workflow is a tree of steps (`Kids`, `Beneath`, `TreeAssumption`): what is
beneath a step is reached through its children, each step being the child of one. `executed`
is history: every input a body of some ordinal was given and what it answered.

Composite steps run their children in sequence; a composite's retry policy,
spawned children, loops (which repeat a path at a further ordinal) and parallel
legs are not in this module. A body answers any value; a step that repeats may
answer otherwise than it did.

### `Session` - one conversation thread

The host, the queue and runner, the steer inbox of the turn's model call and the
thread's stored record. `Send` is `execute()`, with its three ways in: an
interrupt to the head of the queue, a message that starts a turn, a message (or
a steer, which is also kept in the record) queued behind the one running.
`status` is what `getStatus` reports, "interrupted" and "aborted" being the
code's `aborting` with its reason. `pc` is where the runner stands in a turn:

    create -> steers -> begin -> run -> ready <-> streaming -> recordRound
           -> checkpoint -> ending -> keep -> clear -> clearLedger -> settle

`ops` is the promise queue of `ThreadRecord.run`: an operation of the record
is appended when the code calls it and takes effect when it is at the head,
so that `keepSteer`, called by the host at any moment, falls between the
turn's own operations in call order. `history` and `resume`, called one after the
other, are one operation (`Resume`, `Fresh`); a message that `keepSteer` puts
between them changes nothing that either reads. `Write` is a save, whose failure
is only warned about; a read that fails throws (`PrepareFails`, `EndThrows`,
`UsageFails`). A checkpoint goes in two storage calls, the snapshot before the ledger
(`Clear`, `ClearLedger`), and so does that of an abandoned turn: the step between the
two is told apart only where the record still names the turn, its save having failed
(`Abandon`, pc `abandon`).

`ck[e]` is what a restore of execution `e` finds: the snapshot, the items the
recorded rounds added, and whether the whole call is recorded. It stands for
`DurableRun` and `StepLedger`, which are about how it comes to be. `SaveBaseline`
is the run's first snapshot, saved in the background; with `SnapshotFirst` it is
stored before anything is recorded, without it may be late or fail.

The host sends each message once, and again only after a turn that failed or a
crash (`sent`, `answered`); `again`, `kept`, `cutStaged`, `late`, `unheard`,
`unsaved` are history variables for the properties. Left out: layers that judge or rewrite
steers, several model calls in one turn, records of a round still streaming
(a crash in mid-stream is as if they had not landed), `seedSessionHistory`, the
figures of usage.

### `Delivery` - durable frames over the agent's socket

`frames` and `meta` are the queue's storage, `head` and `acked` its counters in
memory. `app[s]` is the append source `s` has under way: `Start` takes the
number, `Persist` is the awaited write of the frame, `Flush` that of the meta
document, after which the frame is broadcast to the connected client.
`AppendFails` is either write throwing; a stream pump ends with it, an ask-user
broadcast does not. `Connect` is the client subscribing with `durableResume`:
`Range` lists the stored numbers, `Get` reads them one await at a time and the
whole replay is sent at the end. `AckUpTo` clamps to the head, deletes the
frames one at a time (`AckRange`, `AckDelete`) and writes the meta document
(`AckFlush`); any number of acknowledgements run side by side, as the server
does not await the handler of one line before it starts the next. `Receive` is
the client's deduplication by number, `mark` and `got` what its host keeps over
connections. `Disconnect`, `Crash` and `Listen` (recovery: the head is the
greatest number storage knows) are the environment.

`OrderedDelivery` is the abstract specification: a channel that delivers what
was sent, once and in order. `DeliversInOrder` says `Delivery` implements it
under the mapping `sent <- Frames(log)`, `received <- got`, in calm behaviours.

### `WebhookReceiver` - one verified endpoint and its sender

`seen` maps each remembered id to when it was accepted, `inFlight` holds the
ids whose handler runs. `Arrive` is a request until its body is read; then
`Refuse` (bad timestamp), `Duplicate` (seen or in flight) or `Dispatch`, which
prunes `seen` as the code does and starts the handler; `Handled` and `Throws`
end it. `Try` is the sender's next attempt with a fresh timestamp, `Post`
anybody posting an old one again, `Lost` an answer that does not arrive.
Timestamps and the receiver's clock are integers.

### `ConnectionPool` - leases, requests, the timer

`held` are the leases with the time left of each, `acq[s]` the request of scope
`s` between its awaits (`park`, `provision`, `lease`, ...), `pass` the timer's
`renewAll` followed by `sweep` (both go through a copy taken at their start),
`releasing` the releases between the delete of their record and the provider's
release, `live` what the provider has out and `user` what each run works with.
`Look` is one round of `connectionFor`; `Orphan` is a run that failed, and
`TakeBack` its coming back for the lease; `Finish` its end. Failures of the
provider and of storage are `StartFails`, `ProvisionFails`, `LeaseFails`,
`DeleteFails` and `RenewFails`. `Close` aborts the provider's calls and stops the
timer; `CloseNext` then releases the leases and the warm connections there were,
one at a time (`closing` is what is left of them), and wakes whoever waits.

### `ChannelStore` - one channel

One channel in any of its modes (value, topic, queue of some capacity, new or
refilled from a checkpoint), the steps that send and receive, external senders
and the external readers of one execution. `Send` hands a value to a parked
receiver, queues it, or parks the sender; `SendExternal` never parks; `Recv`
takes, promotes a parked sender, or parks; `GiveUp` is a timeout or an abort of
a parked step; `Read`, `Return` are a reader's `next` and `return`;
`CloseExecution` lets the first reader drain the queue and settles everybody,
`OpenExecution` resumes. All of it is synchronous in the code, so an action is
a whole call.

### `Triggers` - from event to turn

`inbox`, `seen` and `cursor` are stored. The listener (`phase`, `pos`,
`handling`) reads the source from the cursor and takes each event through the
awaits of `handle`; deliveries are chained per thread (`line`, `job`) through
those of `deliverWithRetry`. Both are under way at once. The source repeats
events, streams end, turns and storage calls fail, the process crashes and
`Start` delivers again what is left in the inbox.

### `Spend` - what paid calls cost

`rec[d]` is the stored record of paid call `d` (`bare`, `gen` with a generation
id, `torn` where it does not parse). `call[d]` follows the call: `opening`
while its record is written, `sent`, then `counted`, `refused`, `cut` or
`left`; `writes[d]` is the promise queue of its dispatch. `hold[d]` is the hold of a
pending record on a context and `heldCost` the sum the context is told,
`settling[d]` and `charging[d]` the settlement between its storage calls and
the session's. A `task` is one `adopt`, `reconcile` or `writeOff`. A ceiling
is one unit, unbounded, or still being asked for. `mem`, `kept`, `billed`,
`twice` and `lost` are history: where each bill went.

### `calm`

`Delivery`, `ConnectionPool` and `Spend` begin with a free choice of `calm`. In
a calm behaviour storage answers each call before the next event of the kind the module names,
and none fails; in the others calls overlap and fail as they may. Several
promises hold in calm behaviours only (the findings, and "Known divergences",
are what happens without). Such a property names `calm` explicitly; properties
that do not mention it hold always. Crashes, lost connections and time are not
restricted by `calm`.

### MC and proof modules

`MCX` instantiates `X` for TLC and defines no more than values and bounds of the instance.
`StepLedgerProofs`, `DurableRunProofs`, `SessionProofs`, `ChannelStoreProofs`, `TriggersProofs`,
`SpendProofs`, `ConnectionPoolProofs` and `PlatformNodeProofs` (`Delivery` and `WebhookReceiver`)
hold the theorems; see "Proofs". `Subsequences` is what `Session` and `ChannelStore` filter sequences
with: the standard `SelectSeq` is recursive, which the prover cannot expand.

## Runs

| Run | Question | Instance |
|---|---|---|
| `ledger` | Do memory and storage stay consistent whatever two legs, one failed storage call and one crash do? | a parent path with a child, a content key; 2 interchangeable callers; cap 2; 3 numbers; no calls left in flight at an in-place retry |
| `run` | Do log, snapshot and ledger stay consistent over runs, retries on the same or another input, failed saves, failed steps and crashes, and does every run end? | sequence(plan(a), send), 2 values, 2 finished runs, 3 starts, 1 failed body, 1 failed storage call, 2 crashes, 2 troubles in all |
| `session` | Do interrupts, aborts, failed storage calls and a crash at any moment duplicate or lose messages, or leave somebody waiting? | a steer and an interrupt; 4 turns, 1 round of tools, 1 failed turn, 1 failed storage call, 1 crash |
| `session_bare_resume` | Is history kept when a turn is cut off before its first snapshot landed? No: finding 1. | a message, a steer; 3 turns, 1 crash |
| `delivery` | Do unacknowledged frames survive and arrive, once and in order? | the item pump and ask-user broadcasts; 3 frames (2 if calls overlap), 1 lost connection, 1 failed call, 1 crash |
| `delivery_overtake` | Is an unacknowledged frame replayed exactly once whatever overlaps? No: finding 2. | as `delivery`, nothing fails or crashes |
| `webhook` | Is a message handled, and never twice for one attempt? | 1 message, 2 requests at a time, tolerance 1, skew 1, clock 0 to 4 |
| `pool` | Are connections never shared, lost or over the cap, and is whoever waits woken? | 2 runs, one content with a warm connection; max 1, 1 warm, leases last 1 tick; 2 requests, 1 failing call; closed once, in calm behaviours only (`ClosedIfCalm`) |
| `pool_race` | Does a returned lease stay returned? No: finding 3. | 2 runs, max 2, none warm, never closed, nothing fails |
| `channels` | Is every value delivered once, with nobody parked in vain? | 2 steps, 2 readers, capacities 0 to 2, buffers of 2, 4 sends, every mode |
| `triggers` | Is every event delivered, and not again without cause? | log of 5 events on 2 threads: one repeated, one without cursor, one filtered, one broken; 2 attempts; 1 each of failed turns, failed calls, ended streams, crashes |
| `spend` | Is every bill charged once, and held exactly until then? | 2 paid calls (1 where calls overlap or fail), 2 tasks at a time, 1 asked for by the host, 2 contexts, 2 failed calls, 1 crash |

Why the bounds are enough. `ledger`: two callers give every race between two
calls; parent, child and content key give every relation of two paths the
code distinguishes; one hash plus `NoHash` gives a match and a divergence;
three numbers let a path be recorded, replaced and recorded again across a
crash, and a cap of two makes both branches of `retainable` reachable. `run`:
the smallest workflow with a leaf beneath a composite that is not the root; two
values tell a changed input from the same; a third start after two troubles is
what it takes for an old entry to outlive a newer one. Its first input is
fixed (`FirstInput`): values are only compared. `session`: one message of each
disturbing kind is enough for every relation of a new message to the running
turn; of four turns one is cut off, one resumes or abandons it and one builds
on the history. `delivery`: with three frames an acknowledgement can delete one, a
replay list one and a broadcast overtake both. `webhook`: the clock runs
past the point where an id accepted at 0 is pruned (twice the tolerance) while
an attempt stamped ahead by the skew is still fresh. `pool`: one connection and two runs are the smallest
instance where one must wait; two requests let a scope come back to a lease.
`channels`: four values fill a queue of two, a parked sender and one more.
`triggers`: a repeated event may meet its first delivery at every step. `spend`:
a hold needs two contexts to move, a settlement a second task to race with;
two failed calls are a write that fails and the retry of what it left.

`CHECK_DEADLOCK FALSE` everywhere: the models stop when the bounds are used up,
and a host that starts nothing further is not a fault. Liveness properties and
the invariants about parked parties say what must not get stuck.

Each property of a passing run has a mutant (the definitions marked "Mutant" in
the modules): a plausible bug of the code under which TLC finds the property
violated.

### Properties

* `NoRowOverwritten` (action): no step replaces a stored row under the same
  number.
* `LiveIsStored`: what the index points at is stored and at that path, so
  prunes delete what they mean to.
* `ReplayIsDurable`: what memory would answer is what a restarted process
  would answer.
* `NoLeakedRow`: a stored row is live, in a call's hands, or stranded by a
  failure.
* `LogHoldsEachStepOnce`: no item twice on the log, none out of order; the
  snapshot and a context at rest hold whole runs only.
* `FinishedRunIsCoherent` (action): when a run finishes, the items behind its
  baseline are one item of every leaf, each an answer really given to the
  answer before it, and the last is the output.
* `FinishedRunNotReplayed`: no later run stands at the paths of a run whose
  last snapshot landed.
* `StoredStepNotRerun` (action): a step with a stored result on this input, in a
  row no failure stranded, does not run again, unless a step above it
  has its live result on another input.
* `RunEnds` (liveness).
* `ItemsOnce`: no steer, input or answer is twice in the conversation or in the
  stored history, except for a message the host sent again after it had been
  delivered or answered, and the answer of a turn lost between its recording and its end
  (such a turn "runs again as a new turn"). Answered counts too: with two failed calls and a
  crash ("Failed save" below) a turn resumes on an empty context, and the history
  then holds the answer to a message without the message.
* `SteerKept`: unless such a save failed, a steer whose record landed is stored, queued or delivered at all
  times, whatever turn fails, crashes or is interrupted. Excepted is a steer
  staged in a call that an interrupt cuts: the record drops it, as it does
  those "applied or dropped" (`thread-record.ts:147`).
* `HistoryGrows` (action): the stored history is only ever extended, unless a save
  failed that was to take a turn off the record (`unsaved`; "Failed save" below).
* `AnsweredStored`: what the host saw answered or interrupted is in the history, with the same
  exception.
* `WaitersHear` (liveness): a waiter is settled, unless the usage of the turn
  fails to be stored twice, in which case the error leaves the runner before
  anyone is told (`unheard`).
* `UnackedStaysStored` (action): a stored frame is never overwritten and is
  deleted only after its number was acknowledged.
* `DeliversInOrder` (refinement): calm behaviours implement `OrderedDelivery`,
  over lost connections and a crash (two may break it: "Queue numbers" below).
* `FramesArrive` (liveness): no stored frame stays behind the host's watermark,
  unless a storage call fails.
* `ReplayedExactlyOnce`: the comment's promise, refuted by `delivery_overtake`.
* `HandledOnce` (action): an id that was handled starts a handler again only
  for an attempt stamped more than the tolerance after that.
* `EveryMessageHandled` (liveness): a sender that keeps trying is served, unless
  the endpoint closes.
* `NeverShared` (action): a connection handed to one scope is never handed to
  another, whatever overlaps or fails.
* `HolderKeepsConnection`, `WithinMax`, `NothingLeaks` (calm): a run's
  connection is neither reclaimed nor replaced under it; the cap holds
  counting what is being provisioned; every connection has somebody to return it.
* `WaitersAreWoken` (liveness, calm): a parked request is woken before its timeout
  has to end it.
* `ReturnedStaysReturned`: the comment's promise, refuted by `pool_race`.
* `NobodyParkedInVain`: no receiver is parked beside a value, no sender beside room.
* `LinesAreAlive`: who is in line waits there, once; who waits is in line.
* `EveryValueOnce`: values of a queue channel are queued, parked, taken once or
  given up; each of the two kinds of sender is served in its order.
* `ReaderMissesNothing`: a topic's reader holds exactly what was sent since it
  subscribed, less the oldest that did not fit; a value's reader the current one.
* `NothingLost`: an event behind the cursor, or marked as seen, had its turn, is
  in the inbox, was dead-lettered or filtered.
* `OneTurnPerTrouble`: one turn per event and one more per crash, failed call, or
  repetition whose two lookups straddle the end of the first delivery.
* `EveryEventDelivered` (liveness): every event ends recorded as done unless
  left to the next start.
* `HeldIsExact`: a context's held cost is the number of bounded holds on it; at
  rest in a calm run each pending record is held on the run's own context.
* `EveryBillOnce`: a bill is charged once, and once more at most for each
  settlement that took the record of a call which counts its own bill or still
  writes; what was billed and not charged has its record, or was lost with a
  crash or failed call.

### Fairness

`DurableRun!Spec` assumes weak fairness of `RunStep`: the interpreter's own
continuations, the promise chain of captures and the awaited storage calls. The
JavaScript event loop runs every resolved continuation, and the model's
storage settles every call, by success or by error: a storage call that never
settles stalls the code too, which waits for it without a timeout. Failures,
crashes, starts and restarts are not fair. A crash ends the obligation.

`Session!Spec` assumes the same of `TurnStep`: the runner, the record's queue
and the model call, which is assumed to end (the code has an idle watchdog on the
stream, `model-call.ts`). What the host does is not fair.

`Delivery!Fairness`: storage answers (each source's writes, the replay, the
acknowledgements), a client connects again, reads its socket, and a crashed
server is started again: the reconnecting client and the supervised process
are the setting the module's code is written for. Nothing is assumed to be
acknowledged.

`WebhookReceiver!ReceiverFairness`: a request is served (weak); the sender tries again as
long as it has no answer, and a handler that is tried for ever succeeds at some
time (strong: an attempt in between may find all requests busy or fail). It is the setting of
at-least-once senders the code names.

`ConnectionPool!Fairness`: storage and provider answer, the timer's pass
and a close proceed, time passes and runs end. `Tick`, `Work` and `Finish` are strong:
a pass, which comes round every few seconds, disables them now and then in a
calm behaviour. `ChannelStore` has no liveness property: whether a parked step is served is
up to its peers.

`Triggers!Spec`: the listener's and each delivery's continuations run (weak).
Failures are not fair. `Spend` and `StepLedger` are checked for safety only.

## Findings

Each is a violation run; the counterexample is the smallest TLC finds.

1. Resume without a snapshot (`session_bare_resume`). The first snapshot of a run
   is not awaited (`agent-harness.ts:1118`). A crash after the first recorded
   round and before it is stored leaves a ledger only; `restore` then gives a
   context that "starts empty", and the session takes it instead of the
   history (`agent-harness.ts:753-758`). The turn answers without its own
   message, and its end stores that conversation over the thread's history.
2. A broadcast overtakes (`delivery_overtake`). `durableResume` reads the stored
   frames one await at a time and sends them at the end; a frame appended
   meanwhile is sent at once, with the higher number, and the client drops the
   replay as repetitions (`agent-ipc-client.ts:582`). So do two overlapping
   appends. The frames stay unsurfaced, though a later acknowledgement of the
   watermark deletes them.
3. A returned lease comes back (`pool_race`). `renewAll` goes through a copy
   of the leases and awaits storage for each; a lease released meanwhile is put
   back by `held.set` (`pool.ts:414`), for a connection the provider has taken
   back.

### Known divergences without a run

The modules exhibit these too; each is an exception named in a property.

* Ledger cap. `maxEntries` (`step-ledger.ts:121`) is compared before the write
  is awaited (`:634`) and the entry counted after it (`:501`): parallel legs
  overrun it.
* Ledger overlap. A leg abandoned by a race records while the run is retried in
  place; its `record` then deletes its own row as "the entry it replaces"
  (`:501-505`). `RetryOverlaps` turns it on.
* Stale parent. `take` discards everything beneath a diverging entry
  (`:462-468`), also what a later retry recorded on another input: a repeated
  step, hence the exception in `StoredStepNotRerun`.
* An older snapshot. `rebuildFromStorage` takes whatever snapshot is stored
  (`agent-harness.ts:1143`), though a save that failed may have left it older
  than the in-memory baseline.
* A steer twice. A turn that had recorded its call replays it without a steer
  point; its steers stay queued (`specs/23a-step-level-resume.md:176` says a
  steer is not applied again). `again` and `late` in `ItemsOnce`.
* Failed save. `end` only warns when its save fails (`thread-record.ts:186-201`), and the
  checkpoint is cleared all the same, the snapshot first (`clearCheckpoint`). A crash, or a
  failed call, between the two leaves the turn on record with its ledger alone; when its messages
  arrive again it is resumed on an empty context, with the consequence of
  finding 1. It takes two failures: `unsaved` in `HistoryGrows`.
* Triggers. The lookups of a repeated event may straddle the end of the first
  delivery (`triggers.ts:280-285`), which starts a second turn: `raced`.
* Pool. A lease whose record cannot be deleted leaves `release` with its
  connection neither leased nor returned (`pool.ts:174`): deletes do not fail in
  calm behaviours. `close` "releases every connection" (`:237`), but a request
  already past the closed check gets its lease afterwards and, should its run
  fail, keeps it: the timer sweeps no more. `NothingLeaks` counts it as leased.
* Spend. A generation id whose write lands after a write-off brings the record back
  (the comment at `spend.ts:528-529` expects otherwise); a call leaves the
  live ones before its delete lands, so a reconciliation may take its record; a delete that fails
  leaves a record that is charged again: all counted by `twice`. A `leave` after a restore
  moves a hold to the old context, and a restore whose listing straddles a
  settlement holds a record that is gone: `HeldIsExact` claims the calm case.
* Queue numbers. `durable-outbound-queue.ts:22-24` says a number is never reused; frames are
  deleted before the meta document is written (`AckDelete`, `AckFlush`), so a
  crash in between may bring back a lower head and a number that a host has
  surfaced already. It takes two crashes: `delivery` allows one. With
  `MaxCrashes = 2` TLC finds the rest of it: the number goes to a new frame, which the host, whose
  mark has passed it, never asks for.

## Proofs

All are for every value of the constants that satisfies the modules' named
assumptions; the bounds on faults, crashes and the like are never used, save
that history stays finite, and for `InOrderOverOneCrash`, which says so.

`StepLedgerProofs`:

* `TypeCorrect`: `Spec => []TypeOK`.
* `RowsNeverOverwritten`: `Spec => NoRowOverwritten`. `TypeOK` alone is not
  inductive for it. `NumbersInv` says: every stored row's number is below
  `nextSeq` while the process is up; a number in the hands of a call that has
  not written is below `nextSeq`, held by no other call and by no stored row.
  `Load` re-establishes it because `FreshSeqs` lies above every stored key,
  readable or not; `Adopt` because the counter never decreases.
* `LiveEntriesStored`: `RetryOverlaps = FALSE => (Spec => []LiveIsStored)`.
  `LiveInv` adds that a number being deleted is not live, that a call waiting to
  acknowledge has its row stored and not live, and that the live numbers of two
  paths differ. The assumption is needed: see "Ledger overlap".
* `NoRowLeaks`: `Spec => []NoLeakedRow`, with no such assumption.
* `ReplayedIsDurable`: `RetryOverlaps = FALSE => (Spec => []ReplayIsDurable)`,
  with the invariant `NotReplayed`: a path whose outcome is being recorded has
  nothing a dispatch could be answered with, so no newer row appears beside
  an answer.

`PlatformNodeProofs`, on the receiver: `ReceiverTypeCorrect`, and `HandlesOnce` (`Spec =>
HandledOnce`), for every tolerance, skew and number of requests. The invariant
adds that nothing is remembered or handled in the future (`NotAhead`) and that
what was handled is remembered, with a time at least as late, until twice the
window has gone by (`Remembered`): an attempt fresh enough to pass after that
is stamped more than the tolerance after the completion.

`TriggersProofs`: `TypeCorrect`, `EventsNotLost` (`[]NothingLost`) and
`TurnsBounded` (`[]OneTurnPerTrouble`), for every log and number of threads. The
invariant says that a chained event is in the inbox, once and on its own thread,
and was recorded before its entry goes (`Lines`), that what the listener has
read is settled but for the event in its hands (`Kept`), and for the bound that
an event still waiting for a turn has one to spare (`Budget`).

`PlatformNodeProofs`, on the queue: `QueueTypeCorrect` and `UnackedKept` (`Spec => UnackedStaysStored`).
The inductive invariant says that a server counts from a head no stored frame
is above and that no meta document, stored or about to be, has a watermark
above its head (`Below`), that a number on its way to storage is one append's
and no stored frame's (`Appends`), and that an acknowledgement under way only
deletes what was acknowledged (`Acks`). Recovery re-establishes it because the
recovered head is at least every stored number.

The refinement of `OrderedDelivery` is proved for calm behaviours, step by step: storing a frame
is the abstract send, `Receive` the abstract delivery or, for a number the host has surfaced, a
stutter; everything else stutters. The invariant `CalmInv` says that one storage call is under way at a time
(`Alone`), that the log is numbered upwards (`Ascending`) and a number about to be
used is above it (`FreshNumbers`), that a logged frame the host has not surfaced is stored
(`KeptFrames`), that what the host was given is the log up to its mark (`Given`), and that what is on the wire or
being replayed is the stretch of the log after it (`Travelling`, `Replaying`). It is
inductive as long as no restart recovers a head below a number on the log
(`HeadSurvives`): `DeliversWhileHeadSurvives` (`Spec /\ [](calm => HeadSurvives) => DeliversInOrder`).
`HeadSurvivesOneCrash` then shows, with `HeadInv` (until the first crash the meta
document follows the head, so that each logged frame is stored or not above the document), that one
crash cannot take the head back, so that `InOrderOverOneCrash` has no hypothesis left but
`MaxCrashes \in 0..1`. That is what the `delivery` run checks, for one crash and two sources; for
two crashes the statement is false.

`SpendProofs`: both properties of the `spend` run. `HeldExactly`
(`[]HeldIsExact`), `BilledOnce` (`[]EveryBillOnce`), and `InFlightUntouched`
(`[]Untouched`). `IInv` has the types, the sums of the holds (`HoldsAddUp`), the
order of a dispatch's queued writes (`Queued`), that a call in flight is
never held, settled or charged (`Untouched`), that a record that may still be taken has a bill
not charged (`Once`), that whoever was billed pays, is recorded or was lost
(`Accounted`), and, for calm behaviours, that nothing overlaps a write (`Calm`) and that a restore leaves
every pending record held on the new context (`Resumable`).

`ConnectionPoolProofs`: `TypeCorrect`; `ConnectionsNeverShared` (`Safety =>
NeverShared`), which holds even when calls overlap and fail, from `SharedInv`: a
lease's connection was handed to its own scope (`Owned`), one in a request, the
idle pool or the starter was handed to nobody (`Fresh`) and is in no other of those
places (`Apart`), and none is numbered above what was made (`Below`). For calm behaviours `CalmInv` adds what a pass of the timer can be in the middle of
(`Passes`), that a scope asks or holds but not both (`Sides`), that the connections out are
those in some place (`Places`), and that it is in one place
(`Distinct`): `NoConnectionLeaks` and `HoldersKeepConnections` follow.
`NeverOverMax` adds `Cap`, which counts a scope that has or is getting a
connection once (`Taken`), so that a connection handed from the idle pool to
a request, then to a lease, does not change the sum; `TakenSum` relates it to the
sum the code computes.

`SessionProofs`: `TypeCorrect` (`Safety => []TypeOK`) and `EachItemOnce` (`Safety =>
[]ItemsOnce`), whether or not `SnapshotFirst`, and three
theorems for `SnapshotFirst`, without which finding 1 refutes them. `HistoryOnlyGrows`
(`Safety => HistoryGrows`): `HistoryInv` holds until a save fails that
was to take a turn off the record: the record's queue holds one operation of the runner's beside
the steers to keep (`OneOp`); executions are numbered in the order they are made (`Numbered`);
what a restore of the turn on record finds begins with the stored history, or is
nothing at all (`Named`, and `Preparing` for the turn about to be put on record); a running turn has
its first snapshot or is about to save it (`Backed`); and a turn's log begins with
the stored history until it has ended, when the turn is off the record (`Grounded`). So
the conversation that `End` stores begins with what was stored.
`AnsweredIsStored` (`[]AnsweredStored`): a message is told answered only when the operation that stores
its turn's conversation is done, and the history, which only grows, keeps it. `SteersAreKept`
(`[]SteerKept`) follows a kept steer through the places it may be in: on record until a
turn begins with it or ends without it in the queue, and then in that turn's
conversation, its checkpoint or the history. `HistoryOnlyGrows` and `TypeCorrect` are what both
rest on.

`EachItemOnce` has an invariant of its own, `ItemsInv`, which no failed save ends. What waits is
waiting once: nothing is twice in the queue, among the staged steers or in the batch
(`QueueOnce`), and nothing queued is also being delivered (`Apart`), but for messages sent again; the
record keeps no steer twice (`SteersOnce`), and a steer is staged only while the
conversation has it not (`StagedNew`). A message that may still be delivered is no input of the
stored history, nor answered there (`ComingNew`); for that, whatever the record's end is to keep as a steer
must be in the queue (`EndKeeps`, `Behind`), not in the turn that just ended. Then `LogInv`, about
logs: neither the conversation, nor the stored history, nor what a restore of any
execution makes of its snapshot and ledger holds an item twice (`ConvOnce`, `StoredOnce`,
`LogsOnce`, `TailOnce`); the conversation extends the base with what was recorded
(`Grown`, `Snapped`, which lets `RecordRound` cut the ledger's items from it); each item is a steer, of the stored history, or
this turn's input or answer (`LogKnown`, `TailKnown`, `RecKnown`); and a turn whose answer is in
its log does not ask the model again, unless its message was sent again or a turn was lost
late (`LogAnswered`, `RecAnswered`, `Cleared`). The proof first failed at `Fresh`: `again`
left out messages answered but not stored, and TLC confirmed with two
failed calls and a crash, beyond the bounds of the `session` run, that `ItemsOnce` did not
hold. `Delivered` now looks at answers as well. `ItemsInv` was then checked with 2 messages, one of
them a steer, 4 turns, 2 failed calls, a failed turn and a crash (16.4 million states), and for
3 failed calls and for a snapshot that is not awaited.

`ChannelStoreProofs`: all five invariants of the `channels` run, for any steps, readers,
capacities, buffers and number of sends. `StoreInv` adds to the types: who is in line is
parked there, once, in one line only (`LineInv`); a parked receiver
stands beside an empty queue and a parked sender beside a full one (`ParkInv`); the
values of a queue channel, taken, queued, parked or given up, are those sent, each once, each kind of
sender's in order (`Account`); and an open reader's buffer is the newest part of what it is owed
(`ReadInv`). The proof first failed in `Buffered`, whose two cases overlapped for a conflating
reader with a full buffer; the definition now tests `conflate` first, as the code does
(`channel-store.ts:838`).

`DurableRunProofs`: for every tree of steps in sequence and any values, runs, failures and
crashes. `TypeCorrect` and `FinishedRunsNotReplayed` (`[]FinishedRunNotReplayed`) rest on
`BaseInv`: the ledger's types hold for this composition (`LedgerInv`, proved through the instance
`L`); at most one awaited capture is queued, behind at most the run's first
(`ChainInv`); and the ordinal a finished run was closed with is below that of the stored
snapshot, which is not above that of a capture under way, and that not above the one the next run
takes (`Counts`). So neither a late nor a failed save takes the ordinal back to a closed one.

`LogIsOnce` (`[]LogHoldsEachStepOnce`) and `FinishedRunsCoherent` (`Spec =>
FinishedRunIsCoherent`) need `RunStory`. `Tells(l, k, o, v, w, S, E)` says that behind its first
`k` items the log `l` has one item of ordinal `o` for each leaf of `S`, that each is an answer
a body gave (in `E`) to the answer before it, `v` being the first input, and that the last is `w`.
The invariant says that behind the baseline's log the log tells of the leaves before the step
the run is at, and behind the mark of each step the run is inside of that step's part of them
(`StoryInv`); that every row, every entry that may be replayed and every row on its way to storage
holds the items of the leaves beneath its step, and tells a story from the input it is stored
under to the output stored (`RowsInv`); that a call in flight belongs to a step the run is inside, at
its path and on its input (`Calls`); and that what a run may start from, be it the snapshot, a capture,
the baseline or the log at rest, is in order and holds whole runs only (`LogInv`). When the
last snapshot of a run lands `executed` forgets the bodies of its ordinal and those before, so
a row is only known to tell a story while its ordinal is above the closed ones (`GoodRow`);
`BaseInv` says that no run meets any other row.
`StoredStepsNotRerun` (`Spec => StoredStepNotRerun`) adds what the ledger `Remembers`. Memory and storage agree
(`KeysInv`: stored numbers differ, a live entry is stored, a stored row is live, in a
call's hands or stranded); a call in flight writes at its own path and prunes beneath it
(`CallInv`); an answer is stored and live, and a path being run has none left
(`ReplayInv`). Then `ComingInv`: whatever is live at a step the run has not come to (`Ahead`) is still
answerable, unless a step it is beneath runs on another input than its own live row
was recorded on (`Overtaken`); `LaterInv` says the same of later runs, whose
paths no step of this one touches. A row not stranded is live when its step is
dispatched, so it answers, or the step is overtaken.

The tree lemmas (`BeforeKid`, `BeforeNext`, `BeforeLast`, ...) say how the set of leaves behind a
step grows as the run goes from child to child; the story lemmas how a story is cut, joined
and kept.

Each proof has a lemma for the initial states, one per action that disturbs the
invariant, and a temporal theorem over them.

Model-checked only: liveness (`RunEnds`, `WaitersHear`, `FramesArrive`, `EveryMessageHandled`,
`WaitersAreWoken`, `EveryEventDelivered`) and
the fairness it needs, which the prover does not handle.

## What is left

* `DurableRun`: parallel legs and spawned children; a second run of a context
  that begins while the first one's end is being saved.
* `Session`: records of a round in mid-stream, sibling calls on one queue.
* `Delivery`: several clients of one agent, pending ask-user requests replayed
  to a new subscriber.

## Not modelled

Event broadcaster, drains and control steps: synchronous or of little state of
their own; where another component depends on them (an abort after a drain,
legs abandoned by a race) that component's module has the effect as an
action. Prompt assembly and context layers (data transformation that runs user hooks),
model providers and their streams, ACP and MCP adapters, file and artifact
stores and subprocesses (I/O: storage is the environment of these models), the
builders, schemas, evaluation and verification tooling, the user interfaces
and documentation sites. They are most of the repository's lines; the modules
here cover the parts in which interleavings, failures and crashes decide
whether the runtime keeps its promises.
