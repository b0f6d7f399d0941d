------------------------------ MODULE DurableRun ------------------------------
(***************************************************************************)
(* One durable execution from end to end: a host that starts runs of a     *)
(* workflow on a root context, the interpreter that dispatches the steps   *)
(* of the workflow (interpreter/execute.ts), the context that keeps the    *)
(* item log, the dispatch counts and the run baseline                      *)
(* (runtime/context-impl.ts), the chain of checkpoint captures             *)
(* (harness/agent-harness.ts), the stored snapshot                         *)
(* (runtime/durable/harness-checkpoints.ts) and the step ledger            *)
(* (StepLedger).  The process may crash anywhere and be restarted; a run   *)
(* that failed or was cut off may be retried, on the same input or on      *)
(* another.                                                                *)
(*                                                                         *)
(* The workflow is a tree whose composite steps run their children in      *)
(* sequence, each on the output of the one before it, as a `sequence`      *)
(* does.  Steps in parallel are the subject of StepLedger.                 *)
(***************************************************************************)
EXTENDS Integers, Sequences, FiniteSets

CONSTANTS
  Node, Root,   \* the steps of the workflow, and the outermost one
  Kids,         \* Kids[n]: the children of n in order, <<>> when n is a leaf
  Beneath,      \* Beneath[n]: the steps strictly beneath n
  Value,        \* inputs and outputs
  None,
  MaxRuns,      \* bound: successful runs, hence root ordinals
  MaxStarts,    \* bound: times the host starts a run
  MaxStepFails, \* bound: steps that throw
  MaxSeq, MaxFaults, MaxCrashes,  \* bounds of StepLedger
  MaxTrouble    \* bound: failures and crashes together

ASSUME WorkflowAssumption ==
  /\ Root \in Node
  /\ Kids \in [Node -> Seq(Node)]
  /\ Beneath \in [Node -> SUBSET Node]
  /\ \A n \in Node : Beneath[n] = UNION {{k} \cup Beneath[k] : k \in {Kids[n][i] : i \in DOMAIN Kids[n]}}
  /\ None \notin Value
  /\ "begin" \notin Node /\ "end" \notin Node
  /\ MaxRuns \in Nat

(* The steps are a tree: each is at one place, nothing is beneath itself, what is
   beneath a step is reached through its children, and two children share nothing. *)
Tree(n) == {n} \cup Beneath[n]

ASSUME TreeAssumption ==
  /\ IsFiniteSet(Node) /\ Node = Tree(Root)
  /\ \E n \in Node : Kids[n] = <<>>
  /\ \A n \in Node : n \notin Beneath[n] /\ \A m \in Beneath[n] : Beneath[m] \subseteq Beneath[n]
  /\ \A n, m \in Node : \A i \in DOMAIN Kids[n], j \in DOMAIN Kids[m] :
       Kids[n][i] = Kids[m][j] => n = m /\ i = j
  /\ \A n \in Node : \A k \in Beneath[n] : \E m \in Tree(n) : \E i \in DOMAIN Kids[m] : Kids[m][i] = k
  /\ \A n \in Node : \A i, j \in DOMAIN Kids[n] : i # j => Tree(Kids[n][i]) \cap Tree(Kids[n][j]) = {}

VARIABLES
  rows, up, replayable, live, nextSeq, op, lost, faults, crashes,  \* the ledger
  snap,      \* the stored snapshot: item log and dispatch count of the root
  log,       \* the context's item log
  ordinal,   \* the context's count of dispatches of the root step
  baseline,  \* the run baseline, or None between runs
  chain,     \* checkpoint captures queued for the execution
  captured,  \* what the capture being saved holds, or None
  pc, cur,   \* what the run is doing, and the step it is at
  runOrd,    \* ordinal of the root step in the run
  inp, out,  \* input and output of each step of the run
  mark,      \* length of the log when each step was dispatched
  executed,  \* history: <<ordinal, leaf, input, output>> of the bodies that succeeded
  closed,    \* history: ordinals of finished runs whose last snapshot landed
  starts, stepFails

ledger == <<rows, up, replayable, live, nextSeq, op, lost, faults, crashes>>
store  == <<snap, chain, captured>>
ctx    == <<log, ordinal, baseline>>
run    == <<pc, cur, runOrd, inp, out, mark>>
ghost  == <<executed, closed>>
bounds == <<starts, stepFails>>
vars   == <<ledger, store, ctx, run, ghost, bounds>>

Leaf == {n \in Node : Kids[n] = <<>>}
Ordinal == 0 .. MaxRuns

(* A step's path: only the root's ordinal ever passes zero, for the counts
   beneath a step are dropped when it settles. *)
Path == [ord : Ordinal, node : Node]
PathOf(n) == [ord |-> runOrd, node |-> n]
Under == [p \in Path |-> {[ord |-> p.ord, node |-> m] : m \in Beneath[p.node]}]

(* A leaf appends one item; the item names the step and what it answered. *)
Item == [ord : Ordinal, node : Leaf, out : Value]
Log == Seq(Item)
Recorded == [out : Value, items : Log]
Baseline == [log : Log, ordinal : Ordinal]
ASSUME NoBaselineAssumption == None \notin Baseline

L == INSTANCE StepLedger WITH
       KeyPath <- {}, Hash <- Value, NoHash <- None, Val <- Recorded, Oversize <- {},
       Caller <- Node, MaxEntries <- Cardinality(Path) + 1,
       RetryOverlaps <- FALSE, NoRow <- None

Unset == [n \in Node |-> None]

Init ==
  /\ L!Init
  /\ snap = None /\ chain = <<>> /\ captured = None
  /\ log = <<>> /\ ordinal = 0 /\ baseline = None
  /\ pc = "ready" /\ cur = Root /\ runOrd = 0
  /\ inp = Unset /\ out = Unset /\ mark = [n \in Node |-> 0]
  /\ executed = {} /\ closed = {}
  /\ starts = 0 /\ stepFails = 0

-----------------------------------------------------------------------------
(* Starting a run. *)

(* beginRun fixes the baseline, queues a capture nobody awaits, and the root
   step is dispatched at the context's next ordinal. *)
BeginRun(v, start) ==
  /\ log' = start.log
  /\ baseline' = start
  /\ runOrd' = start.ordinal
  /\ ordinal' = start.ordinal + 1
  /\ chain' = Append(chain, "begin")
  /\ pc' = "dispatch"
  /\ cur' = Root
  /\ inp' = [inp EXCEPT ![Root] = v]
  /\ starts' = starts + 1

MayStart ==
  /\ pc = "ready"
  /\ starts < MaxStarts
  /\ ordinal < MaxRuns

(* A run on a context whose last run finished, or that has run nothing. *)
Start(v) ==
  /\ MayStart
  /\ baseline = None
  /\ BeginRun(v, [log |-> log, ordinal |-> ordinal])
  /\ UNCHANGED <<ledger, snap, captured, out, mark, ghost, stepFails>>

(* A run on a context whose last run failed stands at what storage holds:
   the captures still queued are awaited, the snapshot's baseline (or the
   one in memory, when there is none) and the stored ledger are taken. *)
Retry(v) ==
  /\ MayStart
  /\ baseline # None
  /\ chain = <<>>
  /\ BeginRun(v, IF snap # None THEN snap ELSE baseline)
  /\ L!Adopt({})
  /\ UNCHANGED <<snap, captured, out, mark, ghost, stepFails>>

-----------------------------------------------------------------------------
(* Running the steps. *)

(* The step the run is at has an output: go on with the next one. *)
Parent(n) == CHOOSE m \in Node : \E i \in DOMAIN Kids[m] : Kids[m][i] = n
Index(n) == CHOOSE i \in DOMAIN Kids[Parent(n)] : Kids[Parent(n)][i] = n
IsLast(n) == Index(n) = Len(Kids[Parent(n)])

(* The root settled: the run is over, its baseline is dropped and the live
   log and count are captured behind what is queued. *)
EndRun(waiting) ==
  /\ baseline' = None
  /\ chain' = Append(waiting, "end")
  /\ pc' = "ending"
  /\ UNCHANGED <<cur, inp>>

Proceed(n, answer, waiting) ==
  \/ /\ n = Root
     /\ out' = [out EXCEPT ![n] = answer]
     /\ EndRun(waiting)
  \/ /\ n # Root /\ ~IsLast(n)
     /\ out' = [out EXCEPT ![n] = answer]
     /\ cur' = Kids[Parent(n)][Index(n) + 1]
     /\ inp' = [inp EXCEPT ![cur'] = answer]
     /\ pc' = "dispatch"
     /\ chain' = waiting
     /\ UNCHANGED baseline
  \/ /\ n # Root /\ IsLast(n)
     /\ out' = [out EXCEPT ![n] = answer, ![Parent(n)] = answer]
     /\ cur' = Parent(n)
     /\ pc' = "record"
     /\ chain' = waiting
     /\ UNCHANGED <<inp, baseline>>

(* The ledger answers: the recorded items go back on the log and the body
   does not run; nothing is recorded or checkpointed. *)
Replay ==
  /\ pc = "dispatch"
  /\ \E r \in L!Answers(PathOf(cur), inp[cur]) :
       /\ log' = log \o r.val.items
       /\ Proceed(cur, r.val.out, chain)
  /\ mark' = [mark EXCEPT ![cur] = Len(log)]
  /\ UNCHANGED <<ledger, snap, captured, ordinal, runOrd, ghost, bounds>>

(* It does not: the body runs, a composite's by dispatching its first child. *)
Run ==
  /\ pc = "dispatch"
  /\ L!Answers(PathOf(cur), inp[cur]) = {}
  /\ L!Dispatch(cur, PathOf(cur), inp[cur])
  /\ mark' = [mark EXCEPT ![cur] = Len(log)]
  /\ IF cur \in Leaf
     THEN pc' = "body" /\ UNCHANGED <<cur, inp>>
     ELSE /\ cur' = Kids[cur][1]
          /\ inp' = [inp EXCEPT ![cur'] = inp[cur]]
          /\ UNCHANGED pc
  /\ UNCHANGED <<store, ctx, runOrd, out, ghost, bounds>>

(* A leaf's body succeeds with some answer and appends its item. *)
Answer(v) ==
  /\ pc = "body"
  /\ out' = [out EXCEPT ![cur] = v]
  /\ log' = Append(log, [ord |-> runOrd, node |-> cur, out |-> v])
  /\ pc' = "record"
  /\ executed' = executed \cup {<<runOrd, cur, inp[cur], v>>}
  /\ UNCHANGED <<ledger, store, ordinal, baseline, cur, runOrd, inp, mark, closed, bounds>>

(* Mutant: the failed dispatch is given back twice. *)
StepFails_ReleasesTwice ==
  /\ pc = "body"
  /\ stepFails < MaxStepFails
  /\ stepFails' = stepFails + 1
  /\ op' = [n \in Node |-> L!Idle]
  /\ ordinal' = runOrd - 1
  /\ pc' = "ready"
  /\ cur' = Root
  /\ inp' = Unset /\ out' = Unset /\ mark' = [n \in Node |-> 0]
  /\ UNCHANGED <<rows, up, replayable, live, nextSeq, lost, faults, crashes,
                 store, log, baseline, runOrd, ghost, starts>>

(* A leaf's body throws: every step above it throws too, the root gives its
   ordinal back, and the baseline stays for the run's retry. *)
StepFails ==
  /\ pc = "body"
  /\ stepFails < MaxStepFails
  /\ stepFails' = stepFails + 1
  /\ op' = [n \in Node |-> L!Idle]
  /\ ordinal' = runOrd
  /\ pc' = "ready"
  /\ cur' = Root
  /\ inp' = Unset /\ out' = Unset /\ mark' = [n \in Node |-> 0]
  /\ UNCHANGED <<rows, up, replayable, live, nextSeq, lost, faults, crashes,
                 store, log, baseline, runOrd, ghost, starts>>

(* A step that succeeded is recorded with its output and the items appended
   since it was dispatched. *)
ItemsOf(n) == SubSeq(log, mark[n] + 1, Len(log))

Record ==
  /\ pc = "record"
  /\ L!Record(cur, [out |-> out[cur], items |-> ItemsOf(cur)])
  /\ pc' = "recording"
  /\ UNCHANGED <<store, ctx, cur, runOrd, inp, out, mark, ghost, bounds>>

(* The ledger's own steps, awaited by the run. *)
LedgerStep(n) ==
  /\ \/ L!Append(n) \/ L!AppendFails(n) \/ L!Ack(n)
     \/ L!Replaced(n) \/ L!Prune(n) \/ L!Pruned(n) \/ L!Finish(n)
  /\ UNCHANGED <<store, ctx, run, ghost, bounds>>

Recording == pc = "recording" /\ LedgerStep(cur)

(* Recorded or not, the step checkpoints its root and waits for the capture. *)
Checkpoint ==
  /\ pc = "recording"
  /\ op[cur].phase = "idle"
  /\ chain' = Append(chain, cur)
  /\ pc' = "checkpoint"
  /\ UNCHANGED <<ledger, snap, captured, ctx, cur, runOrd, inp, out, mark, ghost, bounds>>

-----------------------------------------------------------------------------
(* The chain of captures: one at a time, each taken when the one before it
   has settled. *)

(* Mutant: a capture takes the live state even in the middle of a run. *)
RunBaseline_Live == [log |-> log, ordinal |-> ordinal]

(* runBaseline: the run's baseline while there is one, the live state between runs. *)
RunBaseline ==
  IF baseline # None THEN baseline ELSE [log |-> log, ordinal |-> ordinal]

Capture ==
  /\ chain # <<>>
  /\ captured = None
  /\ captured' = RunBaseline
  /\ UNCHANGED <<ledger, snap, chain, ctx, run, ghost, bounds>>

(* The capture at the head of the chain settles, and who waits for it goes on. *)
BeginSettles ==
  /\ Head(chain) = "begin"
  /\ chain' = Tail(chain)
  /\ UNCHANGED <<rows, up, replayable, live, nextSeq, op, lost, baseline, run, ghost>>

StepSettles ==
  /\ Head(chain) = cur
  /\ pc = "checkpoint"
  /\ Proceed(cur, out[cur], Tail(chain))
  /\ UNCHANGED <<rows, up, replayable, live, nextSeq, op, lost, runOrd, mark, ghost>>

Rest == cur' = Root /\ inp' = Unset /\ out' = Unset /\ mark' = [n \in Node |-> 0]

EndLands ==
  /\ Head(chain) = "end"
  /\ chain' = Tail(chain)
  /\ closed' = closed \cup {runOrd}
  /\ executed' = {e \in executed : runOrd < e[1]}
  /\ L!DropPaths(Root)
  /\ pc' = "dropping"
  /\ Rest
  /\ UNCHANGED <<baseline, runOrd>>

EndFails ==
  /\ Head(chain) = "end"
  /\ chain' = Tail(chain)
  /\ pc' = "ready"
  /\ Rest
  /\ UNCHANGED <<rows, up, replayable, live, nextSeq, op, lost, baseline, runOrd, ghost>>

SaveLands ==
  /\ captured # None
  /\ snap' = captured
  /\ captured' = None
  /\ BeginSettles \/ StepSettles \/ EndLands
  /\ UNCHANGED <<log, ordinal, faults, crashes, bounds>>

(* Mutant: a failed save drops the captures queued behind it. *)
SaveFails_DropsQueue ==
  /\ captured # None
  /\ faults < MaxFaults
  /\ faults' = faults + 1
  /\ captured' = None
  /\ chain' = <<>>
  /\ UNCHANGED <<rows, up, replayable, live, nextSeq, op, lost, snap, ctx, run, ghost,
                 crashes, bounds>>

SaveFails ==
  /\ captured # None
  /\ faults < MaxFaults
  /\ faults' = faults + 1
  /\ captured' = None
  /\ BeginSettles \/ StepSettles \/ EndFails
  /\ UNCHANGED <<snap, log, ordinal, crashes, bounds>>

(* dropPaths of a finished run whose snapshot landed. *)
Dropping == pc = "dropping" /\ LedgerStep(Root)

Dropped ==
  /\ pc = "dropping"
  /\ op[Root].phase = "idle"
  /\ pc' = "ready"
  /\ UNCHANGED <<ledger, store, ctx, cur, runOrd, inp, out, mark, ghost, bounds>>

-----------------------------------------------------------------------------
(* Crash and restore. *)

Crash ==
  /\ L!Crash
  /\ chain' = <<>> /\ captured' = None
  /\ log' = <<>> /\ ordinal' = 0 /\ baseline' = None
  /\ pc' = "down"
  /\ Rest
  /\ UNCHANGED <<snap, runOrd, ghost, bounds>>

(* Mutant: the dispatch counts are not restored. *)
Restore_ForgetsCounts ==
  /\ pc = "down"
  /\ L!Load({})
  /\ log' = IF snap = None THEN <<>> ELSE snap.log
  /\ ordinal' = 0
  /\ pc' = "ready"
  /\ UNCHANGED <<store, baseline, cur, runOrd, inp, out, mark, ghost, bounds>>

(* harness.restore: the snapshot's item log and count, or those of a new
   context when there is no snapshot, and the stored ledger. *)
Restore ==
  /\ pc = "down"
  /\ L!Load({})
  /\ log' = IF snap = None THEN <<>> ELSE snap.log
  /\ ordinal' = IF snap = None THEN 0 ELSE snap.ordinal
  /\ pc' = "ready"
  /\ UNCHANGED <<store, baseline, cur, runOrd, inp, out, mark, ghost, bounds>>

RunStep ==
  \/ Replay \/ Run \/ (\E v \in Value : Answer(v)) \/ Record \/ Recording
  \/ Checkpoint \/ Capture \/ SaveLands \/ Dropping \/ Dropped

Next ==
  /\ \/ \E v \in Value : Start(v) \/ Retry(v)
     \/ RunStep
     \/ StepFails \/ SaveFails
     \/ Crash \/ Restore
  /\ faults' + crashes' + stepFails' <= MaxTrouble

Safety == Init /\ [][Next]_vars

(* A process that is up keeps running the run it started. *)
Spec == Safety /\ WF_vars(RunStep)

-----------------------------------------------------------------------------
(* Properties. *)

Phases == {"ready", "dispatch", "body", "record", "recording", "checkpoint",
           "ending", "dropping", "down"}

(* Every variable keeps its type. *)
TypeOK ==
  /\ L!TypeOK
  /\ snap \in Baseline \cup {None}
  /\ captured \in Baseline \cup {None}
  /\ chain \in Seq(Node \cup {"begin", "end"})
  /\ log \in Log /\ ordinal \in Ordinal
  /\ baseline \in Baseline \cup {None}
  /\ pc \in Phases /\ cur \in Node /\ runOrd \in Ordinal
  /\ inp \in [Node -> Value \cup {None}] /\ out \in [Node -> Value \cup {None}]
  /\ mark \in [Node -> Nat]

(* The item log holds every turn once, in order, and what storage would bring
   back holds whole runs: however runs fail, crash, replay and are repeated,
   no item is on the log twice, none of an earlier run follows one of a later
   run, and neither the snapshot nor a context between runs holds part of a
   run (23a-step-level-resume.md:124, 225; context-impl.ts:616-673). *)
InOrder(l) ==
  \A i, j \in DOMAIN l :
    i < j => /\ l[i].ord <= l[j].ord
             /\ l[i].ord = l[j].ord => l[i].node # l[j].node

Whole(l) == \A i \in DOMAIN l : {l[j].node : j \in {k \in DOMAIN l : l[k].ord = l[i].ord}} = Leaf

LogHoldsEachStepOnce ==
  /\ InOrder(log)
  /\ snap # None => InOrder(snap.log) /\ Whole(snap.log)
  /\ baseline = None => Whole(log)

(* A run that finishes tells one coherent story: behind the log it started
   from stand one item of every leaf, each answering what the leaf before it
   answered, each an answer its body gave on that very input, and the last
   is the run's output - whatever mix of replays and bodies produced it
   (23a-step-level-resume.md:104-106, 211). *)
FinishesCoherently ==
  pc # "ending" /\ pc' = "ending" =>
    LET start == Len(baseline.log)
        story == SubSeq(log', start + 1, Len(log'))
    IN /\ SubSeq(log', 1, start) = baseline.log
       /\ Len(story) = Cardinality(Leaf)
       /\ \A i \in DOMAIN story :
            <<runOrd, story[i].node,
              IF i = 1 THEN inp[Root] ELSE story[i - 1].out, story[i].out>> \in executed
       /\ out'[Root] = story[Len(story)].out

FinishedRunIsCoherent == [][FinishesCoherently]_vars

(* Once the snapshot of a finished run has landed, no later run stands at its
   paths, so no row of it that survives dropPaths is ever replayed
   (agent-harness.ts:1156-1169, context-impl.ts:427-430, 680-684). *)
FinishedRunNotReplayed == pc \in {"dispatch", "body", "record"} => runOrd \notin closed

(* The body of this step starts. *)
BodyStarts == pc = "dispatch" /\ op[cur].phase = "idle" /\ op'[cur].phase = "running"

(* Storage holds the step's result on this input, in a row no failure stranded. *)
Stored(n, v) == \E r \in rows : r.path = PathOf(n) /\ r.hash = v /\ r.seq \notin lost

(* A step whose result on this input is stored does not run again, unless a
   step above it has its live result on another input
   (step-ledger.ts:438-470). *)
RerunsOnlyOvertaken ==
  BodyStarts /\ Stored(cur, inp[cur]) =>
    \E a \in Node :
      /\ cur \in Beneath[a]
      /\ \E r \in rows : r.path = PathOf(a) /\ r.hash # inp[a] /\ live[r.path] = r.seq

StoredStepNotRerun == [][RerunsOnlyOvertaken]_vars

(* A run that was started comes to an end or dies with its process: it never
   waits forever for its ledger or for a capture (agent-harness.ts:1593-1603). *)
RunEnds == (pc \notin {"ready", "down"}) ~> (pc \in {"ready", "down"})

=============================================================================
