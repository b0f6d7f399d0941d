------------------------------ MODULE StepLedger ------------------------------
(***************************************************************************)
(* The step completion ledger of one execution                             *)
(* (packages/core/src/runtime/durable/step-ledger.ts): the rows storage    *)
(* holds, the in-memory index one process keeps over them, and the calls   *)
(* in flight on it.  A caller is one concurrent leg of the run (an         *)
(* inParallel path, a spawned child, the run itself): it dispatches a      *)
(* step, which is answered from the ledger or runs, and records the step   *)
(* once it has succeeded.  Every await in the source is a point where any  *)
(* other caller may move, and any point may be the last before a crash.    *)
(***************************************************************************)
EXTENDS Integers, FiniteSets

CONSTANTS
  Path,           \* execution paths and content keys
  KeyPath,        \* those that are `key:` content keys
  Under,          \* Under[p]: the paths strictly beneath p
  Hash,           \* what a step's id, kind and input hash to
  NoHash,         \* the hash of an input that cannot be encoded
  Val,            \* recorded outputs and items
  Oversize,       \* the ones larger than maxEntryBytes, or not serialisable
  Caller,         \* concurrent users of the ledger
  MaxEntries,     \* retention.maxEntries
  RetryOverlaps,  \* a run retried in place may find abandoned race legs still recording
  NoRow,          \* stands for the absent row
  MaxSeq,         \* bound: sequence numbers handed out
  MaxFaults,      \* bound: storage calls that fail
  MaxCrashes      \* bound: crashes

ASSUME LedgerAssumption ==
  /\ KeyPath \subseteq Path
  /\ Under \in [Path -> SUBSET Path]
  /\ \A p \in Path : p \notin Under[p]
  /\ \A k \in KeyPath : Under[k] = {}
  /\ NoHash \notin Hash
  /\ Oversize \subseteq Val
  /\ MaxEntries \in Nat \ {0}
  /\ RetryOverlaps \in BOOLEAN
  /\ MaxSeq \in Nat /\ MaxFaults \in Nat /\ MaxCrashes \in Nat

VARIABLES
  rows,        \* storage: one row per key execution:<id>:ledger:<seq>
  up,          \* a process holds the ledger in memory
  replayable,  \* rows recovered by the last load and not discarded since
  live,        \* sequence number holding each live entry
  nextSeq,     \* sequence number the next append takes
  op,          \* the call each caller has in flight
  lost,        \* history: rows a failed write, a failed delete or a crash stranded
  faults, crashes

vars == <<rows, up, replayable, live, nextSeq, op, lost, faults, crashes>>

NoSeq == -1
AnyHash == Hash \cup {NoHash}
Row == [seq : Nat, path : Path, hash : AnyHash, val : Val]
ASSUME NoRowAssumption == NoRow \notin Row

Phase == {"idle", "running", "appending", "acking", "replacing", "pruning", "deleting"}

(* A call: the step it runs or the row it writes, the paths still to prune,
   the row being deleted, the paths to forget once pruned. *)
Call == [phase  : Phase,
         path   : Path \cup {NoRow},
         hash   : AnyHash,
         row    : Row \cup {NoRow},
         todo   : SUBSET Path,
         victim : Nat \cup {NoSeq},
         forget : SUBSET Path]

Idle == [phase |-> "idle", path |-> NoRow, hash |-> NoHash, row |-> NoRow,
         todo |-> {}, victim |-> NoSeq, forget |-> {}]

LivePaths == {p \in Path : live[p] # NoSeq}
Positional == Path \ KeyPath

-----------------------------------------------------------------------------
(* Reading storage. *)

(* The rows that survive a load: at each path the readable row of highest
   sequence number. *)
Winners(S) == {r \in S : \A q \in S : q.path = r.path => q.seq <= r.seq}

RecoveredLive(S) ==
  [p \in Path |-> IF \E r \in Winners(S) : r.path = p
                  THEN (CHOOSE r \in Winners(S) : r.path = p).seq
                  ELSE NoSeq]

(* Mutant: one past the highest key, starting from -1. *)
FreshSeqs_MinusOne == {n \in {-1} \cup {r.seq + 1 : r \in rows} : \A r \in rows : r.seq < n}

(* One past the highest key storage holds, readable or not. *)
FreshSeqs == {n \in {0} \cup {r.seq + 1 : r \in rows} : \A r \in rows : r.seq < n}

Init ==
  /\ rows = {}
  /\ up = TRUE
  /\ replayable = {}
  /\ live = [p \in Path |-> NoSeq]
  /\ nextSeq = 0
  /\ op = [c \in Caller |-> Idle]
  /\ lost = {}
  /\ faults = 0
  /\ crashes = 0

(* Mutant: the next number is taken from the rows that could be read. *)
Load_CountsReadable(unreadable) ==
  /\ ~up
  /\ up' = TRUE
  /\ replayable' = Winners(rows \ unreadable)
  /\ live' = RecoveredLive(rows \ unreadable)
  /\ nextSeq' \in {n \in {0} \cup {r.seq + 1 : r \in replayable'} :
                     \A r \in replayable' : r.seq < n}
  /\ lost' = {r.seq : r \in rows \ replayable'}
  /\ UNCHANGED <<rows, op, faults, crashes>>

(* A process that starts on an execution builds its ledger from storage. *)
Load(unreadable) ==
  /\ ~up
  /\ up' = TRUE
  /\ replayable' = Winners(rows \ unreadable)
  /\ live' = RecoveredLive(rows \ unreadable)
  /\ nextSeq' \in FreshSeqs
  /\ lost' = {r.seq : r \in rows \ replayable'}
  /\ UNCHANGED <<rows, op, faults, crashes>>

(* A failed run retried in place replaces its memory by what storage holds.
   Race legs the failed run abandoned may still be recording. *)
Adopt(unreadable) ==
  /\ up
  /\ RetryOverlaps \/ \A c \in Caller : op[c].phase = "idle"
  /\ replayable' = Winners(rows \ unreadable)
  /\ live' = RecoveredLive(rows \ unreadable)
  /\ \E n \in FreshSeqs : nextSeq' = IF n > nextSeq THEN n ELSE nextSeq
  /\ lost' = {r.seq : r \in rows \ replayable'}
  /\ UNCHANGED <<rows, up, op, faults, crashes>>

-----------------------------------------------------------------------------
(* take: answer a dispatch from the ledger. *)

(* Mutant: any entry at the path answers. *)
Matches_AnyInput(r, h) == TRUE

Matches(r, h) == r.hash = NoHash \/ r.hash = h

Answers(p, h) == {r \in replayable : r.path = p /\ Matches(r, h)}

(* Mutant: divergence discards every entry. *)
Diverged_All(p) == replayable

(* What a diverging entry at p takes with it. *)
Diverged(p) ==
  {r \in replayable : r.path = p \/ (p \in Positional /\ r.path \in Under[p])}

Take(p, h) ==
  replayable' = IF Answers(p, h) = {} /\ \E r \in replayable : r.path = p
                THEN replayable \ Diverged(p)
                ELSE replayable

(* A step is dispatched: replayed when the ledger answers, run when not. *)
Dispatch(c, p, h) ==
  /\ up
  /\ op[c].phase = "idle"
  /\ Take(p, h)
  /\ op' = IF Answers(p, h) # {}
           THEN op
           ELSE [op EXCEPT ![c] = [Idle EXCEPT !.phase = "running", !.path = p, !.hash = h]]
  /\ UNCHANGED <<rows, up, live, nextSeq, lost, faults, crashes>>

(* The step throws: nothing is recorded. *)
Throw(c) ==
  /\ op[c].phase = "running"
  /\ op' = [op EXCEPT ![c] = Idle]
  /\ UNCHANGED <<rows, up, replayable, live, nextSeq, lost, faults, crashes>>

-----------------------------------------------------------------------------
(* record: write a completed step, then delete what it makes dead. *)

LiveBeneath(p) == Under[p] \cap LivePaths

(* Live entries once recording at p has pruned what lies beneath it. *)
LiveAfter(p) ==
  IF Cardinality(LivePaths) < MaxEntries \/ p \in KeyPath
  THEN Cardinality(LivePaths)
  ELSE Cardinality(LivePaths) - Cardinality(LiveBeneath(p))

Retainable(p, v) ==
  /\ p \in LivePaths \/ LiveAfter(p) < MaxEntries
  /\ v \notin Oversize

(* The sequence number is taken before the write is awaited. *)
Record(c, v) ==
  /\ op[c].phase = "running"
  /\ Retainable(op[c].path, v)
  /\ nextSeq < MaxSeq
  /\ nextSeq' = nextSeq + 1
  /\ op' = [op EXCEPT ![c].phase = "appending",
                      ![c].row = [seq |-> nextSeq, path |-> op[c].path,
                                  hash |-> op[c].hash, val |-> v]]
  /\ UNCHANGED <<rows, up, replayable, live, lost, faults, crashes>>

(* Over a retention cap: the step is not recorded and runs again on resume. *)
Refuse(c, v) ==
  /\ op[c].phase = "running"
  /\ ~Retainable(op[c].path, v)
  /\ op' = [op EXCEPT ![c] = Idle]
  /\ UNCHANGED <<rows, up, replayable, live, nextSeq, lost, faults, crashes>>

(* storage.set: the row at this key is replaced, if there is one. *)
Put(r) == {q \in rows : q.seq # r.seq} \cup {r}

Append(c) ==
  /\ op[c].phase = "appending"
  /\ rows' = Put(op[c].row)
  /\ op' = [op EXCEPT ![c].phase = "acking"]
  /\ UNCHANGED <<up, replayable, live, nextSeq, lost, faults, crashes>>

(* Mutant: a failed write is taken for stored. *)
AppendFails_Ignored(c) ==
  /\ op[c].phase = "appending"
  /\ faults < MaxFaults
  /\ faults' = faults + 1
  /\ op' = [op EXCEPT ![c].phase = "acking"]
  /\ UNCHANGED <<rows, lost, up, replayable, live, nextSeq, crashes>>

(* The write is reported failed, whether or not it reached storage. *)
AppendFails(c) ==
  /\ op[c].phase = "appending"
  /\ faults < MaxFaults
  /\ faults' = faults + 1
  /\ \/ UNCHANGED <<rows, lost>>
     \/ rows' = Put(op[c].row) /\ lost' = lost \cup {op[c].row.seq}
  /\ op' = [op EXCEPT ![c] = Idle]
  /\ UNCHANGED <<up, replayable, live, nextSeq, crashes>>

(* A positional entry makes everything live beneath it dead. *)
DeadBeneath(p) == IF p \in KeyPath THEN {} ELSE {q \in Under[p] : live[q] # NoSeq}

(* Mutant: the entry that was live at the path is not deleted. *)
Ack_KeepsOld(c) ==
  LET r == op[c].row IN
  /\ op[c].phase = "acking"
  /\ live' = [live EXCEPT ![r.path] = r.seq]
  /\ op' = [op EXCEPT ![c].phase = "pruning", ![c].todo = DeadBeneath(r.path)]
  /\ UNCHANGED <<rows, up, replayable, nextSeq, lost, faults, crashes>>

Ack(c) ==
  LET r == op[c].row IN
  /\ op[c].phase = "acking"
  /\ live' = [live EXCEPT ![r.path] = r.seq]
  /\ op' = IF live[r.path] = NoSeq
           THEN [op EXCEPT ![c].phase = "pruning", ![c].todo = DeadBeneath(r.path)]
           ELSE [op EXCEPT ![c].phase = "replacing", ![c].victim = live[r.path]]
  /\ UNCHANGED <<rows, up, replayable, nextSeq, lost, faults, crashes>>

(* deleteSeq: a failed delete is only warned about. *)
DeleteRow(s) ==
  \/ /\ rows' = {r \in rows : r.seq # s}
     /\ UNCHANGED <<lost, faults>>
  \/ /\ faults < MaxFaults
     /\ faults' = faults + 1
     /\ lost' = lost \cup {s}
     /\ UNCHANGED rows

Replaced(c) ==
  /\ op[c].phase = "replacing"
  /\ DeleteRow(op[c].victim)
  /\ op' = [op EXCEPT ![c].phase = "pruning", ![c].victim = NoSeq,
                      ![c].todo = DeadBeneath(op[c].row.path)]
  /\ UNCHANGED <<up, replayable, live, nextSeq, crashes>>

(* Mutant: a pruned entry stays replayable. *)
Prune_KeepsReplayable(c) ==
  \E p \in op[c].todo :
    /\ op[c].phase = "pruning"
    /\ live' = [live EXCEPT ![p] = NoSeq]
    /\ op' = IF live[p] = NoSeq
             THEN [op EXCEPT ![c].todo = @ \ {p}]
             ELSE [op EXCEPT ![c].phase = "deleting", ![c].todo = @ \ {p},
                             ![c].victim = live[p]]
    /\ UNCHANGED <<rows, up, replayable, nextSeq, lost, faults, crashes>>

(* The next path to prune leaves memory before its row is deleted. *)
Prune(c) ==
  \E p \in op[c].todo :
    /\ op[c].phase = "pruning"
    /\ live' = [live EXCEPT ![p] = NoSeq]
    /\ IF live[p] = NoSeq
       THEN /\ op' = [op EXCEPT ![c].todo = @ \ {p}]
            /\ UNCHANGED replayable
       ELSE /\ op' = [op EXCEPT ![c].phase = "deleting", ![c].todo = @ \ {p},
                                ![c].victim = live[p]]
            /\ replayable' = {r \in replayable : r.path # p}
    /\ UNCHANGED <<rows, up, nextSeq, lost, faults, crashes>>

Pruned(c) ==
  /\ op[c].phase = "deleting"
  /\ DeleteRow(op[c].victim)
  /\ op' = [op EXCEPT ![c].phase = "pruning", ![c].victim = NoSeq]
  /\ UNCHANGED <<up, replayable, live, nextSeq, crashes>>

Finish(c) ==
  /\ op[c].phase = "pruning"
  /\ op[c].todo = {}
  /\ replayable' = {r \in replayable : r.path \notin op[c].forget}
  /\ op' = [op EXCEPT ![c] = Idle]
  /\ UNCHANGED <<rows, up, live, nextSeq, lost, faults, crashes>>

-----------------------------------------------------------------------------
(* Dropping entries outside a record. *)

StartPrune(c, dead, forget) ==
  /\ up
  /\ op[c].phase = "idle"
  /\ op' = [op EXCEPT ![c] = [Idle EXCEPT !.phase = "pruning", !.todo = dead,
                                          !.forget = forget]]
  /\ UNCHANGED <<rows, up, replayable, live, nextSeq, lost, faults, crashes>>

(* drop: one entry. *)
Drop(c, p) == StartPrune(c, {p}, {})

(* dropPaths: a finished run's positional entries. *)
DropPaths(c) == StartPrune(c, LivePaths \cap Positional, Positional)

(* discardFrom: the replayable entries recorded at or after the first one
   whose connection was replaced. *)
DiscardFrom(c, s) ==
  LET dead == {p \in Path : live[p] >= s /\ \E r \in replayable : r.path = p}
  IN StartPrune(c, dead, dead)

(* The process dies: memory and the calls in flight are gone. *)
Crash ==
  /\ up
  /\ crashes < MaxCrashes
  /\ crashes' = crashes + 1
  /\ up' = FALSE
  /\ replayable' = {}
  /\ live' = [p \in Path |-> NoSeq]
  /\ nextSeq' = 0
  /\ op' = [c \in Caller |-> Idle]
  /\ UNCHANGED <<rows, lost, faults>>

(* At most one row is unreadable at a load. *)
Unreadable == {{}} \cup {{r} : r \in rows}

CallStep(c) ==
  \/ \E p \in Path, h \in AnyHash : Dispatch(c, p, h)
  \/ Throw(c)
  \/ \E v \in Val : Record(c, v) \/ Refuse(c, v)
  \/ Append(c) \/ AppendFails(c) \/ Ack(c)
  \/ Replaced(c) \/ Prune(c) \/ Pruned(c) \/ Finish(c)
  \/ \E p \in Path : Drop(c, p)
  \/ DropPaths(c)
  \/ \E r \in replayable : DiscardFrom(c, r.seq)

Next ==
  \/ \E c \in Caller : CallStep(c)
  \/ \E u \in Unreadable : Load(u) \/ Adopt(u)
  \/ Crash

Spec == Init /\ [][Next]_vars

-----------------------------------------------------------------------------
(* Properties. *)

(* Every variable keeps its type. *)
TypeOK ==
  /\ rows \subseteq Row
  /\ up \in BOOLEAN
  /\ replayable \subseteq Row
  /\ live \in [Path -> Nat \cup {NoSeq}]
  /\ nextSeq \in Nat
  /\ op \in [Caller -> Call]
  /\ lost \subseteq Nat
  /\ faults \in Nat
  /\ crashes \in Nat

(* RowKept is what one step may do to the rows, NoRowOverwritten that every
   step does: an append never overwrites a row.  Concurrent legs, crashes, unreadable
   rows and retries in place never hand out the number of a stored entry
   (step-ledger.ts:486-490, 297-308, 423). *)
RowKept == \A r \in rows : (\E q \in rows' : q.seq = r.seq) => r \in rows'

NoRowOverwritten == [][RowKept]_vars

(* Every live entry is in storage under the number memory gives it, so what
   pruning and replacing delete is that entry and no other
   (step-ledger.ts:377-378, 500-507, 605-616). *)
LiveIsStored ==
  \A p \in Path : live[p] # NoSeq => \E r \in rows : r.seq = live[p] /\ r.path = p

(* What a dispatch would be answered with is what a process restarted now
   would be answered with: the entry is stored, and newest at its path among
   the rows no failure stranded (step-ledger.ts:414-424, 605-616). *)
ReplayIsDurable ==
  \A r \in replayable :
    /\ r \in rows
    /\ live[r.path] = r.seq
    /\ \A q \in rows : q.path = r.path /\ q.seq \notin lost => q.seq <= r.seq

(* Storage holds nothing the ledger forgot: a stored row is live, or in the
   hands of a call, or one a failed storage call or a crash stranded. *)
NoLeakedRow ==
  up => \A r \in rows :
          \/ live[r.path] = r.seq
          \/ r.seq \in lost
          \/ \E c \in Caller :
               \/ op[c].phase = "acking" /\ op[c].row = r
               \/ op[c].phase \in {"replacing", "deleting"} /\ op[c].victim = r.seq

=============================================================================
