--------------------------- MODULE DurableRunProofs ---------------------------
(***************************************************************************)
(* Theorems about a durable execution: for every workflow that is a tree   *)
(* of steps in sequence, any values, and any number of runs, retries,      *)
(* failed steps, failed storage calls and crashes.                         *)
(***************************************************************************)
EXTENDS DurableRun, SequenceTheorems, FiniteSetTheorems, TLAPS

-----------------------------------------------------------------------------
(* The ledger's variables keep their types under each action the run takes. *)

(* What the fields of a ledger call hold, by the phase it is in. *)
CallShape ==
  \A n \in Node :
    /\ op[n].phase = "running" => op[n].path \in Path
    /\ op[n].phase \in {"appending", "acking", "replacing"} => op[n].row \in L!Row
    /\ op[n].phase \in {"replacing", "deleting"} => op[n].victim \in Nat

LedgerInv == L!TypeOK /\ CallShape

LEMMA IdleTyped == L!Idle \in L!Call /\ L!Idle.phase = "idle"
  BY DEF L!Idle, L!Call, L!Phase, L!AnyHash, L!NoSeq

LEMMA NoneInHash == None \in L!AnyHash /\ Value \subseteq L!AnyHash
  BY DEF L!AnyHash

LEMMA UnderTyped ==
  ASSUME NEW p \in Path
  PROVE  Under[p] \subseteq Path
  <1>1. p.ord \in Ordinal /\ p.node \in Node
    BY DEF Path
  <1>2. Under[p] = {[ord |-> p.ord, node |-> m] : m \in Beneath[p.node]}
    BY DEF Under
  <1> QED
    BY <1>1, <1>2, WorkflowAssumption DEF Path

LEMMA RecoveredTyped ==
  ASSUME NEW S \in SUBSET L!Row
  PROVE  /\ L!RecoveredLive(S) \in [Path -> Nat \cup {L!NoSeq}]
         /\ L!Winners(S) \subseteq S
  <1>1. L!Winners(S) \subseteq S
    BY DEF L!Winners
  <1>2. ASSUME NEW p \in Path, \E r \in L!Winners(S) : r.path = p
        PROVE  (CHOOSE r \in L!Winners(S) : r.path = p).seq \in Nat
    BY <1>1, <1>2 DEF L!Row
  <1> QED
    BY <1>1, <1>2 DEF L!RecoveredLive

LEMMA FreshTyped ==
  ASSUME rows \subseteq L!Row
  PROVE  L!FreshSeqs \subseteq Nat
  BY DEF L!FreshSeqs, L!Row

(* One call changes, to a call that holds what its phase needs. *)
LEMMA CallChanged ==
  ASSUME op \in [Node -> L!Call], CallShape, NEW c \in Node, NEW call \in L!Call,
         op' = [op EXCEPT ![c] = call],
         call.phase = "running" => call.path \in Path,
         call.phase \in {"appending", "acking", "replacing"} => call.row \in L!Row,
         call.phase \in {"replacing", "deleting"} => call.victim \in Nat
  PROVE  op' \in [Node -> L!Call] /\ CallShape'
  BY DEF CallShape

(* The ledger of a new process, or of a run retried in place. *)
LEMMA ReadTypes ==
  ASSUME LedgerInv, L!Load({}) \/ L!Adopt({})
  PROVE  LedgerInv' /\ op' = op /\ rows' = rows /\ replayable' \subseteq rows
  <1>1. /\ rows \subseteq L!Row /\ nextSeq \in Nat /\ op \in [Node -> L!Call]
        /\ faults \in Nat /\ crashes \in Nat /\ up \in BOOLEAN
    BY DEF LedgerInv, L!TypeOK
  <1>2. /\ rows' = rows /\ op' = op /\ faults' = faults /\ crashes' = crashes
        /\ replayable' = L!Winners(rows \ {}) /\ live' = L!RecoveredLive(rows \ {})
        /\ lost' = {r.seq : r \in rows \ replayable'} /\ up' \in BOOLEAN
    BY <1>1 DEF L!Load, L!Adopt
  <1>3. rows \ {} = rows
    OBVIOUS
  <1>4. replayable' \subseteq rows /\ live' \in [Path -> Nat \cup {L!NoSeq}]
    BY <1>1, <1>2, <1>3, RecoveredTyped
  <1>5. L!FreshSeqs \subseteq Nat
    BY <1>1, FreshTyped
  <1>6. nextSeq' \in Nat
    BY <1>1, <1>5 DEF L!Load, L!Adopt
  <1>7. lost' \subseteq Nat
    BY <1>1, <1>2 DEF L!Row
  <1> QED
    BY <1>1, <1>2, <1>4, <1>6, <1>7 DEF LedgerInv, L!TypeOK, CallShape

LEMMA DispatchTypes ==
  ASSUME LedgerInv, NEW n \in Node, NEW p \in Path, NEW h \in Value, L!Dispatch(n, p, h)
  PROVE  LedgerInv' /\ rows' = rows /\ replayable' \subseteq replayable
  <1> DEFINE call == [L!Idle EXCEPT !.phase = "running", !.path = p, !.hash = h]
  <1>1. /\ call \in L!Call /\ call.phase = "running" /\ call.path = p
    BY DEF L!Idle, L!Call, L!Phase, L!AnyHash, L!NoSeq
  <1>2. replayable' \subseteq replayable
    BY DEF L!Dispatch, L!Take
  <1>3. op' = op \/ op' = [op EXCEPT ![n] = call]
    BY DEF L!Dispatch
  <1> HIDE DEF call
  <1>4. op \in [Node -> L!Call] /\ CallShape
    BY DEF LedgerInv, L!TypeOK
  <1>5. op' \in [Node -> L!Call] /\ CallShape'
    <2>1. CASE op' = op
      BY <1>4, <2>1 DEF CallShape
    <2>2. CASE op' = [op EXCEPT ![n] = call]
      BY <1>1, <1>4, <2>2, CallChanged
    <2> QED
      BY <1>3, <2>1, <2>2
  <1> QED
    BY <1>2, <1>5 DEF L!Dispatch, LedgerInv, L!TypeOK

(* The row that a call is about to write. *)
NewRow(n, v) == [seq |-> nextSeq, path |-> op[n].path, hash |-> op[n].hash, val |-> v]

LEMMA RecordTypes ==
  ASSUME LedgerInv, NEW n \in Node, NEW v \in Recorded, L!Record(n, v)
  PROVE  /\ LedgerInv' /\ UNCHANGED <<rows, replayable>> /\ op[n].phase = "running"
         /\ NewRow(n, v) \in L!Row
         /\ op'[n].phase = "appending" /\ op'[n].row = NewRow(n, v)
         /\ \A m \in Node \ {n} : op'[m] = op[m]
  <1>1. op \in [Node -> L!Call] /\ CallShape /\ nextSeq \in Nat /\ op[n].phase = "running"
    BY DEF LedgerInv, L!TypeOK, L!Record
  <1>2. NewRow(n, v) \in L!Row
    BY <1>1 DEF NewRow, CallShape, L!Row, L!Call
  <1> DEFINE row == NewRow(n, v)
             call == [op[n] EXCEPT !.phase = "appending", !.row = row]
  <1>3. op' = [op EXCEPT ![n] = call]
    BY DEF L!Record, NewRow
  <1> HIDE DEF row
  <1>4. row \in L!Row
    BY <1>2 DEF row
  <1>5. call \in L!Call /\ call.phase = "appending" /\ call.row = row
    BY <1>1, <1>4 DEF L!Call, L!Phase
  <1> HIDE DEF call
  <1>6. op' \in [Node -> L!Call] /\ CallShape'
    BY <1>1, <1>3, <1>4, <1>5, CallChanged
  <1>7. op'[n] = call /\ \A m \in Node \ {n} : op'[m] = op[m]
    BY <1>1, <1>3
  <1>8. L!TypeOK'
    BY <1>1, <1>6 DEF L!Record, LedgerInv, L!TypeOK
  <1> QED
    BY <1>1, <1>2, <1>5, <1>6, <1>7, <1>8 DEF L!Record, LedgerInv, row

LEMMA DeadTyped ==
  ASSUME NEW r \in L!Row
  PROVE  L!DeadBeneath(r.path) \in SUBSET Path
  <1>1. r.path \in Path
    BY DEF L!Row
  <1> QED
    BY <1>1, UnderTyped DEF L!DeadBeneath

LEMMA DeleteTypes ==
  ASSUME lost \subseteq Nat, faults \in Nat, NEW s \in Nat, L!DeleteRow(s)
  PROVE  rows' \subseteq rows /\ lost' \subseteq Nat /\ faults' \in Nat
  <1>1. CASE rows' = {r \in rows : r.seq # s} /\ UNCHANGED <<lost, faults>>
    BY <1>1
  <1>2. CASE faults' = faults + 1 /\ lost' = lost \cup {s} /\ UNCHANGED rows
    BY <1>2
  <1> QED
    BY <1>1, <1>2 DEF L!DeleteRow

(* The steps of a ledger call that are awaited: the call's own row is the only
   one they may add, and no other call moves. *)
Awaited(n) ==
  \/ L!Append(n) \/ L!AppendFails(n) \/ L!Ack(n)
  \/ L!Replaced(n) \/ L!Prune(n) \/ L!Pruned(n) \/ L!Finish(n)

LEMMA AwaitedTypes ==
  ASSUME LedgerInv, NEW n \in Node, Awaited(n)
  PROVE  /\ LedgerInv' /\ replayable' \subseteq replayable
         /\ \A r \in rows' : r \in rows \/ (op[n].phase = "appending" /\ r = op[n].row)
         /\ op'[n].phase \notin {"running", "appending"}
         /\ \A m \in Node \ {n} : op'[m] = op[m]
  <1>1. /\ op \in [Node -> L!Call] /\ CallShape /\ rows \subseteq L!Row /\ replayable \subseteq L!Row
        /\ live \in [Path -> Nat \cup {L!NoSeq}] /\ lost \subseteq Nat /\ faults \in Nat
        /\ op[n] \in L!Call
    BY DEF LedgerInv, L!TypeOK
  <1>2. CASE L!Append(n)
    <2> DEFINE call == [op[n] EXCEPT !.phase = "acking"]
    <2>1. op[n].phase = "appending" /\ op[n].row \in L!Row
      BY <1>1, <1>2 DEF L!Append, CallShape
    <2>2. /\ rows' = L!Put(op[n].row) /\ op' = [op EXCEPT ![n] = call]
          /\ UNCHANGED <<up, replayable, live, nextSeq, lost, faults, crashes>>
      BY <1>2 DEF L!Append
    <2>3. call \in L!Call /\ call.phase = "acking" /\ call.row = op[n].row
      BY <1>1 DEF L!Call, L!Phase
    <2> HIDE DEF call
    <2>4. op' \in [Node -> L!Call] /\ CallShape'
      BY <1>1, <2>1, <2>2, <2>3, CallChanged
    <2>5. \A r \in rows' : r \in rows \/ r = op[n].row
      BY <2>2 DEF L!Put
    <2>6. op'[n] = call /\ \A m \in Node \ {n} : op'[m] = op[m]
      BY <1>1, <2>2
    <2>7. rows' \subseteq L!Row
      BY <1>1, <2>1, <2>5
    <2> QED
      BY <2>1, <2>2, <2>3, <2>4, <2>5, <2>6, <2>7 DEF LedgerInv, L!TypeOK
  <1>3. CASE L!AppendFails(n)
    <2>1. op[n].phase = "appending" /\ op[n].row \in L!Row
      BY <1>1, <1>3 DEF L!AppendFails, CallShape
    <2>2. /\ op' = [op EXCEPT ![n] = L!Idle] /\ faults' = faults + 1
          /\ UNCHANGED <<rows, lost>> \/ (rows' = L!Put(op[n].row) /\ lost' = lost \cup {op[n].row.seq})
          /\ UNCHANGED <<up, replayable, live, nextSeq, crashes>>
      BY <1>3 DEF L!AppendFails
    <2>3. op' \in [Node -> L!Call] /\ CallShape'
      BY <1>1, <2>2, IdleTyped, CallChanged
    <2>4. \A r \in rows' : r \in rows \/ r = op[n].row
      BY <2>2 DEF L!Put
    <2>5. op'[n].phase = "idle" /\ \A m \in Node \ {n} : op'[m] = op[m]
      BY <1>1, <2>2, IdleTyped
    <2>6. rows' \subseteq L!Row /\ lost' \subseteq Nat
      <3>1. op[n].row.seq \in Nat
        BY <2>1 DEF L!Row
      <3> QED
        BY <1>1, <2>1, <2>2, <2>4, <3>1
    <2> QED
      BY <1>1, <2>1, <2>2, <2>3, <2>4, <2>5, <2>6 DEF LedgerInv, L!TypeOK
  <1>4. CASE L!Ack(n)
    <2> DEFINE dead == L!DeadBeneath(op[n].row.path)
               pruning == [op[n] EXCEPT !.phase = "pruning", !.todo = dead]
               replacing == [op[n] EXCEPT !.phase = "replacing", !.victim = live[op[n].row.path]]
    <2>1. op[n].row \in L!Row
      BY <1>1, <1>4 DEF L!Ack, CallShape
    <2>2. op[n].row.path \in Path /\ op[n].row.seq \in Nat /\ dead \in SUBSET Path
      BY <2>1, DeadTyped DEF L!Row
    <2>3. /\ live' = [live EXCEPT ![op[n].row.path] = op[n].row.seq]
          /\ UNCHANGED <<rows, up, replayable, nextSeq, lost, faults, crashes>>
          /\ \/ op' = [op EXCEPT ![n] = pruning]
             \/ op' = [op EXCEPT ![n] = replacing] /\ live[op[n].row.path] # L!NoSeq
      BY <1>4 DEF L!Ack
    <2>4. pruning \in L!Call /\ pruning.phase = "pruning"
      BY <1>1, <2>2 DEF L!Call, L!Phase
    <2>5. ASSUME live[op[n].row.path] # L!NoSeq
          PROVE  /\ replacing \in L!Call /\ replacing.phase = "replacing"
                 /\ replacing.row \in L!Row /\ replacing.victim \in Nat
      <3>1. live[op[n].row.path] \in Nat
        BY <1>1, <2>2, <2>5
      <3> QED
        BY <1>1, <2>1, <3>1 DEF L!Call, L!Phase
    <2> HIDE DEF pruning, replacing, dead
    <2>6. op' \in [Node -> L!Call] /\ CallShape' /\ op'[n].phase \in {"pruning", "replacing"}
      <3>1. CASE op' = [op EXCEPT ![n] = pruning]
        <4>1. op'[n].phase = "pruning"
          BY <1>1, <2>4, <3>1
        <4> QED
          BY <1>1, <2>4, <3>1, <4>1, CallChanged
      <3>2. CASE op' = [op EXCEPT ![n] = replacing] /\ live[op[n].row.path] # L!NoSeq
        <4>1. op'[n].phase = "replacing"
          BY <1>1, <2>5, <3>2
        <4> QED
          BY <1>1, <2>5, <3>2, <4>1, CallChanged
      <3> QED
        BY <2>3, <3>1, <3>2
    <2>7. \A m \in Node \ {n} : op'[m] = op[m]
      BY <1>1, <2>3
    <2>8. live' \in [Path -> Nat \cup {L!NoSeq}]
      BY <1>1, <2>2, <2>3
    <2> QED
      BY <2>3, <2>6, <2>7, <2>8 DEF LedgerInv, L!TypeOK
  <1>5. CASE L!Replaced(n)
    <2> DEFINE dead == L!DeadBeneath(op[n].row.path)
               call == [op[n] EXCEPT !.phase = "pruning", !.victim = L!NoSeq, !.todo = dead]
    <2>1. op[n].row \in L!Row /\ op[n].victim \in Nat
      BY <1>1, <1>5 DEF L!Replaced, CallShape
    <2>2. dead \in SUBSET Path
      BY <2>1, DeadTyped
    <2>3. /\ op' = [op EXCEPT ![n] = call]
          /\ UNCHANGED <<up, replayable, live, nextSeq, crashes>>
          /\ rows' \subseteq rows /\ lost' \subseteq Nat /\ faults' \in Nat
      <3>1. L!DeleteRow(op[n].victim)
        BY <1>5 DEF L!Replaced
      <3>2. rows' \subseteq rows /\ lost' \subseteq Nat /\ faults' \in Nat
        BY <1>1, <2>1, <3>1, DeleteTypes
      <3> QED
        BY <1>5, <3>2 DEF L!Replaced
    <2>4. call \in L!Call /\ call.phase = "pruning"
      BY <1>1, <2>2 DEF L!Call, L!Phase
    <2> HIDE DEF call, dead
    <2>5. op' \in [Node -> L!Call] /\ CallShape'
      BY <1>1, <2>3, <2>4, CallChanged
    <2>6. op'[n] = call /\ \A m \in Node \ {n} : op'[m] = op[m]
      BY <1>1, <2>3
    <2> QED
      BY <2>3, <2>4, <2>5, <2>6 DEF LedgerInv, L!TypeOK
  <1>6. CASE L!Prune(n)
    <2>1. PICK p \in op[n].todo :
            /\ op[n].phase = "pruning" /\ live' = [live EXCEPT ![p] = L!NoSeq]
            /\ UNCHANGED <<rows, up, nextSeq, lost, faults, crashes>>
            /\ IF live[p] = L!NoSeq
               THEN /\ op' = [op EXCEPT ![n].todo = @ \ {p}]
                    /\ UNCHANGED replayable
               ELSE /\ op' = [op EXCEPT ![n].phase = "deleting", ![n].todo = @ \ {p},
                                        ![n].victim = live[p]]
                    /\ replayable' = {r \in replayable : r.path # p}
      BY <1>6 DEF L!Prune
    <2>2. p \in Path /\ op[n].todo \ {p} \in SUBSET Path
      BY <1>1 DEF L!Call
    <2> DEFINE fewer == [op[n] EXCEPT !.todo = @ \ {p}]
               deleting == [op[n] EXCEPT !.phase = "deleting", !.todo = @ \ {p}, !.victim = live[p]]
    <2>3. fewer \in L!Call /\ fewer.phase = "pruning"
      BY <1>1, <2>1, <2>2 DEF L!Call, L!Phase
    <2>4. ASSUME live[p] # L!NoSeq
          PROVE  deleting \in L!Call /\ deleting.phase = "deleting" /\ deleting.victim \in Nat
      <3>1. live[p] \in Nat
        BY <1>1, <2>2, <2>4
      <3> QED
        BY <1>1, <2>2, <3>1 DEF L!Call, L!Phase
    <2>5. /\ op' = [op EXCEPT ![n] = fewer] \/ (op' = [op EXCEPT ![n] = deleting] /\ live[p] # L!NoSeq)
          /\ replayable' \subseteq replayable
      <3>1. CASE live[p] = L!NoSeq
        BY <2>1, <3>1
      <3>2. CASE live[p] # L!NoSeq
        BY <2>1, <3>2
      <3> QED
        BY <3>1, <3>2
    <2> HIDE DEF fewer, deleting
    <2>6. op' \in [Node -> L!Call] /\ CallShape' /\ op'[n].phase \in {"pruning", "deleting"}
      <3>1. CASE op' = [op EXCEPT ![n] = fewer]
        <4>1. op'[n].phase = "pruning"
          BY <1>1, <2>3, <3>1
        <4> QED
          BY <1>1, <2>3, <3>1, <4>1, CallChanged
      <3>2. CASE op' = [op EXCEPT ![n] = deleting] /\ live[p] # L!NoSeq
        <4>1. op'[n].phase = "deleting"
          BY <1>1, <2>4, <3>2
        <4> QED
          BY <1>1, <2>4, <3>2, <4>1, CallChanged
      <3> QED
        BY <2>5, <3>1, <3>2
    <2>7. \A m \in Node \ {n} : op'[m] = op[m]
      BY <1>1, <2>5
    <2>8. live' \in [Path -> Nat \cup {L!NoSeq}]
      BY <1>1, <2>1, <2>2
    <2> QED
      BY <1>1, <2>1, <2>5, <2>6, <2>7, <2>8 DEF LedgerInv, L!TypeOK
  <1>7. CASE L!Pruned(n)
    <2> DEFINE call == [op[n] EXCEPT !.phase = "pruning", !.victim = L!NoSeq]
    <2>1. op[n].victim \in Nat
      BY <1>1, <1>7 DEF L!Pruned, CallShape
    <2>2. /\ op' = [op EXCEPT ![n] = call]
          /\ UNCHANGED <<up, replayable, live, nextSeq, crashes>>
          /\ rows' \subseteq rows /\ lost' \subseteq Nat /\ faults' \in Nat
      <3>1. L!DeleteRow(op[n].victim)
        BY <1>7 DEF L!Pruned
      <3>2. rows' \subseteq rows /\ lost' \subseteq Nat /\ faults' \in Nat
        BY <1>1, <2>1, <3>1, DeleteTypes
      <3> QED
        BY <1>7, <3>2 DEF L!Pruned
    <2>3. call \in L!Call /\ call.phase = "pruning"
      BY <1>1 DEF L!Call, L!Phase
    <2> HIDE DEF call
    <2>4. op' \in [Node -> L!Call] /\ CallShape'
      BY <1>1, <2>2, <2>3, CallChanged
    <2>5. op'[n] = call /\ \A m \in Node \ {n} : op'[m] = op[m]
      BY <1>1, <2>2
    <2> QED
      BY <2>2, <2>3, <2>4, <2>5 DEF LedgerInv, L!TypeOK
  <1>8. CASE L!Finish(n)
    <2>1. /\ op' = [op EXCEPT ![n] = L!Idle] /\ replayable' \subseteq replayable
          /\ UNCHANGED <<rows, up, live, nextSeq, lost, faults, crashes>>
      BY <1>8 DEF L!Finish
    <2>2. op' \in [Node -> L!Call] /\ CallShape'
      BY <1>1, <2>1, IdleTyped, CallChanged
    <2>3. op'[n].phase = "idle" /\ \A m \in Node \ {n} : op'[m] = op[m]
      BY <1>1, <2>1, IdleTyped
    <2> QED
      BY <1>1, <2>1, <2>2, <2>3 DEF LedgerInv, L!TypeOK
  <1> QED
    BY <1>2, <1>3, <1>4, <1>5, <1>6, <1>7, <1>8 DEF Awaited

LEMMA DropTypes ==
  ASSUME LedgerInv, L!DropPaths(Root)
  PROVE  /\ LedgerInv' /\ UNCHANGED <<rows, replayable, faults, crashes>> /\ op[Root].phase = "idle"
         /\ op'[Root].phase = "pruning" /\ \A m \in Node \ {Root} : op'[m] = op[m]
  <1> DEFINE dead == L!LivePaths \cap L!Positional
             call == [L!Idle EXCEPT !.phase = "pruning", !.todo = dead, !.forget = L!Positional]
  <1>1. dead \in SUBSET Path /\ L!Positional \in SUBSET Path
    BY DEF L!LivePaths, L!Positional
  <1>2. call \in L!Call /\ call.phase = "pruning"
    BY <1>1 DEF L!Idle, L!Call, L!Phase, L!AnyHash, L!NoSeq
  <1>3. /\ op' = [op EXCEPT ![Root] = call] /\ op[Root].phase = "idle"
        /\ UNCHANGED <<rows, up, replayable, live, nextSeq, lost, faults, crashes>>
    BY DEF L!DropPaths, L!StartPrune
  <1> HIDE DEF call, dead
  <1>4. op \in [Node -> L!Call] /\ CallShape /\ Root \in Node
    BY WorkflowAssumption DEF LedgerInv, L!TypeOK
  <1>5. op' \in [Node -> L!Call] /\ CallShape'
    BY <1>2, <1>3, <1>4, CallChanged
  <1>6. op'[Root] = call /\ \A m \in Node \ {Root} : op'[m] = op[m]
    BY <1>3, <1>4
  <1> QED
    BY <1>2, <1>3, <1>5, <1>6 DEF LedgerInv, L!TypeOK

(* A process dies, or a failed run gives its calls up. *)
LEMMA IdleTypes ==
  ASSUME LedgerInv, op' = [n \in Node |-> L!Idle],
         /\ rows' = rows /\ replayable' \subseteq replayable /\ up' \in BOOLEAN
         /\ live' = live \/ live' = [p \in Path |-> L!NoSeq]
         /\ nextSeq' \in Nat /\ lost' = lost /\ faults' = faults /\ crashes' \in Nat
  PROVE  LedgerInv' /\ \A n \in Node : op'[n].phase = "idle"
  <1>1. op' \in [Node -> L!Call] /\ \A n \in Node : op'[n].phase = "idle"
    BY IdleTyped
  <1>2. CallShape'
    BY <1>1 DEF CallShape
  <1> QED
    BY <1>1, <1>2 DEF LedgerInv, L!TypeOK

-----------------------------------------------------------------------------
(* The tree of steps. *)

(* The leaves of a step's tree, and those a run reaches before the step. *)
Leaves(n) == Tree(n) \cap Leaf

Before(n) ==
  {l \in Leaf : \E m \in Node : \E i, j \in DOMAIN Kids[m] :
     i < j /\ l \in Tree(Kids[m][i]) /\ n \in Tree(Kids[m][j])}

LEMMA KidTyped ==
  ASSUME NEW n \in Node, NEW i \in DOMAIN Kids[n]
  PROVE  /\ i \in 1 .. Len(Kids[n]) /\ DOMAIN Kids[n] = 1 .. Len(Kids[n]) /\ Len(Kids[n]) \in Nat
         /\ Kids[n][i] \in Node
         /\ Tree(Kids[n][i]) \subseteq Beneath[n]
  <1>1. Kids[n] \in Seq(Node)
    BY WorkflowAssumption
  <1>2. /\ i \in 1 .. Len(Kids[n]) /\ DOMAIN Kids[n] = 1 .. Len(Kids[n]) /\ Len(Kids[n]) \in Nat
        /\ Kids[n][i] \in Node
    BY <1>1
  <1>3. {Kids[n][i]} \cup Beneath[Kids[n][i]] \subseteq Beneath[n]
    BY WorkflowAssumption
  <1> QED
    BY <1>2, <1>3 DEF Tree

LEMMA KidsCover ==
  ASSUME NEW n \in Node, NEW k \in Beneath[n]
  PROVE  \E i \in DOMAIN Kids[n] : k \in Tree(Kids[n][i])
  BY WorkflowAssumption DEF Tree

(* Every step but the root has one place. *)
LEMMA ParentIs ==
  ASSUME NEW n \in Node, n # Root
  PROVE  /\ Parent(n) \in Node /\ Index(n) \in DOMAIN Kids[Parent(n)]
         /\ Kids[Parent(n)][Index(n)] = n
  <1>1. \E m \in Node : \E i \in DOMAIN Kids[m] : Kids[m][i] = n
    <2>1. n \in Beneath[Root] /\ Root \in Node
      BY WorkflowAssumption, TreeAssumption DEF Tree
    <2>2. PICK m \in Tree(Root) : \E i \in DOMAIN Kids[m] : Kids[m][i] = n
      BY <2>1, TreeAssumption
    <2> QED
      BY <2>2, TreeAssumption
  <1>2. Parent(n) \in Node /\ \E i \in DOMAIN Kids[Parent(n)] : Kids[Parent(n)][i] = n
    BY <1>1 DEF Parent
  <1> QED
    BY <1>2 DEF Index

(* The steps above a child are its parent and those above the parent. *)
LEMMA AboveKid ==
  ASSUME NEW n \in Node, NEW i \in DOMAIN Kids[n], NEW a \in Node
  PROVE  Kids[n][i] \in Beneath[a] <=> n \in Tree(a)
  <1>1. Kids[n][i] \in Beneath[n]
    BY KidTyped DEF Tree
  <1>2. ASSUME n \in Tree(a) PROVE Kids[n][i] \in Beneath[a]
    BY <1>1, <1>2, TreeAssumption DEF Tree
  <1>3. ASSUME Kids[n][i] \in Beneath[a] PROVE n \in Tree(a)
    <2>1. PICK m \in Tree(a) : \E j \in DOMAIN Kids[m] : Kids[m][j] = Kids[n][i]
      BY <1>3, TreeAssumption
    <2>2. m \in Node
      BY WorkflowAssumption DEF Tree
    <2> QED
      BY <2>1, <2>2, TreeAssumption
  <1> QED
    BY <1>2, <1>3

LEMMA RootIsOutermost == \A a \in Node : Root \notin Beneath[a]
  BY WorkflowAssumption, TreeAssumption DEF Tree

LEMMA BeforeRoot == Before(Root) = {}
  <1>1. \A m \in Node : \A j \in DOMAIN Kids[m] : Root \notin Tree(Kids[m][j])
    BY KidTyped, RootIsOutermost
  <1> QED
    BY <1>1 DEF Before

LEMMA LeavesTyped ==
  /\ Leaves(Root) = Leaf
  /\ \A n \in Leaf : Leaves(n) = {n} /\ Beneath[n] = {} /\ n \in Node
  /\ \A n \in Node : Leaves(n) \subseteq Leaf /\ Before(n) \subseteq Leaf
  <1>1. Leaves(Root) = Leaf
    BY TreeAssumption DEF Leaves, Leaf
  <1>2. ASSUME NEW n \in Leaf PROVE Leaves(n) = {n} /\ Beneath[n] = {} /\ n \in Node
    <2>1. n \in Node /\ Kids[n] = <<>>
      BY DEF Leaf
    <2>2. Beneath[n] = {}
      BY <2>1, WorkflowAssumption
    <2> QED
      BY <2>1, <2>2 DEF Leaves, Tree
  <1> QED
    BY <1>1, <1>2 DEF Leaves, Before

(* What comes before a child is what comes before its parent and the leaves of
   the children before it. *)
LEMMA BeforeKid ==
  ASSUME NEW n \in Node, NEW i \in DOMAIN Kids[n]
  PROVE  \A l \in Leaf : l \in Before(Kids[n][i]) <=>
           \/ l \in Before(n)
           \/ \E h \in DOMAIN Kids[n] : h < i /\ l \in Tree(Kids[n][h])
  <1> TAKE l \in Leaf
  <1>1. ASSUME l \in Before(Kids[n][i])
        PROVE  l \in Before(n) \/ \E h \in DOMAIN Kids[n] : h < i /\ l \in Tree(Kids[n][h])
    <2>1. PICK m \in Node : \E g, j \in DOMAIN Kids[m] :
            g < j /\ l \in Tree(Kids[m][g]) /\ Kids[n][i] \in Tree(Kids[m][j])
      BY <1>1 DEF Before
    <2>2. PICK g \in DOMAIN Kids[m], j \in DOMAIN Kids[m] :
            g < j /\ l \in Tree(Kids[m][g]) /\ Kids[n][i] \in Tree(Kids[m][j])
      BY <2>1
    <2>3. CASE Kids[n][i] = Kids[m][j]
      <3>1. m = n /\ j = i
        BY <2>3, TreeAssumption
      <3> QED
        BY <2>2, <3>1
    <2>4. CASE Kids[n][i] \in Beneath[Kids[m][j]]
      <3>1. n \in Tree(Kids[m][j])
        BY <2>4, KidTyped, AboveKid
      <3> QED
        BY <2>2, <3>1 DEF Before
    <2> QED
      BY <2>2, <2>3, <2>4 DEF Tree
  <1>2. ASSUME l \in Before(n) PROVE l \in Before(Kids[n][i])
    <2>1. PICK m \in Node : \E g, j \in DOMAIN Kids[m] :
            g < j /\ l \in Tree(Kids[m][g]) /\ n \in Tree(Kids[m][j])
      BY <1>2 DEF Before
    <2>2. PICK g \in DOMAIN Kids[m], j \in DOMAIN Kids[m] :
            g < j /\ l \in Tree(Kids[m][g]) /\ n \in Tree(Kids[m][j])
      BY <2>1
    <2>3. Kids[n][i] \in Tree(Kids[m][j])
      BY <2>2, KidTyped, AboveKid DEF Tree
    <2> QED
      BY <2>2, <2>3 DEF Before
  <1>3. ASSUME NEW h \in DOMAIN Kids[n], h < i, l \in Tree(Kids[n][h])
        PROVE  l \in Before(Kids[n][i])
    BY <1>3 DEF Before, Tree
  <1> QED
    BY <1>1, <1>2, <1>3

LEMMA BeforeFirst ==
  ASSUME NEW n \in Node, 1 \in DOMAIN Kids[n]
  PROVE  Before(Kids[n][1]) = Before(n)
  <1>1. \A h \in DOMAIN Kids[n] : ~(h < 1)
    BY KidTyped
  <1>2. \A l \in Leaf : l \in Before(Kids[n][1]) <=> l \in Before(n)
    BY <1>1, BeforeKid
  <1>3. Before(Kids[n][1]) \subseteq Leaf /\ Before(n) \subseteq Leaf
    BY KidTyped, LeavesTyped
  <1> QED
    BY <1>2, <1>3

LEMMA BeforeNext ==
  ASSUME NEW n \in Node, NEW i \in DOMAIN Kids[n], i + 1 \in DOMAIN Kids[n]
  PROVE  Before(Kids[n][i + 1]) = Before(Kids[n][i]) \cup Leaves(Kids[n][i])
  <1>1. \A h \in DOMAIN Kids[n] : h < i + 1 <=> h < i \/ h = i
    BY KidTyped
  <1>2. \A l \in Leaf : l \in Before(Kids[n][i + 1]) <=>
           \/ l \in Before(n)
           \/ \E h \in DOMAIN Kids[n] : h < i + 1 /\ l \in Tree(Kids[n][h])
    BY BeforeKid
  <1>3. \A l \in Leaf : l \in Before(Kids[n][i]) <=>
           \/ l \in Before(n)
           \/ \E h \in DOMAIN Kids[n] : h < i /\ l \in Tree(Kids[n][h])
    BY BeforeKid
  <1>4. \A l \in Leaf : l \in Leaves(Kids[n][i]) <=> l \in Tree(Kids[n][i])
    BY DEF Leaves
  <1>5. /\ Before(Kids[n][i + 1]) \subseteq Leaf /\ Before(Kids[n][i]) \subseteq Leaf
        /\ Leaves(Kids[n][i]) \subseteq Leaf
    BY KidTyped, LeavesTyped
  <1> QED
    BY <1>1, <1>2, <1>3, <1>4, <1>5

LEMMA BeforeLast ==
  ASSUME NEW n \in Node, NEW i \in DOMAIN Kids[n], i = Len(Kids[n])
  PROVE  Before(Kids[n][i]) \cup Leaves(Kids[n][i]) = Before(n) \cup Leaves(n)
  <1>1. \A h \in DOMAIN Kids[n] : h < i \/ h = i
    BY KidTyped
  <1>2. \A l \in Leaf : l \in Before(Kids[n][i]) <=>
           \/ l \in Before(n)
           \/ \E h \in DOMAIN Kids[n] : h < i /\ l \in Tree(Kids[n][h])
    BY BeforeKid
  <1>3. \A l \in Leaf : l \in Leaves(Kids[n][i]) <=> l \in Tree(Kids[n][i])
    BY DEF Leaves
  <1>4. \A l \in Leaf : l \in Leaves(n) <=> \E h \in DOMAIN Kids[n] : l \in Tree(Kids[n][h])
    <2>1. \A l \in Leaf : l \in Leaves(n) <=> l \in Beneath[n]
      <3>1. n \notin Leaf
        BY KidTyped DEF Leaf
      <3> QED
        BY <3>1 DEF Leaves, Tree
    <2> QED
      BY <2>1, KidTyped, KidsCover
  <1>5. /\ Before(n) \subseteq Leaf /\ Before(Kids[n][i]) \subseteq Leaf
        /\ Leaves(Kids[n][i]) \subseteq Leaf /\ Leaves(n) \subseteq Leaf
    BY KidTyped, LeavesTyped
  <1> QED
    BY <1>1, <1>2, <1>3, <1>4, <1>5

(* The leaves of a step, and of the steps beneath it, do not come before it. *)
LEMMA BeforeIsApart ==
  ASSUME NEW n \in Node, NEW m \in Tree(n)
  PROVE  m \in Node /\ Before(n) \cap Leaves(m) = {} /\ Before(n) \subseteq Before(m)
  <1>1. m \in Node /\ Tree(m) \subseteq Tree(n)
    BY WorkflowAssumption, TreeAssumption DEF Tree
  <1>2. ASSUME NEW p \in Node, NEW j \in DOMAIN Kids[p], n \in Tree(Kids[p][j])
        PROVE  Tree(n) \subseteq Tree(Kids[p][j])
    <2>1. Kids[p][j] \in Node
      BY KidTyped
    <2> QED
      BY <1>2, <2>1, TreeAssumption DEF Tree
  <1>3. ASSUME NEW l \in Before(n), l \in Tree(n) PROVE FALSE
    <2>1. PICK p \in Node : \E g, j \in DOMAIN Kids[p] :
            g < j /\ l \in Tree(Kids[p][g]) /\ n \in Tree(Kids[p][j])
      BY DEF Before
    <2>2. PICK g \in DOMAIN Kids[p], j \in DOMAIN Kids[p] :
            g < j /\ l \in Tree(Kids[p][g]) /\ n \in Tree(Kids[p][j])
      BY <2>1
    <2>3. g # j
      BY <2>2, KidTyped
    <2>4. l \in Tree(Kids[p][j])
      BY <1>2, <1>3, <2>2
    <2> QED
      BY <2>2, <2>3, <2>4, TreeAssumption
  <1>4. ASSUME NEW l \in Before(n) PROVE l \in Before(m)
    <2>1. PICK p \in Node : \E g, j \in DOMAIN Kids[p] :
            g < j /\ l \in Tree(Kids[p][g]) /\ n \in Tree(Kids[p][j])
      BY DEF Before
    <2>2. l \in Leaf /\ \E g, j \in DOMAIN Kids[p] :
            g < j /\ l \in Tree(Kids[p][g]) /\ m \in Tree(Kids[p][j])
      BY <1>2, <2>1 DEF Before
    <2> QED
      BY <2>2 DEF Before
  <1> QED
    BY <1>1, <1>3, <1>4 DEF Leaves

-----------------------------------------------------------------------------
(* The run, its captures and its ordinals. *)

Running == {"dispatch", "body", "record", "recording", "checkpoint"}
Settled == {"record", "recording", "checkpoint"}

RunTypes ==
  /\ snap \in Baseline \cup {None}
  /\ captured \in Baseline \cup {None}
  /\ chain \in Seq(Node \cup {"begin", "end"})
  /\ log \in Log /\ ordinal \in Ordinal
  /\ baseline \in Baseline \cup {None}
  /\ pc \in Phases /\ cur \in Node /\ runOrd \in Ordinal
  /\ inp \in [Node -> Value \cup {None}] /\ out \in [Node -> Value \cup {None}]
  /\ mark \in [Node -> Nat]

(* A step that is reached has its input, one that settled its output. *)
Values ==
  /\ pc \in Running => \A a \in Node : cur \in Tree(a) => inp[a] \in Value
  /\ pc \in Settled => out[cur] \in Value
  /\ pc = "body" => cur \in Leaf

(* Which captures are queued: the run's first, and the one that is awaited. *)
ChainInv ==
  /\ pc = "checkpoint" => chain \in {<<cur>>, <<"begin", cur>>}
  /\ pc = "ending" => chain \in {<<"end">>, <<"begin", "end">>}
  /\ pc \notin {"checkpoint", "ending"} => chain \in {<<>>, <<"begin">>}
  /\ pc \in {"down", "dropping"} \/ (pc = "ready" /\ baseline = None) => chain = <<>>
  /\ captured # None => chain # <<>>

(* The ordinal a capture taken now would hold. *)
Latest == IF baseline = None THEN ordinal ELSE baseline.ordinal

(* Ordinals only go forward in storage, and never past where a run stands. *)
Counts ==
  /\ closed \subseteq Ordinal
  /\ closed # {} => snap # None
  /\ snap # None => \A o \in closed : o < snap.ordinal
  /\ pc = "down" => baseline = None /\ captured = None
  /\ pc # "down" => (snap # None => snap.ordinal <= Latest)
  /\ pc # "down" => (captured # None => captured.ordinal <= Latest)
  /\ snap # None /\ captured # None => snap.ordinal <= captured.ordinal
  /\ pc \in Running => baseline # None /\ runOrd = baseline.ordinal /\ ordinal = runOrd + 1
  /\ pc = "ending" => baseline = None /\ ordinal = runOrd + 1
  /\ pc = "dropping" => baseline = None
  /\ pc = "ready" /\ baseline # None => ordinal = baseline.ordinal
  /\ captured # None /\ Head(chain) = "end" => captured.ordinal = ordinal
  /\ pc \notin Running => cur = Root

RunInv == RunTypes /\ Values /\ ChainInv /\ Counts

LEMMA ShortSeqs ==
  /\ \A x : Head(<<x>>) = x /\ Tail(<<x>>) = <<>> /\ Append(<<>>, x) = <<x>> /\ <<x>> # <<>>
  /\ \A x, y : /\ Head(<<x, y>>) = x /\ Tail(<<x, y>>) = <<y>> /\ Append(<<x>>, y) = <<x, y>>
               /\ <<x, y>> # <<>>
  <1>1. ASSUME NEW x
        PROVE  Head(<<x>>) = x /\ Tail(<<x>>) = <<>> /\ Append(<<>>, x) = <<x>> /\ <<x>> # <<>>
    OBVIOUS
  <1>2. ASSUME NEW x, NEW y PROVE Head(<<x, y>>) = x /\ <<x, y>> # <<>>
    OBVIOUS
  <1>3. ASSUME NEW x, NEW y PROVE Tail(<<x, y>>) = <<y>>
    OBVIOUS
  <1>4. ASSUME NEW x, NEW y PROVE Append(<<x>>, y) = <<x, y>>
    <2>1. <<x>> \in Seq({x, y}) /\ <<x, y>> \in Seq({x, y})
      OBVIOUS
    <2>2. Append(<<x>>, y) \in Seq({x, y}) /\ Len(Append(<<x>>, y)) = 2 /\ Len(<<x, y>>) = 2
      BY <2>1
    <2>3. Append(<<x>>, y)[1] = x /\ Append(<<x>>, y)[2] = y
      BY <2>1
    <2>4. \A i \in 1 .. 2 : Append(<<x>>, y)[i] = <<x, y>>[i]
      BY <2>3
    <2> QED
      BY <2>1, <2>2, <2>4, SeqEqual
  <1> QED
    BY <1>1, <1>2, <1>3, <1>4

LEMMA ChainTyped ==
  /\ <<>> \in Seq(Node \cup {"begin", "end"}) /\ <<"begin">> \in Seq(Node \cup {"begin", "end"})
  /\ <<"end">> \in Seq(Node \cup {"begin", "end"})
  /\ <<"begin", "end">> \in Seq(Node \cup {"begin", "end"})
  /\ \A n \in Node : /\ <<n>> \in Seq(Node \cup {"begin", "end"})
                    /\ <<"begin", n>> \in Seq(Node \cup {"begin", "end"})
  OBVIOUS

LEMMA BaselineFields ==
  /\ \A b \in Baseline : b # None /\ b.ordinal \in Ordinal /\ b.log \in Log
  /\ \A l \in Log, o \in Ordinal : [log |-> l, ordinal |-> o] \in Baseline
  BY NoBaselineAssumption DEF Baseline

LEMMA OrdinalIs == Ordinal \subseteq Nat /\ \A o \in Ordinal : o < MaxRuns => o + 1 \in Ordinal
  BY WorkflowAssumption DEF Ordinal

(* Where a run goes once its step has an output. *)
Ends(answer, waiting) ==
  /\ cur = Root /\ out' = [out EXCEPT ![cur] = answer] /\ UNCHANGED <<cur, inp>>
  /\ baseline' = None /\ chain' = Append(waiting, "end") /\ pc' = "ending"

GoesOn(answer, waiting) ==
  /\ cur' \in Node /\ out' = [out EXCEPT ![cur] = answer]
  /\ inp' = [inp EXCEPT ![cur'] = answer] /\ cur' # Root
  /\ Before(cur') = Before(cur) \cup Leaves(cur)
  /\ \A a \in Node : cur' \in Beneath[a] <=> cur \in Beneath[a]
  /\ pc' = "dispatch" /\ chain' = waiting /\ baseline' = baseline

GoesUp(answer, waiting) ==
  /\ cur' \in Node /\ cur \in Beneath[cur']
  /\ out' = [out EXCEPT ![cur] = answer, ![cur'] = answer]
  /\ Before(cur') \cup Leaves(cur') = Before(cur) \cup Leaves(cur)
  /\ \A a \in Node : cur \in Beneath[a] <=> cur' \in Tree(a)
  /\ pc' = "record" /\ chain' = waiting /\ UNCHANGED <<inp, baseline>>

LEMMA ProceedIs ==
  ASSUME cur \in Node, NEW answer, NEW waiting, Proceed(cur, answer, waiting)
  PROVE  Ends(answer, waiting) \/ GoesOn(answer, waiting) \/ GoesUp(answer, waiting)
  <1>1. CASE cur = Root
    BY <1>1 DEF Proceed, Ends, EndRun
  <1> DEFINE p == Parent(cur)
             i == Index(cur)
  <1>2. CASE cur # Root /\ ~IsLast(cur)
    <2>1. p \in Node /\ i \in DOMAIN Kids[p] /\ Kids[p][i] = cur
      BY <1>2, ParentIs
    <2>2. i \in 1 .. Len(Kids[p]) /\ DOMAIN Kids[p] = 1 .. Len(Kids[p]) /\ Len(Kids[p]) \in Nat
      BY <2>1, KidTyped
    <2>3. i # Len(Kids[p])
      BY <1>2 DEF IsLast
    <2>4. i + 1 \in DOMAIN Kids[p]
      BY <2>2, <2>3
    <2>5. /\ out' = [out EXCEPT ![cur] = answer] /\ cur' = Kids[p][i + 1]
          /\ inp' = [inp EXCEPT ![cur'] = answer]
          /\ pc' = "dispatch" /\ chain' = waiting /\ baseline' = baseline
      BY <1>2 DEF Proceed
    <2> HIDE DEF p, i
    <2>6. cur' \in Node /\ cur' \in Beneath[p]
      BY <2>1, <2>4, <2>5, KidTyped DEF Tree
    <2>7. cur' # Root
      BY <2>1, <2>6, RootIsOutermost
    <2>8. Before(cur') = Before(cur) \cup Leaves(cur)
      BY <2>1, <2>4, <2>5, BeforeNext
    <2>9. \A a \in Node : cur' \in Beneath[a] <=> cur \in Beneath[a]
      BY <2>1, <2>4, <2>5, AboveKid
    <2> QED
      BY <2>5, <2>6, <2>7, <2>8, <2>9 DEF GoesOn
  <1>3. CASE cur # Root /\ IsLast(cur)
    <2>1. p \in Node /\ i \in DOMAIN Kids[p] /\ Kids[p][i] = cur
      BY <1>3, ParentIs
    <2>2. i = Len(Kids[p])
      BY <1>3 DEF IsLast
    <2>3. /\ out' = [out EXCEPT ![cur] = answer, ![p] = answer] /\ cur' = p
          /\ pc' = "record" /\ chain' = waiting /\ UNCHANGED <<inp, baseline>>
      BY <1>3 DEF Proceed
    <2> HIDE DEF p, i
    <2>4. cur \in Beneath[p]
      BY <2>1, KidTyped DEF Tree
    <2>5. Before(p) \cup Leaves(p) = Before(cur) \cup Leaves(cur)
      BY <2>1, <2>2, BeforeLast
    <2>6. \A a \in Node : cur \in Beneath[a] <=> p \in Tree(a)
      BY <2>1, AboveKid
    <2> QED
      BY <2>1, <2>3, <2>4, <2>5, <2>6 DEF GoesUp
  <1> QED
    BY <1>1, <1>2, <1>3

(* A step that has its output, from the ledger or from its capture. *)
LEMMA ProceedRun ==
  ASSUME RunInv, pc \in {"dispatch", "checkpoint"},
         NEW answer \in Value, NEW waiting \in {<<>>, <<"begin">>}, Proceed(cur, answer, waiting),
         runOrd' = runOrd, ordinal' = ordinal, closed' = closed, log' \in Log,
         mark' \in [Node -> Nat],
         \/ captured' = captured /\ snap' = snap /\ waiting = chain
         \/ captured' = None /\ snap' = snap
         \/ captured' = None /\ snap' = captured /\ captured # None
  PROVE  RunInv'
  <1>1. Ends(answer, waiting) \/ GoesOn(answer, waiting) \/ GoesUp(answer, waiting)
    BY ProceedIs DEF RunInv, RunTypes
  <1>2. /\ pc \in Running /\ \A a \in Node : cur \in Tree(a) => inp[a] \in Value
        /\ baseline # None /\ baseline \in Baseline /\ baseline.ordinal \in Nat
        /\ runOrd = baseline.ordinal /\ ordinal = runOrd + 1
        /\ Latest = baseline.ordinal
    BY BaselineFields, OrdinalIs DEF RunInv, RunTypes, Values, Counts, Running, Latest
  <1>3. captured # None => captured.ordinal \in Nat
    BY BaselineFields, OrdinalIs DEF RunInv, RunTypes
  <1>4. snap # None => snap.ordinal \in Nat
    BY BaselineFields, OrdinalIs DEF RunInv, RunTypes
  <1>5. /\ snap' \in Baseline \cup {None} /\ captured' \in Baseline \cup {None}
        /\ snap' # None => snap'.ordinal <= baseline.ordinal
        /\ captured' # None => captured'.ordinal <= baseline.ordinal
        /\ snap' # None /\ captured' # None => snap'.ordinal <= captured'.ordinal
        /\ closed # {} => snap' # None
        /\ snap' # None => \A o \in closed : o < snap'.ordinal
    <2>1. /\ snap # None => snap.ordinal <= baseline.ordinal
          /\ captured # None => captured.ordinal <= baseline.ordinal
          /\ snap # None /\ captured # None => snap.ordinal <= captured.ordinal
      BY <1>2 DEF RunInv, Counts, Running
    <2>2. closed \subseteq Nat /\ (closed # {} => snap # None)
      BY OrdinalIs DEF RunInv, Counts
    <2>3. snap # None => \A o \in closed : o < snap.ordinal
      BY DEF RunInv, Counts
    <2>4. snap \in Baseline \cup {None} /\ captured \in Baseline \cup {None}
      BY DEF RunInv, RunTypes
    <2>5. CASE snap' = snap
      <3>1. captured' = captured \/ captured' = None
        OBVIOUS
      <3>2. CASE captured' = captured
        <4>1. snap' # None => snap'.ordinal <= baseline.ordinal
          BY <2>1, <2>5
        <4>2. captured' # None => captured'.ordinal <= baseline.ordinal
          BY <2>1, <3>2
        <4>3. snap' # None /\ captured' # None => snap'.ordinal <= captured'.ordinal
          BY <2>1, <2>5, <3>2
        <4>4. closed # {} => snap' # None
          BY <2>2, <2>5
        <4>5. snap' # None => \A o \in closed : o < snap'.ordinal
          BY <2>3, <2>5
        <4> QED
          BY <2>4, <2>5, <3>2, <4>1, <4>2, <4>3, <4>4, <4>5
      <3>3. CASE captured' = None
        <4>1. snap' # None => snap'.ordinal <= baseline.ordinal
          BY <2>1, <2>5
        <4>2. closed # {} => snap' # None
          BY <2>2, <2>5
        <4>3. snap' # None => \A o \in closed : o < snap'.ordinal
          BY <2>3, <2>5
        <4> QED
          BY <2>4, <2>5, <3>3, <4>1, <4>2, <4>3
      <3> QED
        BY <3>1, <3>2, <3>3
    <2>6. CASE captured' = None /\ snap' = captured /\ captured # None
      <3>1. ASSUME NEW o \in closed PROVE o < captured.ordinal
        <4>1. o < snap.ordinal /\ snap.ordinal <= captured.ordinal /\ o \in Nat
          BY <2>1, <2>2, <2>3, <2>6, <3>1, OrdinalIs DEF RunInv, Counts
        <4>2. snap # None
          BY <2>2, <3>1 DEF RunInv, Counts
        <4> QED
          BY <1>3, <1>4, <2>6, <4>1, <4>2
      <3> QED
        BY <2>1, <2>4, <2>6, <3>1
    <2> QED
      BY <2>5, <2>6
  <1>6. captured' # None => waiting = <<"begin">>
    BY DEF RunInv, ChainInv
  <1>7. CASE Ends(answer, waiting)
    <2>1. chain' \in {<<"end">>, <<"begin", "end">>}
      BY <1>7, ShortSeqs DEF Ends
    <2>2. captured' # None => chain' = <<"begin", "end">>
      BY <1>6, <1>7, ShortSeqs DEF Ends
    <2>3. RunTypes'
      <3>1. chain' \in Seq(Node \cup {"begin", "end"})
        BY <2>1, ChainTyped
      <3>2. out' \in [Node -> Value \cup {None}]
        BY <1>7 DEF Ends, RunInv, RunTypes
      <3> QED
        BY <1>5, <1>7, <3>1, <3>2 DEF Ends, RunInv, RunTypes, Phases
    <2>4. Values' /\ ChainInv'
      BY <1>7, <2>1, <2>2, ShortSeqs DEF Ends, Values, ChainInv, Running, Settled
    <2>5. Latest' = ordinal
      BY <1>7 DEF Latest, Ends
    <2>6. Head(<<"begin", "end">>) # "end"
      BY ShortSeqs
    <2>7. Counts'
      <3>1. /\ closed' \subseteq Ordinal /\ (closed' # {} => snap' # None)
            /\ snap' # None => \A o \in closed' : o < snap'.ordinal
        BY <1>5 DEF RunInv, Counts
      <3>2. snap' # None => snap'.ordinal <= Latest'
        <4>1. snap' # None => snap'.ordinal \in Nat
          BY <1>5, BaselineFields, OrdinalIs
        <4> QED
          BY <1>2, <1>5, <2>5, <4>1
      <3>3. captured' # None => captured'.ordinal <= Latest'
        <4>1. captured' # None => captured'.ordinal \in Nat
          BY <1>5, BaselineFields, OrdinalIs
        <4> QED
          BY <1>2, <1>5, <2>5, <4>1
      <3>4. ~(captured' # None /\ Head(chain') = "end")
        BY <2>2, <2>6
      <3> QED
        BY <1>2, <1>5, <1>7, <3>1, <3>2, <3>3, <3>4 DEF Ends, Counts, Running
    <2> QED
      BY <2>3, <2>4, <2>7 DEF RunInv
  <1>8. CASE GoesOn(answer, waiting)
    <2>1. /\ inp' \in [Node -> Value \cup {None}] /\ out' \in [Node -> Value \cup {None}]
          /\ inp'[cur'] = answer /\ \A a \in Node : a # cur' => inp'[a] = inp[a]
      BY <1>8, WorkflowAssumption DEF GoesOn, RunInv, RunTypes
    <2>2. RunTypes'
      <3>1. chain' \in Seq(Node \cup {"begin", "end"})
        BY <1>8, ChainTyped DEF GoesOn
      <3> QED
        BY <1>5, <1>8, <2>1, <3>1 DEF GoesOn, RunInv, RunTypes, Phases
    <2>3. Values'
      <3>1. ASSUME NEW a \in Node, cur' \in Tree(a) PROVE inp'[a] \in Value
        <4>1. CASE a = cur'
          BY <2>1, <4>1
        <4>2. CASE a # cur'
          <5>1. cur \in Tree(a)
            BY <1>8, <3>1, <4>2 DEF GoesOn, Tree
          <5> QED
            BY <1>2, <2>1, <4>2, <5>1
        <4> QED
          BY <4>1, <4>2
      <3> QED
        BY <1>8, <3>1 DEF GoesOn, Values, Settled
    <2>4. ChainInv'
      BY <1>6, <1>8, ShortSeqs DEF GoesOn, ChainInv
    <2>5. Latest' = baseline.ordinal
      BY <1>2, <1>8 DEF Latest, GoesOn
    <2>6. captured' # None => Head(chain') # "end"
      BY <1>6, <1>8, ShortSeqs DEF GoesOn
    <2>7. Counts'
      BY <1>2, <1>5, <1>8, <2>5, <2>6 DEF GoesOn, Counts, RunInv, Running
    <2> QED
      BY <2>2, <2>3, <2>4, <2>7 DEF RunInv
  <1>9. CASE GoesUp(answer, waiting)
    <2>1. out' \in [Node -> Value \cup {None}] /\ out'[cur'] = answer
      <3>1. out \in [Node -> Value \cup {None}] /\ cur \in Node
        BY DEF RunInv, RunTypes
      <3>2. cur' \in Node /\ out' = [out EXCEPT ![cur] = answer, ![cur'] = answer]
        BY <1>9 DEF GoesUp
      <3> QED
        BY <3>1, <3>2
    <2>2. RunTypes'
      <3>1. chain' \in Seq(Node \cup {"begin", "end"})
        BY <1>9, ChainTyped DEF GoesUp
      <3> QED
        BY <1>5, <1>9, <2>1, <3>1 DEF GoesUp, RunInv, RunTypes, Phases
    <2>3. Values'
      <3>1. ASSUME NEW a \in Node, cur' \in Tree(a) PROVE inp'[a] \in Value
        <4>1. cur \in Tree(a) /\ inp' = inp
          BY <1>9, <3>1 DEF GoesUp, Tree
        <4> QED
          BY <1>2, <4>1
      <3> QED
        BY <1>9, <2>1, <3>1 DEF GoesUp, Values
    <2>4. ChainInv'
      BY <1>6, <1>9, ShortSeqs DEF GoesUp, ChainInv
    <2>5. Latest' = baseline.ordinal
      BY <1>2, <1>9 DEF Latest, GoesUp
    <2>6. captured' # None => Head(chain') # "end"
      BY <1>6, <1>9, ShortSeqs DEF GoesUp
    <2>7. Counts'
      BY <1>2, <1>5, <1>9, <2>5, <2>6 DEF GoesUp, Counts, RunInv, Running
    <2> QED
      BY <2>2, <2>3, <2>4, <2>7 DEF RunInv
  <1> QED
    BY <1>1, <1>7, <1>8, <1>9

LEMMA BeginRunInv ==
  ASSUME RunInv, NEW v \in Value, NEW start \in Baseline, BeginRun(v, start),
         chain = <<>>, captured = None, start.ordinal < MaxRuns,
         snap # None => snap.ordinal <= start.ordinal,
         UNCHANGED <<snap, captured, closed, out, mark>>
  PROVE  RunInv'
  <1>1. /\ start # None /\ start.log \in Log /\ start.ordinal \in Ordinal
        /\ start.ordinal + 1 \in Ordinal
    BY BaselineFields, OrdinalIs
  <1>2. chain' = <<"begin">> /\ chain' \in Seq(Node \cup {"begin", "end"}) /\ chain' # <<>>
    BY ShortSeqs, ChainTyped DEF BeginRun
  <1>3. /\ inp' \in [Node -> Value \cup {None}] /\ inp'[Root] = v
        /\ cur' = Root /\ Root \in Node /\ pc' = "dispatch"
        /\ log' = start.log /\ baseline' = start /\ runOrd' = start.ordinal
        /\ ordinal' = start.ordinal + 1
    BY WorkflowAssumption DEF BeginRun, RunInv, RunTypes
  <1>4. RunTypes'
    BY <1>1, <1>2, <1>3 DEF RunInv, RunTypes, Phases
  <1>5. Values'
    <2>1. \A a \in Node : Root \in Tree(a) => a = Root
      BY RootIsOutermost DEF Tree
    <2> QED
      BY <1>3, <2>1 DEF Values, Settled
  <1>6. ChainInv'
    BY <1>2, <1>3 DEF ChainInv
  <1>7. Counts'
    BY <1>1, <1>3 DEF RunInv, Counts, Latest, Running
  <1> QED
    BY <1>4, <1>5, <1>6, <1>7 DEF RunInv

LEMMA StartRunInv ==
  ASSUME RunInv, NEW v \in Value, Start(v)
  PROVE  RunInv'
  <1> DEFINE start == [log |-> log, ordinal |-> ordinal]
  <1>1. /\ pc = "ready" /\ baseline = None /\ ordinal < MaxRuns /\ BeginRun(v, start)
        /\ UNCHANGED <<snap, captured, closed, out, mark>>
    BY DEF Start, MayStart, ghost
  <1>2. start \in Baseline /\ start.ordinal = ordinal
    BY BaselineFields DEF RunInv, RunTypes
  <1> HIDE DEF start
  <1>3. chain = <<>> /\ captured = None
    BY <1>1 DEF RunInv, ChainInv
  <1>4. snap # None => snap.ordinal <= start.ordinal
    BY <1>1, <1>2 DEF RunInv, Counts, Latest
  <1> QED
    BY <1>1, <1>2, <1>3, <1>4, BeginRunInv

LEMMA RetryRunInv ==
  ASSUME RunInv, NEW v \in Value, Retry(v)
  PROVE  RunInv'
  <1> DEFINE start == IF snap # None THEN snap ELSE baseline
  <1>1. /\ pc = "ready" /\ baseline # None /\ chain = <<>> /\ ordinal < MaxRuns
        /\ BeginRun(v, start) /\ UNCHANGED <<snap, captured, closed, out, mark>>
    BY DEF Retry, MayStart, ghost
  <1>2. start \in Baseline /\ baseline \in Baseline
    BY <1>1 DEF RunInv, RunTypes
  <1>3. captured = None /\ ordinal = baseline.ordinal /\ (snap # None => snap.ordinal <= ordinal)
    BY <1>1 DEF RunInv, ChainInv, Counts, Latest
  <1>4. snap # None => snap.ordinal \in Ordinal
    BY BaselineFields DEF RunInv, RunTypes
  <1>5. start.ordinal < MaxRuns /\ (snap # None => snap.ordinal <= start.ordinal)
    <2>1. baseline.ordinal \in Ordinal
      BY <1>2, BaselineFields
    <2>2. CASE snap # None
      <3>1. start = snap /\ start.ordinal \in Nat /\ ordinal \in Nat /\ MaxRuns \in Nat
        BY <1>3, <1>4, <2>1, <2>2, OrdinalIs, WorkflowAssumption
      <3> QED
        BY <1>1, <1>3, <2>2, <3>1
    <2>3. CASE snap = None
      BY <1>1, <1>3, <2>3
    <2> QED
      BY <2>2, <2>3
  <1> HIDE DEF start
  <1> QED
    BY <1>1, <1>2, <1>3, <1>5, BeginRunInv

(* The body starts: a leaf's, or a composite's first child is reached. *)
FirstChild(n) == Kids[n][1]

LEMMA FirstChildIs ==
  ASSUME NEW n \in Node, n \notin Leaf
  PROVE  /\ FirstChild(n) \in Node /\ FirstChild(n) # Root /\ FirstChild(n) # n
         /\ Before(FirstChild(n)) = Before(n)
         /\ \A a \in Node : FirstChild(n) \in Beneath[a] <=> n \in Tree(a)
  <1>1. Kids[n] \in Seq(Node) /\ Kids[n] # <<>>
    BY WorkflowAssumption DEF Leaf
  <1>2. 1 \in DOMAIN Kids[n]
    BY <1>1
  <1>3. FirstChild(n) \in Beneath[n] /\ FirstChild(n) \in Node
    BY <1>2, KidTyped DEF FirstChild, Tree
  <1>4. FirstChild(n) # Root /\ FirstChild(n) # n
    BY <1>3, RootIsOutermost, TreeAssumption
  <1> QED
    BY <1>2, <1>3, <1>4, BeforeFirst, AboveKid DEF FirstChild

LEMMA RunRunInv ==
  ASSUME RunInv, Run
  PROVE  RunInv'
  <1>1. /\ pc = "dispatch" /\ UNCHANGED <<store, ctx, runOrd, out, ghost>>
        /\ mark' = [mark EXCEPT ![cur] = Len(log)]
    BY DEF Run
  <1>2. mark' \in [Node -> Nat]
    <2>1. Len(log) \in Nat
      BY DEF RunInv, RunTypes, Log
    <2> QED
      BY <1>1, <2>1 DEF RunInv, RunTypes
  <1>3. CASE cur \in Leaf
    <2>1. pc' = "body" /\ UNCHANGED <<cur, inp>>
      BY <1>3 DEF Run
    <2>2. RunTypes'
      BY <1>1, <1>2, <2>1 DEF RunInv, RunTypes, Phases, store, ctx
    <2>3. Values' /\ ChainInv'
      BY <1>1, <1>3, <2>1 DEF RunInv, Values, ChainInv, Running, Settled, store, ctx
    <2>4. Counts'
      BY <1>1, <2>1 DEF RunInv, Counts, Running, Latest, store, ctx, ghost
    <2> QED
      BY <2>2, <2>3, <2>4 DEF RunInv
  <1>4. CASE cur \notin Leaf
    <2>1. /\ cur' = FirstChild(cur) /\ inp' = [inp EXCEPT ![cur'] = inp[cur]] /\ pc' = pc
      BY <1>4 DEF Run, FirstChild
    <2>2. /\ cur' \in Node /\ \A a \in Node : cur' \in Beneath[a] <=> cur \in Tree(a)
      BY <1>4, <2>1, FirstChildIs DEF RunInv, RunTypes
    <2>3. \A a \in Node : cur \in Tree(a) => inp[a] \in Value
      BY <1>1 DEF RunInv, Values, Running
    <2>4. inp[cur] \in Value
      BY <2>3 DEF RunInv, RunTypes, Tree
    <2>5. /\ inp' \in [Node -> Value \cup {None}] /\ inp'[cur'] = inp[cur]
          /\ \A a \in Node : a # cur' => inp'[a] = inp[a]
      BY <2>1, <2>2, <2>4 DEF RunInv, RunTypes
    <2>6. RunTypes'
      BY <1>1, <1>2, <2>1, <2>2, <2>5 DEF RunInv, RunTypes, Phases, store, ctx
    <2>7. Values'
      <3>1. ASSUME NEW a \in Node, cur' \in Tree(a) PROVE inp'[a] \in Value
        <4>1. CASE a = cur'
          BY <2>4, <2>5, <4>1
        <4>2. CASE a # cur'
          BY <2>2, <2>3, <2>5, <3>1, <4>2 DEF Tree
        <4> QED
          BY <4>1, <4>2
      <3> QED
        BY <1>1, <2>1, <3>1 DEF Values, Settled
    <2>8. ChainInv'
      BY <1>1, <2>1 DEF RunInv, ChainInv, store, ctx
    <2>9. Counts'
      BY <1>1, <2>1 DEF RunInv, Counts, Running, Latest, store, ctx, ghost
    <2> QED
      BY <2>6, <2>7, <2>8, <2>9 DEF RunInv
  <1> QED
    BY <1>3, <1>4

LEMMA AnswerRunInv ==
  ASSUME RunInv, NEW v \in Value, Answer(v)
  PROVE  RunInv' /\ out'[cur] = v
  <1>1. /\ pc = "body" /\ out' = [out EXCEPT ![cur] = v] /\ pc' = "record"
        /\ log' = Append(log, [ord |-> runOrd, node |-> cur, out |-> v])
        /\ UNCHANGED <<store, ordinal, baseline, cur, runOrd, inp, mark, closed>>
    BY DEF Answer
  <1>2. log' \in Log
    <2>1. cur \in Leaf
      BY <1>1 DEF RunInv, Values
    <2> QED
      BY <1>1, <2>1 DEF RunInv, RunTypes, Log, Item
  <1>3. out' \in [Node -> Value \cup {None}] /\ out'[cur] = v
    BY <1>1 DEF RunInv, RunTypes
  <1>4. RunTypes'
    BY <1>1, <1>2, <1>3 DEF RunInv, RunTypes, Phases, store
  <1>5. Values' /\ ChainInv'
    BY <1>1, <1>3 DEF RunInv, Values, ChainInv, Running, Settled, store
  <1>6. Counts'
    BY <1>1 DEF RunInv, Counts, Running, Latest, store
  <1> QED
    BY <1>3, <1>4, <1>5, <1>6 DEF RunInv

(* The run gives up, dies, ends or is over: the step it is at is the root again. *)
LEMMA RestIs ==
  ASSUME Rest
  PROVE  /\ cur' = Root /\ cur' \in Node /\ mark' \in [Node -> Nat]
         /\ inp' \in [Node -> Value \cup {None}] /\ out' \in [Node -> Value \cup {None}]
  BY WorkflowAssumption DEF Rest, Unset

LEMMA StepFailsRunInv ==
  ASSUME RunInv, StepFails
  PROVE  RunInv'
  <1>1. /\ pc = "body" /\ pc' = "ready" /\ ordinal' = runOrd /\ Rest
        /\ UNCHANGED <<store, log, baseline, runOrd, ghost>>
    BY DEF StepFails, Rest
  <1>2. RunTypes'
    BY <1>1, RestIs DEF RunInv, RunTypes, Phases, store
  <1>3. Values' /\ ChainInv'
    BY <1>1 DEF RunInv, Values, ChainInv, Counts, Running, Settled, store
  <1>4. captured # None => Head(chain) # "end"
    BY <1>1, ShortSeqs DEF RunInv, ChainInv
  <1>5. Counts'
    BY <1>1, <1>4, RestIs DEF RunInv, Counts, Running, Latest, store, ghost
  <1> QED
    BY <1>2, <1>3, <1>5 DEF RunInv

LEMMA RecordRunInv ==
  ASSUME RunInv, Record
  PROVE  RunInv'
  <1>1. pc = "record" /\ pc' = "recording" /\ UNCHANGED <<store, ctx, cur, runOrd, inp, out, mark, ghost>>
    BY DEF Record
  <1>2. RunTypes' /\ Values' /\ ChainInv'
    BY <1>1 DEF RunInv, RunTypes, Phases, Values, ChainInv, Running, Settled, store, ctx
  <1>3. Counts'
    BY <1>1 DEF RunInv, Counts, Running, Latest, store, ctx, ghost
  <1> QED
    BY <1>2, <1>3 DEF RunInv

LEMMA CheckpointRunInv ==
  ASSUME RunInv, Checkpoint
  PROVE  RunInv'
  <1>1. /\ pc = "recording" /\ pc' = "checkpoint" /\ chain' = Append(chain, cur)
        /\ UNCHANGED <<snap, captured, ctx, cur, runOrd, inp, out, mark, ghost>>
    BY DEF Checkpoint
  <1>2. chain \in {<<>>, <<"begin">>} /\ cur \in Node /\ cur # "end" /\ cur # "begin"
    BY <1>1, WorkflowAssumption DEF RunInv, RunTypes, ChainInv
  <1>3. chain' \in {<<cur>>, <<"begin", cur>>}
    BY <1>1, <1>2, ShortSeqs
  <1>4. chain' \in Seq(Node \cup {"begin", "end"}) /\ chain' # <<>> /\ Head(chain') # "end"
    BY <1>2, <1>3, ChainTyped, ShortSeqs
  <1>5. RunTypes' /\ Values' /\ ChainInv'
    BY <1>1, <1>3, <1>4 DEF RunInv, RunTypes, Phases, Values, ChainInv, Running, Settled, ctx
  <1>6. Counts'
    BY <1>1, <1>4 DEF RunInv, Counts, Running, Latest, ctx, ghost
  <1> QED
    BY <1>5, <1>6 DEF RunInv

LEMMA CaptureRunInv ==
  ASSUME RunInv, Capture
  PROVE  RunInv' /\ captured' \in Baseline /\ captured'.ordinal = Latest
  <1>1. /\ chain # <<>> /\ captured = None /\ captured' = RunBaseline
        /\ UNCHANGED <<snap, chain, ctx, run, ghost>>
    BY DEF Capture
  <1>2. captured' \in Baseline /\ captured' # None /\ captured'.ordinal = Latest
    BY <1>1, BaselineFields DEF RunBaseline, Latest, RunInv, RunTypes
  <1>3. RunTypes' /\ Values' /\ ChainInv'
    BY <1>1, <1>2 DEF RunInv, RunTypes, Values, ChainInv, ctx, run
  <1>4. pc # "down" /\ Latest' = Latest
    BY <1>1 DEF RunInv, ChainInv, Latest, ctx
  <1>5. Head(chain) = "end" => baseline = None
    <2>1. ASSUME Head(chain) = "end" PROVE pc = "ending"
      <3>1. cur # "end"
        BY WorkflowAssumption DEF RunInv, RunTypes
      <3> QED
        BY <1>1, <2>1, <3>1, ShortSeqs DEF RunInv, ChainInv
    <2> QED
      BY <2>1 DEF RunInv, Counts
  <1>6. Head(chain') = "end" => captured'.ordinal = ordinal'
    BY <1>1, <1>2, <1>5 DEF Latest, ctx
  <1>7. Latest \in Nat
    <2>1. CASE baseline = None
      BY <2>1, OrdinalIs DEF Latest, RunInv, RunTypes
    <2>2. CASE baseline # None
      BY <2>2, BaselineFields, OrdinalIs DEF Latest, RunInv, RunTypes
    <2> QED
      BY <2>1, <2>2
  <1>8. Counts'
    <2>1. snap' # None => snap'.ordinal <= captured'.ordinal
      BY <1>1, <1>2, <1>4 DEF RunInv, Counts
    <2>2. captured'.ordinal <= Latest'
      BY <1>2, <1>4, <1>7
    <2> QED
      BY <1>1, <1>4, <1>6, <2>1, <2>2 DEF RunInv, Counts, Running, ctx, run, ghost
  <1> QED
    BY <1>2, <1>3, <1>8 DEF RunInv

(* A capture settles, saved or not. *)
LEMMA SettleFacts ==
  ASSUME RunInv, captured # None, captured' = None, snap' \in {snap, captured}
  PROVE  /\ snap' \in Baseline \cup {None} /\ pc # "down"
         /\ closed # {} => snap' # None
         /\ snap' # None => \A o \in closed : o < snap'.ordinal
         /\ snap' # None => snap'.ordinal <= Latest
  <1>1. captured \in Baseline /\ captured.ordinal \in Nat /\ pc # "down"
    BY BaselineFields, OrdinalIs DEF RunInv, RunTypes, Counts
  <1>2. snap # None => snap.ordinal \in Nat
    BY BaselineFields, OrdinalIs DEF RunInv, RunTypes
  <1>3. CASE snap' = snap
    BY <1>1, <1>3 DEF RunInv, RunTypes, Counts
  <1>4. CASE snap' = captured
    <2>1. ASSUME NEW o \in closed PROVE o < captured.ordinal
      <3>1. snap # None /\ o < snap.ordinal /\ snap.ordinal <= captured.ordinal /\ o \in Nat
        BY OrdinalIs DEF RunInv, Counts
      <3> QED
        BY <1>1, <1>2, <3>1
    <2>2. captured.ordinal <= Latest
      BY <1>1 DEF RunInv, Counts
    <2> QED
      BY <1>1, <1>4, <2>1, <2>2
  <1> QED
    BY <1>3, <1>4

LEMMA BeginSettlesRunInv ==
  ASSUME RunInv, captured # None, captured' = None, snap' \in {snap, captured},
         BeginSettles, UNCHANGED <<log, ordinal>>
  PROVE  RunInv'
  <1>1. /\ Head(chain) = "begin" /\ chain' = Tail(chain) /\ UNCHANGED <<baseline, run, ghost>>
    BY DEF BeginSettles
  <1>2. cur # "begin" /\ cur \in Node
    BY WorkflowAssumption DEF RunInv, RunTypes
  <1>3. CASE pc = "checkpoint"
    <2>1. chain' = <<cur>>
      <3>1. chain = <<cur>> \/ chain = <<"begin", cur>>
        BY <1>3 DEF RunInv, ChainInv
      <3>2. Head(<<cur>>) # "begin"
        BY <1>2, ShortSeqs
      <3>3. chain = <<"begin", cur>>
        BY <1>1, <3>1, <3>2
      <3> QED
        BY <1>1, <3>3, ShortSeqs
    <2>2. chain' \in Seq(Node \cup {"begin", "end"})
      BY <1>2, <2>1, ChainTyped
    <2>3. RunTypes' /\ Values' /\ ChainInv'
      BY <1>1, <1>3, <2>1, <2>2, SettleFacts DEF RunInv, RunTypes, Values, ChainInv, run
    <2> QED
      BY <1>1, <1>3, <2>3, SettleFacts DEF RunInv, Counts, Latest, Running, run, ghost
  <1>4. CASE pc = "ending"
    <2>1. chain' = <<"end">>
      <3>1. chain = <<"end">> \/ chain = <<"begin", "end">>
        BY <1>4 DEF RunInv, ChainInv
      <3>2. Head(<<"end">>) # "begin"
        BY ShortSeqs
      <3>3. chain = <<"begin", "end">>
        BY <1>1, <3>1, <3>2
      <3> QED
        BY <1>1, <3>3, ShortSeqs
    <2>2. chain' \in Seq(Node \cup {"begin", "end"})
      BY <2>1, ChainTyped
    <2>3. RunTypes' /\ Values' /\ ChainInv'
      BY <1>1, <1>4, <2>1, <2>2, SettleFacts DEF RunInv, RunTypes, Values, ChainInv, Running, Settled, run
    <2> QED
      BY <1>1, <1>4, <2>3, SettleFacts DEF RunInv, Counts, Latest, Running, run, ghost
  <1>5. CASE pc \notin {"checkpoint", "ending"}
    <2>1. chain' = <<>> /\ chain' \in Seq(Node \cup {"begin", "end"})
      BY <1>1, <1>5, ShortSeqs, ChainTyped DEF RunInv, ChainInv
    <2>2. RunTypes' /\ Values' /\ ChainInv'
      BY <1>1, <1>5, <2>1, SettleFacts DEF RunInv, RunTypes, Values, ChainInv, run
    <2> QED
      BY <1>1, <1>5, <2>2, SettleFacts DEF RunInv, Counts, Latest, Running, run, ghost
  <1> QED
    BY <1>3, <1>4, <1>5

LEMMA StepSettlesRunInv ==
  ASSUME RunInv, captured # None, captured' = None, snap' \in {snap, captured},
         StepSettles, UNCHANGED <<log, ordinal>>
  PROVE  RunInv'
  <1>1. /\ Head(chain) = cur /\ pc = "checkpoint" /\ Proceed(cur, out[cur], Tail(chain))
        /\ UNCHANGED <<runOrd, mark, ghost>>
    BY DEF StepSettles
  <1>2. cur # "begin" /\ out[cur] \in Value
    BY <1>1, WorkflowAssumption DEF RunInv, RunTypes, Values, Settled
  <1>3. Tail(chain) = <<>>
    BY <1>1, <1>2, ShortSeqs DEF RunInv, ChainInv
  <1>4. Proceed(cur, out[cur], <<>>)
    BY <1>1, <1>3
  <1> QED
    BY <1>1, <1>2, <1>4, ProceedRun DEF RunInv, RunTypes, ghost

LEMMA EndIsHead ==
  ASSUME RunInv, captured # None, Head(chain) = "end"
  PROVE  pc = "ending" /\ chain = <<"end">> /\ Tail(chain) = <<>>
  <1>1. cur # "end" /\ chain # <<>>
    BY WorkflowAssumption DEF RunInv, RunTypes, ChainInv
  <1>2. pc = "ending"
    BY <1>1, ShortSeqs DEF RunInv, ChainInv
  <1>3. chain = <<"end">> \/ chain = <<"begin", "end">>
    BY <1>2 DEF RunInv, ChainInv
  <1>4. Head(<<"begin", "end">>) # "end"
    BY ShortSeqs
  <1>5. chain = <<"end">>
    BY <1>3, <1>4
  <1> QED
    BY <1>2, <1>5, ShortSeqs

LEMMA EndLandsRunInv ==
  ASSUME RunInv, captured # None, captured' = None, snap' = captured,
         EndLands, UNCHANGED <<log, ordinal>>
  PROVE  RunInv'
  <1>1. /\ Head(chain) = "end" /\ chain' = Tail(chain) /\ pc' = "dropping" /\ Rest
        /\ closed' = closed \cup {runOrd} /\ UNCHANGED <<baseline, runOrd>>
    BY DEF EndLands
  <1>2. pc = "ending" /\ chain' = <<>>
    BY <1>1, EndIsHead
  <1>3. /\ captured \in Baseline /\ captured.ordinal = ordinal /\ ordinal = runOrd + 1
        /\ runOrd \in Ordinal /\ runOrd \in Nat /\ baseline = None
    BY <1>1, <1>2, OrdinalIs DEF RunInv, RunTypes, Counts
  <1>4. RunTypes' /\ Values' /\ ChainInv'
    BY <1>1, <1>2, <1>3, ChainTyped, RestIs
       DEF RunInv, RunTypes, Phases, Values, ChainInv, Running, Settled
  <1>5. \A o \in closed' : o < snap'.ordinal
    <2>1. \A o \in closed : o < captured.ordinal
      BY SettleFacts
    <2> QED
      BY <1>1, <1>3, <2>1
  <1>6. snap' # None /\ snap'.ordinal <= Latest' /\ closed' \subseteq Ordinal
    BY <1>1, <1>3, OrdinalIs DEF Latest, RunInv, Counts
  <1>7. Counts'
    BY <1>1, <1>3, <1>5, <1>6, RestIs DEF Counts, Running
  <1> QED
    BY <1>4, <1>7 DEF RunInv

LEMMA EndFailsRunInv ==
  ASSUME RunInv, captured # None, captured' = None, snap' = snap,
         EndFails, UNCHANGED <<log, ordinal>>
  PROVE  RunInv'
  <1>1. /\ Head(chain) = "end" /\ chain' = Tail(chain) /\ pc' = "ready" /\ Rest
        /\ UNCHANGED <<baseline, runOrd, ghost>>
    BY DEF EndFails
  <1>2. pc = "ending" /\ chain' = <<>> /\ baseline = None
    BY <1>1, EndIsHead DEF RunInv, Counts
  <1>3. RunTypes' /\ Values' /\ ChainInv'
    BY <1>1, <1>2, ChainTyped, RestIs DEF RunInv, RunTypes, Phases, Values, ChainInv, Running, Settled
  <1>4. Counts'
    BY <1>1, <1>2, RestIs DEF RunInv, Counts, Running, Latest, ghost
  <1> QED
    BY <1>3, <1>4 DEF RunInv

LEMMA DroppedRunInv ==
  ASSUME RunInv, Dropped
  PROVE  RunInv'
  <1>1. pc = "dropping" /\ pc' = "ready" /\ UNCHANGED <<store, ctx, cur, runOrd, inp, out, mark, ghost>>
    BY DEF Dropped
  <1>2. RunTypes' /\ Values' /\ ChainInv'
    BY <1>1 DEF RunInv, RunTypes, Phases, Values, ChainInv, Running, Settled, store, ctx
  <1>3. Counts'
    BY <1>1 DEF RunInv, Counts, Running, Latest, store, ctx, ghost
  <1> QED
    BY <1>2, <1>3 DEF RunInv

LEMMA CrashRunInv ==
  ASSUME RunInv, Crash
  PROVE  RunInv'
  <1>1. /\ chain' = <<>> /\ captured' = None /\ log' = <<>> /\ ordinal' = 0 /\ baseline' = None
        /\ pc' = "down" /\ Rest /\ UNCHANGED <<snap, runOrd, ghost>>
    BY DEF Crash
  <1>2. log' \in Log /\ ordinal' \in Ordinal
    BY <1>1, WorkflowAssumption DEF Log, Ordinal
  <1>3. RunTypes' /\ Values' /\ ChainInv'
    BY <1>1, <1>2, ChainTyped, RestIs DEF RunInv, RunTypes, Phases, Values, ChainInv, Running, Settled
  <1>4. Counts'
    BY <1>1, RestIs DEF RunInv, Counts, Running, ghost
  <1> QED
    BY <1>3, <1>4 DEF RunInv

LEMMA RestoreRunInv ==
  ASSUME RunInv, Restore
  PROVE  RunInv'
  <1>1. /\ pc = "down" /\ pc' = "ready" /\ log' = IF snap = None THEN <<>> ELSE snap.log
        /\ ordinal' = IF snap = None THEN 0 ELSE snap.ordinal
        /\ UNCHANGED <<store, baseline, cur, runOrd, inp, out, mark, ghost>>
    BY DEF Restore
  <1>2. log' \in Log /\ ordinal' \in Ordinal
    <2>1. CASE snap = None
      BY <1>1, <2>1, WorkflowAssumption DEF Log, Ordinal
    <2>2. CASE snap # None
      BY <1>1, <2>2, BaselineFields DEF RunInv, RunTypes
    <2> QED
      BY <2>1, <2>2
  <1>3. RunTypes' /\ Values' /\ ChainInv'
    BY <1>1, <1>2 DEF RunInv, RunTypes, Phases, Values, ChainInv, Running, Settled, store
  <1>4. baseline' = None /\ captured' = None /\ Latest' = ordinal'
    BY <1>1 DEF RunInv, Counts, Latest, store
  <1>5. snap' # None => snap'.ordinal <= Latest'
    <2>1. ordinal' \in Nat
      BY <1>2, OrdinalIs
    <2> QED
      BY <1>1, <1>4, <2>1 DEF store
  <1>6. Counts'
    BY <1>1, <1>4, <1>5 DEF RunInv, Counts, Running, store, ghost
  <1> QED
    BY <1>3, <1>6 DEF RunInv

-----------------------------------------------------------------------------
(* The ledger and the run together. *)

BaseInv == LedgerInv /\ RunInv

(* What a row that answers a dispatch holds. *)
LEMMA AnswerIs ==
  ASSUME LedgerInv, NEW p \in Path, NEW h \in Value, NEW r \in L!Answers(p, h)
  PROVE  /\ r \in replayable /\ r.path = p /\ (r.hash = None \/ r.hash = h)
         /\ r.val.out \in Value /\ r.val.items \in Log
  BY DEF L!Answers, L!Matches, LedgerInv, L!TypeOK, L!Row, Recorded

LEMMA ReachedIs ==
  ASSUME RunInv, pc \in Running
  PROVE  /\ PathOf(cur) \in Path /\ PathOf(cur).ord = runOrd /\ PathOf(cur).node = cur
         /\ inp[cur] \in Value /\ inp[Root] \in Value
  <1>1. cur \in Node /\ runOrd \in Ordinal /\ Root \in Node /\ cur \in Tree(Root)
    BY WorkflowAssumption, TreeAssumption DEF RunInv, RunTypes
  <1> QED
    BY <1>1 DEF RunInv, Values, PathOf, Path, Tree

LEMMA ReplayBase ==
  ASSUME BaseInv, Replay
  PROVE  /\ BaseInv'
         /\ \E r \in L!Answers(PathOf(cur), inp[cur]) :
              /\ log' = log \o r.val.items /\ Proceed(cur, r.val.out, chain)
  <1>1. PICK r \in L!Answers(PathOf(cur), inp[cur]) :
          /\ log' = log \o r.val.items /\ Proceed(cur, r.val.out, chain)
    BY DEF Replay
  <1>2. /\ pc = "dispatch" /\ mark' = [mark EXCEPT ![cur] = Len(log)]
        /\ UNCHANGED <<ledger, snap, captured, ordinal, runOrd, ghost>>
    BY DEF Replay
  <1>3. r.val.out \in Value /\ r.val.items \in Log
    <2>1. pc \in Running
      BY <1>2 DEF Running
    <2> QED
      BY <2>1, AnswerIs, ReachedIs DEF BaseInv
  <1>4. log' \in Log /\ mark' \in [Node -> Nat]
    BY <1>1, <1>2, <1>3 DEF BaseInv, RunInv, RunTypes, Log
  <1>5. chain \in {<<>>, <<"begin">>}
    BY <1>2 DEF BaseInv, RunInv, ChainInv
  <1>6. RunInv'
    BY <1>1, <1>2, <1>3, <1>4, <1>5, ProceedRun DEF BaseInv, ghost
  <1>7. LedgerInv'
    BY <1>2 DEF BaseInv, LedgerInv, L!TypeOK, CallShape, ledger
  <1> QED
    BY <1>1, <1>6, <1>7 DEF BaseInv

LEMMA LedgerKept ==
  ASSUME LedgerInv, UNCHANGED ledger
  PROVE  LedgerInv'
  BY DEF LedgerInv, L!TypeOK, CallShape, ledger

LEMMA RunKept ==
  ASSUME RunInv, UNCHANGED <<store, ctx, run, closed>>
  PROVE  RunInv'
  <1>1. RunTypes' /\ Values' /\ ChainInv'
    BY DEF RunInv, RunTypes, Values, ChainInv, store, ctx, run
  <1>2. Counts'
    BY DEF RunInv, Counts, Latest, store, ctx, run
  <1> QED
    BY <1>1, <1>2 DEF RunInv

LEMMA SettleLedger ==
  ASSUME LedgerInv, BeginSettles \/ StepSettles \/ EndFails \/ EndLands,
         faults' \in Nat, crashes' \in Nat
  PROVE  LedgerInv'
  <1>1. CASE UNCHANGED <<rows, up, replayable, live, nextSeq, op, lost>>
    BY <1>1 DEF LedgerInv, L!TypeOK, CallShape
  <1>2. CASE EndLands
    <2>1. L!DropPaths(Root)
      BY <1>2 DEF EndLands
    <2> QED
      BY <2>1, DropTypes
  <1> QED
    BY <1>1, <1>2 DEF BeginSettles, StepSettles, EndFails

LEMMA SaveLandsBase ==
  ASSUME BaseInv, SaveLands
  PROVE  BaseInv'
  <1>1. /\ captured # None /\ captured' = None /\ snap' = captured
        /\ BeginSettles \/ StepSettles \/ EndLands
        /\ UNCHANGED <<log, ordinal, faults, crashes>>
    BY DEF SaveLands
  <1>2. faults' \in Nat /\ crashes' \in Nat
    BY <1>1 DEF BaseInv, LedgerInv, L!TypeOK
  <1>3. LedgerInv'
    BY <1>1, <1>2, SettleLedger DEF BaseInv
  <1>4. RunInv'
    BY <1>1, BeginSettlesRunInv, StepSettlesRunInv, EndLandsRunInv DEF BaseInv
  <1> QED
    BY <1>3, <1>4 DEF BaseInv

LEMMA SaveFailsBase ==
  ASSUME BaseInv, SaveFails
  PROVE  BaseInv'
  <1>1. /\ captured # None /\ captured' = None /\ snap' = snap /\ faults' = faults + 1
        /\ BeginSettles \/ StepSettles \/ EndFails
        /\ UNCHANGED <<log, ordinal, crashes>>
    BY DEF SaveFails
  <1>2. faults' \in Nat /\ crashes' \in Nat
    BY <1>1 DEF BaseInv, LedgerInv, L!TypeOK
  <1>3. LedgerInv'
    BY <1>1, <1>2, SettleLedger DEF BaseInv
  <1>4. RunInv'
    BY <1>1, BeginSettlesRunInv, StepSettlesRunInv, EndFailsRunInv DEF BaseInv
  <1> QED
    BY <1>3, <1>4 DEF BaseInv

LEMMA RecordBase ==
  ASSUME BaseInv, Record
  PROVE  /\ BaseInv' /\ UNCHANGED <<rows, replayable>>
         /\ op[cur].phase = "running"
         /\ op'[cur].phase = "appending"
         /\ op'[cur].row = NewRow(cur, [out |-> out[cur], items |-> ItemsOf(cur)])
         /\ \A m \in Node \ {cur} : op'[m] = op[m]
  <1>1. pc = "record" /\ L!Record(cur, [out |-> out[cur], items |-> ItemsOf(cur)])
    BY DEF Record
  <1>2. out[cur] \in Value /\ log \in Seq(Item) /\ mark[cur] \in Nat /\ cur \in Node
    BY <1>1 DEF BaseInv, RunInv, RunTypes, Values, Settled, Log
  <1>3. ItemsOf(cur) \in Log
    BY <1>2 DEF ItemsOf, Log
  <1>4. [out |-> out[cur], items |-> ItemsOf(cur)] \in Recorded
    BY <1>2, <1>3 DEF Recorded
  <1> DEFINE v == [out |-> out[cur], items |-> ItemsOf(cur)]
  <1> HIDE DEF v
  <1>5. v \in Recorded /\ L!Record(cur, v)
    BY <1>1, <1>4 DEF v
  <1>6. /\ LedgerInv' /\ UNCHANGED <<rows, replayable>> /\ op[cur].phase = "running"
        /\ op'[cur].phase = "appending" /\ op'[cur].row = NewRow(cur, v)
        /\ \A m \in Node \ {cur} : op'[m] = op[m]
    BY <1>2, <1>5, RecordTypes DEF BaseInv
  <1> QED
    BY <1>6, RecordRunInv DEF BaseInv, v

LEMMA RunBase ==
  ASSUME BaseInv, Run
  PROVE  /\ BaseInv' /\ rows' = rows /\ replayable' \subseteq replayable
         /\ L!Answers(PathOf(cur), inp[cur]) = {} /\ op[cur].phase = "idle"
         /\ op'[cur] = [L!Idle EXCEPT !.phase = "running", !.path = PathOf(cur), !.hash = inp[cur]]
         /\ \A m \in Node \ {cur} : op'[m] = op[m]
  <1>1. /\ pc = "dispatch" /\ L!Answers(PathOf(cur), inp[cur]) = {}
        /\ L!Dispatch(cur, PathOf(cur), inp[cur])
    BY DEF Run
  <1>2. cur \in Node /\ PathOf(cur) \in Path /\ inp[cur] \in Value
    BY <1>1, ReachedIs DEF BaseInv, RunInv, RunTypes, Running
  <1>3. LedgerInv' /\ rows' = rows /\ replayable' \subseteq replayable
    BY <1>1, <1>2, DispatchTypes DEF BaseInv
  <1>4. /\ op[cur].phase = "idle"
        /\ op' = [op EXCEPT ![cur] = [L!Idle EXCEPT !.phase = "running", !.path = PathOf(cur),
                                                     !.hash = inp[cur]]]
    BY <1>1 DEF L!Dispatch
  <1>5. op \in [Node -> L!Call]
    BY DEF BaseInv, LedgerInv, L!TypeOK
  <1> QED
    BY <1>1, <1>2, <1>3, <1>4, <1>5, RunRunInv DEF BaseInv

(* A ledger call of the run, between its record and its checkpoint or while
   a finished run's paths are dropped. *)
LEMMA AwaitedBase ==
  ASSUME BaseInv, Recording \/ Dropping
  PROVE  /\ BaseInv' /\ pc \in {"recording", "dropping"} /\ Awaited(cur)
         /\ UNCHANGED <<store, ctx, run, ghost, bounds>>
  <1>1. cur \in Node /\ (pc = "dropping" => cur = Root)
    BY DEF BaseInv, RunInv, RunTypes, Counts, Running
  <1>2. pc \in {"recording", "dropping"} /\ LedgerStep(cur)
    BY <1>1 DEF Recording, Dropping
  <1>3. Awaited(cur) /\ UNCHANGED <<store, ctx, run, ghost, bounds>>
    BY <1>2 DEF LedgerStep, Awaited
  <1>4. LedgerInv'
    BY <1>1, <1>3, AwaitedTypes DEF BaseInv
  <1> QED
    BY <1>2, <1>3, <1>4, RunKept DEF BaseInv, ghost

LEMMA BaseInit == Init => BaseInv
  <1> SUFFICES ASSUME Init PROVE BaseInv
    OBVIOUS
  <1>1. LedgerInv
    <2>1. /\ rows = {} /\ up = TRUE /\ replayable = {} /\ live = [p \in Path |-> L!NoSeq]
          /\ nextSeq = 0 /\ op = [c \in Node |-> L!Idle] /\ lost = {} /\ faults = 0 /\ crashes = 0
      BY DEF Init, L!Init
    <2>2. op \in [Node -> L!Call] /\ \A n \in Node : op[n].phase = "idle"
      BY <2>1, IdleTyped
    <2> QED
      BY <2>1, <2>2 DEF LedgerInv, L!TypeOK, CallShape
  <1>2. RunTypes
    BY WorkflowAssumption, ChainTyped DEF Init, RunTypes, Log, Ordinal, Unset, Phases
  <1>3. Values /\ ChainInv
    BY DEF Init, Values, ChainInv, Running, Settled
  <1>4. Counts
    BY WorkflowAssumption DEF Init, Counts, Running, Latest
  <1> QED
    BY <1>1, <1>2, <1>3, <1>4 DEF BaseInv, RunInv

LEMMA BaseStep == BaseInv /\ [Next]_vars => BaseInv'
  <1> SUFFICES ASSUME BaseInv, [Next]_vars PROVE BaseInv'
    OBVIOUS
  <1>1. ASSUME NEW v \in Value, Start(v) PROVE BaseInv'
    <2>1. UNCHANGED ledger
      BY <1>1 DEF Start
    <2> QED
      BY <1>1, <2>1, StartRunInv, LedgerKept DEF BaseInv
  <1>2. ASSUME NEW v \in Value, Retry(v) PROVE BaseInv'
    <2>1. L!Adopt({})
      BY <1>2 DEF Retry
    <2> QED
      BY <1>2, <2>1, RetryRunInv, ReadTypes DEF BaseInv
  <1>3. CASE Replay
    BY <1>3, ReplayBase
  <1>4. CASE Run
    BY <1>4, RunBase
  <1>5. ASSUME NEW v \in Value, Answer(v) PROVE BaseInv'
    <2>1. UNCHANGED ledger
      BY <1>5 DEF Answer
    <2> QED
      BY <1>5, <2>1, AnswerRunInv, LedgerKept DEF BaseInv
  <1>6. CASE Record
    BY <1>6, RecordBase
  <1>7. CASE Recording \/ Dropping
    BY <1>7, AwaitedBase
  <1>8. CASE Checkpoint
    <2>1. UNCHANGED ledger
      BY <1>8 DEF Checkpoint
    <2> QED
      BY <1>8, <2>1, CheckpointRunInv, LedgerKept DEF BaseInv
  <1>9. CASE Capture
    <2>1. UNCHANGED ledger
      BY <1>9 DEF Capture
    <2> QED
      BY <1>9, <2>1, CaptureRunInv, LedgerKept DEF BaseInv
  <1>10. CASE SaveLands
    BY <1>10, SaveLandsBase
  <1>11. CASE SaveFails
    BY <1>11, SaveFailsBase
  <1>12. CASE Dropped
    <2>1. UNCHANGED ledger
      BY <1>12 DEF Dropped
    <2> QED
      BY <1>12, <2>1, DroppedRunInv, LedgerKept DEF BaseInv
  <1>13. CASE StepFails
    <2>1. /\ op' = [n \in Node |-> L!Idle]
          /\ UNCHANGED <<rows, up, replayable, live, nextSeq, lost, faults, crashes>>
      BY <1>13 DEF StepFails
    <2>2. LedgerInv'
      BY <2>1, IdleTypes DEF BaseInv, LedgerInv, L!TypeOK
    <2> QED
      BY <1>13, <2>2, StepFailsRunInv DEF BaseInv
  <1>14. CASE Crash
    <2>1. /\ op' = [n \in Node |-> L!Idle] /\ rows' = rows /\ replayable' = {} /\ up' = FALSE
          /\ live' = [p \in Path |-> L!NoSeq] /\ nextSeq' = 0 /\ crashes' = crashes + 1
          /\ lost' = lost /\ faults' = faults
      BY <1>14 DEF Crash, L!Crash
    <2>2. crashes' \in Nat
      BY <2>1 DEF BaseInv, LedgerInv, L!TypeOK
    <2>3. LedgerInv'
      BY <2>1, <2>2, IdleTypes DEF BaseInv
    <2> QED
      BY <1>14, <2>3, CrashRunInv DEF BaseInv
  <1>15. CASE Restore
    <2>1. L!Load({})
      BY <1>15 DEF Restore
    <2> QED
      BY <1>15, <2>1, RestoreRunInv, ReadTypes DEF BaseInv
  <1>16. CASE UNCHANGED vars
    <2>1. UNCHANGED ledger /\ UNCHANGED <<store, ctx, run, closed>>
      BY <1>16 DEF vars, ghost
    <2> QED
      BY <2>1, LedgerKept, RunKept DEF BaseInv
  <1> QED
    BY <1>1, <1>2, <1>3, <1>4, <1>5, <1>6, <1>7, <1>8, <1>9, <1>10, <1>11, <1>12, <1>13, <1>14,
       <1>15, <1>16 DEF Next, RunStep

(* Every variable keeps its type, whatever the workflow, the values and the
   bounds. *)
THEOREM TypeCorrect == Spec => []TypeOK
  <1>1. BaseInv => TypeOK
    BY DEF BaseInv, LedgerInv, RunInv, RunTypes, TypeOK
  <1> QED
    BY <1>1, BaseInit, BaseStep, PTL DEF Spec, Safety

(* No run stands at the paths of a finished run whose snapshot landed, so its
   rows, dropped or not, are never replayed (agent-harness.ts:1156-1169):
   ordinals in storage only grow, and a run starts past those in storage. *)
THEOREM FinishedRunsNotReplayed == Spec => []FinishedRunNotReplayed
  <1>1. BaseInv => FinishedRunNotReplayed
    <2> SUFFICES ASSUME BaseInv, pc \in {"dispatch", "body", "record"}, runOrd \in closed
                 PROVE  FALSE
      BY DEF FinishedRunNotReplayed
    <2>1. /\ pc \in Running /\ pc # "down"
      BY DEF Running
    <2>2. runOrd = baseline.ordinal /\ baseline # None /\ Latest = runOrd /\ runOrd \in Nat
      BY <2>1, OrdinalIs DEF BaseInv, RunInv, RunTypes, Counts, Latest
    <2>3. snap # None /\ runOrd < snap.ordinal /\ snap.ordinal <= Latest
      BY <2>1 DEF BaseInv, RunInv, Counts
    <2>4. snap.ordinal \in Nat
      BY <2>3, BaselineFields, OrdinalIs DEF BaseInv, RunInv, RunTypes
    <2> QED
      BY <2>2, <2>3, <2>4
  <1> QED
    BY <1>1, BaseInit, BaseStep, PTL DEF Spec, Safety

-----------------------------------------------------------------------------
(* Stories: what a piece of the item log tells. *)

(* Behind its first k items the log l holds one item of each leaf in S, all of
   ordinal o. *)
Covers(l, k, o, S) ==
  /\ {l[i].node : i \in k + 1 .. Len(l)} = S
  /\ \A i \in k + 1 .. Len(l) : l[i].ord = o
  /\ \A i, j \in k + 1 .. Len(l) : i < j => l[i].node # l[j].node

(* Each answers what the one before it answered, starting from v, as a body
   recorded in E did; the last answer is w. *)
Told(l, k, o, v, w, E) ==
  /\ \A i \in k + 1 .. Len(l) :
       <<o, l[i].node, IF i = k + 1 THEN v ELSE l[i - 1].out, l[i].out>> \in E
  /\ w = IF k = Len(l) THEN v ELSE l[Len(l)].out

Tells(l, k, o, v, w, S, E) ==
  k \in 0 .. Len(l) /\ Covers(l, k, o, S) /\ Told(l, k, o, v, w, E)

LEMMA NothingTold ==
  ASSUME NEW l \in Log, NEW o, NEW v, NEW E
  PROVE  Tells(l, Len(l), o, v, v, {}, E)
  <1>1. Len(l) \in Nat
    BY DEF Log
  <1>2. Len(l) + 1 .. Len(l) = {}
    BY <1>1
  <1> QED
    BY <1>1, <1>2 DEF Covers, Told, Tells

LEMMA OneTold ==
  ASSUME NEW o, NEW n, NEW v, NEW w, NEW E, <<o, n, v, w>> \in E
  PROVE  /\ Covers(<<[ord |-> o, node |-> n, out |-> w]>>, 0, o, {n})
         /\ Told(<<[ord |-> o, node |-> n, out |-> w]>>, 0, o, v, w, E)
  <1> DEFINE x == [ord |-> o, node |-> n, out |-> w]
             l == <<x>>
  <1>1. Len(l) = 1 /\ l[1] = x /\ 0 + 1 .. 1 = {1}
    OBVIOUS
  <1>2. x.ord = o /\ x.node = n /\ x.out = w
    OBVIOUS
  <1> HIDE DEF l, x
  <1>3. Covers(l, 0, o, {n}) /\ Told(l, 0, o, v, w, E)
    <2>1. {l[i].node : i \in 0 + 1 .. Len(l)} = {n}
      BY <1>1, <1>2
    <2>2. \A i \in 0 + 1 .. Len(l) : i = 1
      BY <1>1
    <2>3. Covers(l, 0, o, {n})
      BY <1>1, <1>2, <2>1, <2>2 DEF Covers
    <2>4. \A i \in 0 + 1 .. Len(l) :
            <<o, l[i].node, IF i = 0 + 1 THEN v ELSE l[i - 1].out, l[i].out>> \in E
      BY <1>1, <1>2, <2>2
    <2> QED
      BY <1>1, <1>2, <2>3, <2>4 DEF Told
  <1> QED
    BY <1>3 DEF l, x

(* Nothing but the bodies of its own ordinal makes a story true. *)
LEMMA StillTold ==
  ASSUME NEW l, NEW k, NEW o, NEW v, NEW w, NEW E, NEW F,
         Told(l, k, o, v, w, E), \A e \in E : e[1] = o => e \in F
  PROVE  Told(l, k, o, v, w, F)
  <1>1. \A a, b, c : <<o, a, b, c>>[1] = o
    OBVIOUS
  <1> QED
    BY <1>1 DEF Told

LEMMA CoversBehind ==
  ASSUME NEW l \in Log, NEW it \in Log, NEW k \in 0 .. Len(l), NEW o, NEW S, NEW T,
         Covers(l, k, o, S), Covers(it, 0, o, T), S \cap T = {}
  PROVE  Covers(l \o it, k, o, S \cup T)
  <1> DEFINE m == l \o it
             a == Len(l)
             b == Len(it)
  <1>1. a \in Nat /\ b \in Nat /\ k \in Nat /\ k <= a /\ Len(m) = a + b
    BY DEF Log
  <1>2. \A i \in 1 .. a : m[i] = l[i]
    BY DEF Log
  <1>3. \A i \in 1 .. b : m[a + i] = it[i]
    BY DEF Log
  <1> HIDE DEF m
  <1>4. ASSUME NEW i \in k + 1 .. Len(m)
        PROVE  \/ i \in k + 1 .. a /\ m[i] = l[i] /\ m[i].node \in S /\ m[i].ord = o
               \/ i - a \in 0 + 1 .. b /\ m[i] = it[i - a] /\ m[i].node \in T /\ m[i].ord = o
    <2>1. CASE i <= a
      <3>1. i \in k + 1 .. a /\ i \in 1 .. a
        BY <1>1, <2>1
      <3> QED
        BY <1>2, <3>1 DEF Covers
    <2>2. CASE ~(i <= a)
      <3>1. i - a \in 0 + 1 .. b /\ i - a \in 1 .. b /\ a + (i - a) = i
        BY <1>1, <2>2
      <3>2. m[i] = it[i - a]
        BY <1>3, <3>1
      <3> QED
        BY <3>1, <3>2 DEF Covers
    <2> QED
      BY <2>1, <2>2
  <1>5. \A n \in S : \E i \in k + 1 .. Len(m) : m[i].node = n
    <2> TAKE n \in S
    <2>1. PICK i \in k + 1 .. a : l[i].node = n
      BY DEF Covers
    <2>2. i \in k + 1 .. Len(m) /\ i \in 1 .. a
      BY <1>1
    <2> QED
      BY <1>2, <2>1, <2>2
  <1>6. \A n \in T : \E i \in k + 1 .. Len(m) : m[i].node = n
    <2> TAKE n \in T
    <2>1. PICK i \in 0 + 1 .. b : it[i].node = n
      BY DEF Covers
    <2>2. a + i \in k + 1 .. Len(m) /\ i \in 1 .. b
      BY <1>1
    <2> QED
      BY <1>3, <2>1, <2>2
  <1>7. {m[i].node : i \in k + 1 .. Len(m)} = S \cup T
    BY <1>4, <1>5, <1>6
  <1>8. ASSUME NEW i \in k + 1 .. Len(m), NEW j \in k + 1 .. Len(m), i < j
        PROVE  m[i].node # m[j].node
    <2>1. CASE i \in k + 1 .. a /\ j \in k + 1 .. a
      <3>1. m[i] = l[i] /\ m[j] = l[j]
        BY <1>1, <1>2, <2>1
      <3> QED
        BY <1>8, <2>1, <3>1 DEF Covers
    <2>2. CASE i - a \in 0 + 1 .. b /\ j - a \in 0 + 1 .. b
      <3>1. i - a < j - a /\ i - a \in 1 .. b /\ j - a \in 1 .. b /\ a + (i - a) = i /\ a + (j - a) = j
        BY <1>1, <1>8, <2>2
      <3>2. m[i] = it[i - a] /\ m[j] = it[j - a]
        BY <1>3, <3>1
      <3> QED
        BY <2>2, <3>1, <3>2 DEF Covers
    <2>3. CASE i \in k + 1 .. a /\ j - a \in 0 + 1 .. b
      <3>1. j \notin k + 1 .. a /\ i - a \notin 0 + 1 .. b
        BY <1>1, <2>3
      <3>2. m[i].node \in S /\ m[j].node \in T
        BY <1>4, <3>1
      <3> QED
        BY <3>2
    <2>4. CASE i - a \in 0 + 1 .. b /\ j \in k + 1 .. a
      BY <1>1, <1>8, <2>4
    <2> QED
      BY <1>4, <2>1, <2>2, <2>3, <2>4
  <1>9. \A i \in k + 1 .. Len(m) : m[i].ord = o
    BY <1>4
  <1>10. Covers(m, k, o, S \cup T)
    BY <1>7, <1>8, <1>9 DEF Covers
  <1> QED
    BY <1>10 DEF m

LEMMA ToldBehind ==
  ASSUME NEW l \in Log, NEW it \in Log, NEW k \in 0 .. Len(l), NEW o, NEW v, NEW w, NEW z, NEW E,
         Told(l, k, o, v, w, E), Told(it, 0, o, w, z, E)
  PROVE  Told(l \o it, k, o, v, z, E)
  <1> DEFINE m == l \o it
             a == Len(l)
             b == Len(it)
  <1>1. a \in Nat /\ b \in Nat /\ k \in Nat /\ k <= a /\ Len(m) = a + b
    BY DEF Log
  <1>2. \A i \in 1 .. a : m[i] = l[i]
    BY DEF Log
  <1>3. \A i \in 1 .. b : m[a + i] = it[i]
    BY DEF Log
  <1> HIDE DEF m
  <1>4. ASSUME NEW i \in k + 1 .. Len(m)
        PROVE  <<o, m[i].node, IF i = k + 1 THEN v ELSE m[i - 1].out, m[i].out>> \in E
    <2>1. CASE i <= a
      <3>1. i \in k + 1 .. a /\ i \in 1 .. a /\ (i # k + 1 => i - 1 \in 1 .. a)
        BY <1>1, <2>1
      <3>2. m[i] = l[i] /\ (i # k + 1 => m[i - 1] = l[i - 1])
        BY <1>2, <3>1
      <3> QED
        BY <3>1, <3>2 DEF Told
    <2>2. CASE i = a + 1
      <3>1. 1 \in 1 .. b /\ 1 \in 0 + 1 .. b /\ (i = k + 1 <=> k = a) /\ i - 1 = a
        BY <1>1, <2>2
      <3>2. m[i] = it[1]
        BY <1>3, <2>2, <3>1
      <3>3. <<o, it[1].node, w, it[1].out>> \in E
        BY <3>1 DEF Told
      <3>4. k # a => m[a] = l[a]
        BY <1>1, <1>2
      <3>5. w = IF i = k + 1 THEN v ELSE m[i - 1].out
        BY <3>1, <3>4 DEF Told
      <3> QED
        BY <3>2, <3>3, <3>5
    <2>3. CASE i > a + 1
      <3>1. /\ i - a \in 1 .. b /\ i - a \in 0 + 1 .. b /\ a + (i - a) = i /\ i # k + 1
            /\ (i - a) - 1 \in 1 .. b /\ a + ((i - a) - 1) = i - 1 /\ i - a # 0 + 1
        BY <1>1, <2>3
      <3>2. m[i] = it[i - a] /\ m[i - 1] = it[(i - a) - 1]
        BY <1>3, <3>1
      <3>3. <<o, it[i - a].node, it[(i - a) - 1].out, it[i - a].out>> \in E
        BY <3>1 DEF Told
      <3> QED
        BY <3>1, <3>2, <3>3
    <2> QED
      BY <1>1, <2>1, <2>2, <2>3
  <1>5. z = IF k = Len(m) THEN v ELSE m[Len(m)].out
    <2>1. CASE b = 0
      <3>1. z = w /\ Len(m) = a
        BY <1>1, <2>1 DEF Told
      <3>2. k # a => m[a] = l[a]
        BY <1>1, <1>2
      <3> QED
        BY <3>1, <3>2 DEF Told
    <2>2. CASE b # 0
      <3>1. k # Len(m) /\ b \in 1 .. b
        BY <1>1, <2>2
      <3>2. m[Len(m)] = it[b]
        BY <1>1, <1>3, <3>1
      <3> QED
        BY <2>2, <3>1, <3>2 DEF Told
    <2> QED
      BY <2>1, <2>2
  <1>6. Told(m, k, o, v, z, E)
    BY <1>4, <1>5 DEF Told
  <1> QED
    BY <1>6 DEF m

(* The items a step appended, cut from the log. *)
LEMMA CutTold ==
  ASSUME NEW l \in Log, NEW k \in 0 .. Len(l), NEW o, NEW S, NEW v, NEW w, NEW E,
         Covers(l, k, o, S), Told(l, k, o, v, w, E)
  PROVE  /\ SubSeq(l, k + 1, Len(l)) \in Log
         /\ Len(SubSeq(l, k + 1, Len(l))) = Len(l) - k
         /\ \A i \in 1 .. Len(l) - k : SubSeq(l, k + 1, Len(l))[i] = l[k + i]
         /\ Covers(SubSeq(l, k + 1, Len(l)), 0, o, S)
         /\ Told(SubSeq(l, k + 1, Len(l)), 0, o, v, w, E)
  <1> DEFINE m == SubSeq(l, k + 1, Len(l))
             a == Len(l)
  <1>1. a \in Nat /\ k \in Nat /\ k <= a /\ l \in Seq(Item)
    BY DEF Log
  <1>2. m \in Seq(Item) /\ Len(m) = a - k /\ \A i \in 1 .. a - k : m[i] = l[k + i]
    BY <1>1
  <1> HIDE DEF m
  <1>3. \A i \in k + 1 .. a : i - k \in 0 + 1 .. Len(m) /\ m[i - k] = l[i]
    <2> TAKE i \in k + 1 .. a
    <2>1. i - k \in 0 + 1 .. Len(m) /\ i - k \in 1 .. a - k /\ k + (i - k) = i
      BY <1>1, <1>2
    <2> QED
      BY <1>2, <2>1
  <1>4. \A i \in 0 + 1 .. Len(m) : k + i \in k + 1 .. a /\ m[i] = l[k + i]
    <2> TAKE i \in 0 + 1 .. Len(m)
    <2>1. k + i \in k + 1 .. a /\ i \in 1 .. a - k
      BY <1>1, <1>2
    <2> QED
      BY <1>2, <2>1
  <1>5. Covers(m, 0, o, S)
    <2>1. {m[i].node : i \in 0 + 1 .. Len(m)} = S
      <3>1. \A n \in S : \E i \in k + 1 .. a : l[i].node = n
        BY DEF Covers
      <3>2. \A i \in k + 1 .. a : l[i].node \in S
        BY DEF Covers
      <3>3. \A n \in S : \E i \in 0 + 1 .. Len(m) : m[i].node = n
        BY <1>3, <3>1
      <3>4. \A i \in 0 + 1 .. Len(m) : m[i].node \in S
        BY <1>4, <3>2
      <3> QED
        BY <3>3, <3>4
    <2>2. \A i \in 0 + 1 .. Len(m) : m[i].ord = o
      BY <1>4 DEF Covers
    <2>3. ASSUME NEW i \in 0 + 1 .. Len(m), NEW j \in 0 + 1 .. Len(m), i < j
          PROVE  m[i].node # m[j].node
      <3>1. k + i \in k + 1 .. a /\ k + j \in k + 1 .. a /\ m[i] = l[k + i] /\ m[j] = l[k + j]
        BY <1>4
      <3>2. k + i < k + j
        BY <1>1, <1>2, <2>3
      <3> QED
        BY <3>1, <3>2 DEF Covers
    <2> QED
      BY <2>1, <2>2, <2>3 DEF Covers
  <1>6. Told(m, 0, o, v, w, E)
    <2>1. ASSUME NEW i \in 0 + 1 .. Len(m)
          PROVE  <<o, m[i].node, IF i = 0 + 1 THEN v ELSE m[i - 1].out, m[i].out>> \in E
      <3>1. k + i \in k + 1 .. a /\ m[i] = l[k + i]
        BY <1>4
      <3>2. <<o, l[k + i].node, IF k + i = k + 1 THEN v ELSE l[(k + i) - 1].out, l[k + i].out>> \in E
        BY <3>1 DEF Told
      <3>3. CASE i = 0 + 1
        <4>1. k + i = k + 1
          BY <1>1, <3>3
        <4> QED
          BY <3>1, <3>2, <3>3, <4>1
      <3>4. CASE i # 0 + 1
        <4>1. i - 1 \in 0 + 1 .. Len(m) /\ k + i # k + 1 /\ k + (i - 1) = (k + i) - 1
          BY <1>1, <1>2, <3>4
        <4>2. m[i - 1] = l[(k + i) - 1]
          BY <1>4, <4>1
        <4> QED
          BY <3>1, <3>2, <3>4, <4>1, <4>2
      <3> QED
        BY <3>3, <3>4
    <2>2. w = IF 0 = Len(m) THEN v ELSE m[Len(m)].out
      <3>1. CASE k = a
        BY <1>1, <1>2, <3>1 DEF Told
      <3>2. CASE k # a
        <4>1. Len(m) \in 0 + 1 .. Len(m) /\ k + Len(m) = a /\ Len(m) # 0
          BY <1>1, <1>2, <3>2
        <4>2. m[Len(m)] = l[a]
          BY <1>4, <4>1
        <4> QED
          BY <3>2, <4>1, <4>2 DEF Told
      <3> QED
        BY <3>1, <3>2
    <2> QED
      BY <2>1, <2>2 DEF Told
  <1> QED
    BY <1>2, <1>5, <1>6 DEF m, Log

-----------------------------------------------------------------------------
(* Logs of whole runs. *)

Below(l, o) == \A i \in DOMAIN l : l[i].ord < o

(* A log that may be taken up: whole runs, each before the ordinal o. *)
Good(l, o) == InOrder(l) /\ Whole(l) /\ Below(l, o)

(* The log continues b, and behind b stands part of the run of ordinal o. *)
Continues(l, b) ==
  /\ Len(b) <= Len(l)
  /\ \A i \in 1 .. Len(b) : l[i] = b[i]

LEMMA ContinuedInOrder ==
  ASSUME NEW l \in Log, NEW b \in Log, NEW o \in Ordinal, NEW S,
         Continues(l, b), InOrder(b), Below(b, o), Covers(l, Len(b), o, S)
  PROVE  InOrder(l) /\ Below(l, o + 1)
  <1> DEFINE a == Len(b)
  <1>1. /\ a \in Nat /\ Len(l) \in Nat /\ DOMAIN l = 1 .. Len(l) /\ DOMAIN b = 1 .. a
        /\ a <= Len(l) /\ o \in Nat
    BY OrdinalIs DEF Log, Continues
  <1>2. \A i \in 1 .. a : l[i] = b[i] /\ b[i].ord < o /\ b[i].ord \in Nat
    <2>1. \A i \in 1 .. a : b[i] \in Item
      BY <1>1 DEF Log
    <2> QED
      BY <1>1, <2>1, OrdinalIs DEF Continues, Below, Item
  <1>3. \A i \in a + 1 .. Len(l) : l[i].ord = o
    BY DEF Covers
  <1>4. \A i \in 1 .. Len(l) : i \in 1 .. a \/ i \in a + 1 .. Len(l)
    BY <1>1
  <1>5. Below(l, o + 1)
    <2> SUFFICES ASSUME NEW i \in 1 .. Len(l) PROVE l[i].ord < o + 1
      BY <1>1 DEF Below
    <2>1. CASE i \in 1 .. a
      BY <1>1, <1>2, <2>1
    <2>2. CASE i \in a + 1 .. Len(l)
      BY <1>1, <1>3, <2>2
    <2> QED
      BY <1>4, <2>1, <2>2
  <1>6. InOrder(l)
    <2> SUFFICES ASSUME NEW i \in 1 .. Len(l), NEW j \in 1 .. Len(l), i < j
                 PROVE  l[i].ord <= l[j].ord /\ (l[i].ord = l[j].ord => l[i].node # l[j].node)
      BY <1>1 DEF InOrder
    <2>1. CASE i \in 1 .. a /\ j \in 1 .. a
      BY <1>1, <1>2, <2>1 DEF InOrder
    <2>2. CASE i \in 1 .. a /\ j \in a + 1 .. Len(l)
      <3>1. l[i].ord < o /\ l[i].ord \in Nat /\ l[j].ord = o
        BY <1>2, <1>3, <2>2
      <3> QED
        BY <1>1, <3>1
    <2>3. CASE i \in a + 1 .. Len(l)
      <3>1. j \in a + 1 .. Len(l)
        BY <1>1, <2>3
      <3>2. l[i].ord = o /\ l[j].ord = o /\ l[i].node # l[j].node
        BY <2>3, <3>1 DEF Covers
      <3> QED
        BY <1>1, <3>2
    <2> QED
      BY <1>4, <2>1, <2>2, <2>3
  <1> QED
    BY <1>5, <1>6

LEMMA ContinuedWhole ==
  ASSUME NEW l \in Log, NEW b \in Log, NEW o \in Ordinal,
         Continues(l, b), Good(b, o), Covers(l, Len(b), o, Leaf)
  PROVE  Good(l, o + 1)
  <1> DEFINE a == Len(b)
             Kind(m, i) == {m[j].node : j \in {k \in DOMAIN m : m[k].ord = m[i].ord}}
  <1>1. /\ a \in Nat /\ Len(l) \in Nat /\ DOMAIN l = 1 .. Len(l) /\ DOMAIN b = 1 .. a
        /\ a <= Len(l) /\ o \in Nat
    BY OrdinalIs DEF Log, Continues
  <1>2. \A i \in 1 .. a : l[i] = b[i] /\ b[i].ord # o
    <2>1. \A i \in 1 .. a : b[i] \in Item
      BY <1>1 DEF Log
    <2> QED
      BY <1>1, <2>1, OrdinalIs DEF Continues, Good, Below, Item
  <1>3. \A i \in a + 1 .. Len(l) : l[i].ord = o
    BY DEF Covers
  <1>4. /\ \A i \in 1 .. Len(l) : i \in 1 .. a \/ i \in a + 1 .. Len(l)
        /\ \A i \in 1 .. a : i \in 1 .. Len(l)
        /\ \A i \in a + 1 .. Len(l) : i \in 1 .. Len(l)
    BY <1>1
  <1>5. ASSUME NEW i \in 1 .. Len(l) PROVE Kind(l, i) = Leaf
    <2>1. CASE i \in 1 .. a
      <3>1. {k \in DOMAIN l : l[k].ord = l[i].ord} = {k \in DOMAIN b : b[k].ord = b[i].ord}
        BY <1>1, <1>2, <1>3, <1>4, <2>1
      <3>2. Kind(l, i) = Kind(b, i)
        BY <1>1, <1>2, <3>1
      <3>3. Kind(b, i) = Leaf
        BY <1>1, <2>1 DEF Good, Whole
      <3> QED
        BY <3>2, <3>3
    <2>2. CASE i \in a + 1 .. Len(l)
      <3>1. {k \in DOMAIN l : l[k].ord = l[i].ord} = a + 1 .. Len(l)
        BY <1>1, <1>2, <1>3, <1>4, <2>2
      <3>2. Kind(l, i) = {l[j].node : j \in a + 1 .. Len(l)}
        BY <3>1
      <3> QED
        BY <3>2 DEF Covers
    <2> QED
      BY <1>4, <2>1, <2>2
  <1>6. Whole(l)
    BY <1>1, <1>5 DEF Whole
  <1>7. InOrder(l) /\ Below(l, o + 1)
    BY ContinuedInOrder DEF Good
  <1> QED
    BY <1>6, <1>7 DEF Good

-----------------------------------------------------------------------------
(* What the calls in flight, the rows and the item log hold of the run. *)

(* The calls in flight are those of the steps the run is inside. *)
Calls ==
  \A n \in Node : op[n].phase # "idle" =>
    \/ pc \in {"recording", "dropping"} /\ n = cur /\ op[n].phase # "running"
    \/ /\ op[n].phase = "running" /\ op[n].path = PathOf(n) /\ op[n].hash = inp[n]
       /\ (cur \in Beneath[n] /\ pc \in Running) \/ (n = cur /\ pc \in {"body", "record"})

(* A row holds the items of its step, and tells its story until the run that
   wrote it is over: C are the runs that are, E the bodies that ran. *)
GoodRow(r, C, E) ==
  /\ r.hash # None
  /\ Covers(r.val.items, 0, r.path.ord, Leaves(r.path.node))
  /\ (\A o \in C : o < r.path.ord) =>
       Told(r.val.items, 0, r.path.ord, r.hash, r.val.out, E)

RowsInv ==
  /\ \A r \in rows \cup replayable : GoodRow(r, closed, executed)
  /\ \A n \in Node : op[n].phase = "appending" => GoodRow(op[n].row, closed, executed)

(* The log since its length was k: an item of each leaf in S, from v to w. *)
Section(k, v, w, S) == Tells(log, k, runOrd, v, w, S, executed)

(* The answer the run stands at, and the leaves it has behind it. *)
Now == IF pc \in Settled THEN out[cur] ELSE inp[cur]
Done == Before(cur) \cup (IF pc \in Settled THEN Leaves(cur) ELSE {})

(* Behind the baseline stands what the run has done, and behind each mark what
   its step has done. *)
StoryInv ==
  pc \in Running =>
    /\ Continues(log, baseline.log)
    /\ Section(Len(baseline.log), inp[Root], Now, Done)
    /\ \A a \in Node : cur \in Beneath[a] \/ (a = cur /\ pc # "dispatch") =>
         Section(mark[a], inp[a], Now, Done \ Before(a))

(* What may be taken up holds whole runs. *)
LogInv ==
  /\ snap # None => Good(snap.log, snap.ordinal)
  /\ captured # None => Good(captured.log, captured.ordinal)
  /\ baseline # None => Good(baseline.log, baseline.ordinal)
  /\ baseline = None => Good(log, ordinal)
  /\ InOrder(log)

RunStory == BaseInv /\ Calls /\ RowsInv /\ StoryInv /\ LogInv

-----------------------------------------------------------------------------
(* The calls in flight. *)

LEMMA NoCalls ==
  ASSUME Calls, pc \notin Running, pc # "dropping"
  PROVE  \A n \in Node : op[n].phase = "idle"
  BY DEF Calls, Running

LEMMA CallsIdle ==
  ASSUME \A n \in Node : op'[n].phase = "idle"
  PROVE  Calls'
  BY DEF Calls

LEMMA ProceedCalls ==
  ASSUME BaseInv, Calls, pc \in {"dispatch", "checkpoint"}, NEW answer, NEW waiting,
         Proceed(cur, answer, waiting), op' = op, runOrd' = runOrd
  PROVE  Calls'
  <1>1. Ends(answer, waiting) \/ GoesOn(answer, waiting) \/ GoesUp(answer, waiting)
    BY ProceedIs DEF BaseInv, RunInv, RunTypes
  <1>2. ASSUME NEW n \in Node, op[n].phase # "idle"
        PROVE  /\ cur \in Beneath[n] /\ op[n].phase = "running" /\ op[n].path = PathOf(n)
               /\ op[n].hash = inp[n]
    BY <1>2 DEF Calls
  <1>3. CASE Ends(answer, waiting)
    <2>1. \A n \in Node : op'[n].phase = "idle"
      BY <1>2, <1>3, RootIsOutermost DEF Ends
    <2> QED
      BY <2>1, CallsIdle
  <1>4. CASE GoesOn(answer, waiting)
    <2>1. ASSUME NEW n \in Node, op[n].phase # "idle"
          PROVE  cur' \in Beneath[n] /\ pc' \in Running /\ inp'[n] = inp[n]
      <3>1. cur' \in Beneath[n] /\ pc' \in Running
        BY <1>2, <1>4, <2>1 DEF GoesOn, Running
      <3>2. n # cur'
        BY <3>1, TreeAssumption
      <3> QED
        BY <1>4, <3>1, <3>2 DEF GoesOn, BaseInv, RunInv, RunTypes
    <2> QED
      BY <1>2, <2>1 DEF Calls, PathOf
  <1>5. CASE GoesUp(answer, waiting)
    <2>1. ASSUME NEW n \in Node, op[n].phase # "idle"
          PROVE  (cur' \in Beneath[n] /\ pc' \in Running) \/ (n = cur' /\ pc' = "record")
      BY <1>2, <1>5, <2>1 DEF GoesUp, Running, Tree
    <2> QED
      BY <1>2, <1>5, <2>1 DEF Calls, PathOf, GoesUp
  <1> QED
    BY <1>1, <1>3, <1>4, <1>5

LEMMA RunCalls ==
  ASSUME BaseInv, Calls, Run
  PROVE  Calls'
  <1>1. /\ pc = "dispatch" /\ runOrd' = runOrd /\ cur \in Node
        /\ op'[cur] = [L!Idle EXCEPT !.phase = "running", !.path = PathOf(cur), !.hash = inp[cur]]
        /\ \A m \in Node \ {cur} : op'[m] = op[m]
    BY RunBase DEF Run, BaseInv, RunInv, RunTypes
  <1>2. op'[cur].phase = "running" /\ op'[cur].path = PathOf(cur) /\ op'[cur].hash = inp[cur]
    BY <1>1 DEF L!Idle
  <1>3. ASSUME NEW n \in Node, n # cur, op[n].phase # "idle"
        PROVE  /\ cur \in Beneath[n] /\ op[n].phase = "running" /\ op[n].path = PathOf(n)
               /\ op[n].hash = inp[n]
    BY <1>1, <1>3 DEF Calls
  <1>4. CASE cur \in Leaf
    <2>1. pc' = "body" /\ UNCHANGED <<cur, inp>>
      BY <1>4 DEF Run
    <2>2. ASSUME NEW n \in Node, op'[n].phase # "idle"
          PROVE  /\ op'[n].phase = "running" /\ op'[n].path = PathOf(n) /\ op'[n].hash = inp[n]
                 /\ (cur \in Beneath[n] \/ n = cur)
      <3>1. CASE n = cur
        BY <1>2, <3>1
      <3>2. CASE n # cur
        BY <1>1, <1>3, <2>2, <3>2
      <3> QED
        BY <3>1, <3>2
    <2> QED
      BY <1>1, <2>1, <2>2 DEF Calls, PathOf, Running
  <1>5. CASE cur \notin Leaf
    <2>1. cur' = FirstChild(cur) /\ inp' = [inp EXCEPT ![cur'] = inp[cur]] /\ pc' = pc
      BY <1>5 DEF Run, FirstChild
    <2>2. \A a \in Node : cur' \in Beneath[a] <=> cur \in Tree(a)
      BY <1>1, <1>5, <2>1, FirstChildIs
    <2>3. ASSUME NEW n \in Node, cur \in Tree(n)
          PROVE  cur' \in Beneath[n] /\ inp'[n] = inp[n]
      <3>1. cur' \in Beneath[n]
        BY <2>2, <2>3
      <3>2. n # cur'
        BY <3>1, TreeAssumption
      <3> QED
        BY <2>1, <3>1, <3>2 DEF BaseInv, RunInv, RunTypes
    <2>4. ASSUME NEW n \in Node, op'[n].phase # "idle"
          PROVE  /\ op'[n].phase = "running" /\ op'[n].path = PathOf(n) /\ op'[n].hash = inp'[n]
                 /\ cur' \in Beneath[n]
      <3>1. CASE n = cur
        BY <1>2, <2>3, <3>1 DEF Tree
      <3>2. CASE n # cur
        BY <1>1, <1>3, <2>3, <2>4, <3>2 DEF Tree
      <3> QED
        BY <3>1, <3>2
    <2> QED
      BY <1>1, <2>1, <2>4 DEF Calls, PathOf, Running
  <1> QED
    BY <1>4, <1>5

LEMMA AwaitedCalls ==
  ASSUME BaseInv, Calls, Recording \/ Dropping
  PROVE  Calls'
  <1>1. pc \in {"recording", "dropping"} /\ Awaited(cur) /\ UNCHANGED run /\ cur \in Node
    BY AwaitedBase DEF BaseInv, RunInv, RunTypes
  <1>2. /\ op'[cur].phase # "running"
        /\ \A m \in Node \ {cur} : op'[m] = op[m]
    BY <1>1, AwaitedTypes DEF BaseInv
  <1> QED
    BY <1>1, <1>2 DEF Calls, run, PathOf

LEMMA CallsStep == BaseInv /\ Calls /\ [Next]_vars => Calls'
  <1> SUFFICES ASSUME BaseInv, Calls, [Next]_vars PROVE Calls'
    OBVIOUS
  <1>1. ASSUME NEW v \in Value, Start(v) \/ Retry(v) PROVE Calls'
    <2>1. pc = "ready"
      BY <1>1 DEF Start, Retry, MayStart
    <2>2. op' = op
      BY <1>1, ReadTypes DEF Start, Retry, ledger, BaseInv
    <2>3. \A n \in Node : op'[n].phase = "idle"
      BY <2>1, <2>2, NoCalls DEF Running
    <2> QED
      BY <2>3, CallsIdle
  <1>2. CASE Replay
    <2>1. pc = "dispatch" /\ op' = op /\ runOrd' = runOrd
      BY <1>2 DEF Replay, ledger
    <2> QED
      BY <1>2, <2>1, ReplayBase, ProceedCalls
  <1>3. CASE Run
    BY <1>3, RunCalls
  <1>4. ASSUME NEW v \in Value, Answer(v) PROVE Calls'
    BY <1>4 DEF Answer, ledger, Calls, PathOf, Running
  <1>5. CASE Record
    <2>1. pc = "record" /\ pc' = "recording" /\ UNCHANGED <<cur, runOrd, inp>>
      BY <1>5 DEF Record
    <2>2. op'[cur].phase = "appending" /\ \A m \in Node \ {cur} : op'[m] = op[m]
      BY <1>5, RecordBase
    <2> QED
      BY <2>1, <2>2 DEF Calls, PathOf, Running
  <1>6. CASE Recording \/ Dropping
    BY <1>6, AwaitedCalls
  <1>7. CASE Checkpoint
    BY <1>7 DEF Checkpoint, ledger, Calls, PathOf, Running
  <1>8. CASE Capture
    BY <1>8 DEF Capture, ledger, run, Calls, PathOf
  <1>9. CASE SaveLands
    <2>1. CASE BeginSettles
      BY <2>1 DEF BeginSettles, run, Calls, PathOf
    <2>2. CASE StepSettles
      BY <2>2, ProceedCalls DEF StepSettles
    <2>3. CASE EndLands
      <3>1. pc = "ending"
        BY <1>9, <2>3, EndIsHead DEF SaveLands, EndLands, BaseInv
      <3>2. \A n \in Node : op[n].phase = "idle"
        BY <3>1, NoCalls DEF Running
      <3>3. op'[Root].phase = "pruning" /\ \A m \in Node \ {Root} : op'[m] = op[m]
        BY <2>3, DropTypes DEF EndLands, BaseInv
      <3>4. pc' = "dropping" /\ cur' = Root
        BY <2>3 DEF EndLands, Rest
      <3> QED
        BY <3>2, <3>3, <3>4 DEF Calls
    <2> QED
      BY <1>9, <2>1, <2>2, <2>3 DEF SaveLands
  <1>10. CASE SaveFails
    <2>1. CASE BeginSettles
      BY <2>1 DEF BeginSettles, run, Calls, PathOf
    <2>2. CASE StepSettles
      BY <2>2, ProceedCalls DEF StepSettles
    <2>3. CASE EndFails
      <3>1. pc = "ending" /\ op' = op
        BY <1>10, <2>3, EndIsHead DEF SaveFails, EndFails, BaseInv
      <3>2. \A n \in Node : op'[n].phase = "idle"
        BY <3>1, NoCalls DEF Running
      <3> QED
        BY <3>2, CallsIdle
    <2> QED
      BY <1>10, <2>1, <2>2, <2>3 DEF SaveFails
  <1>11. CASE Dropped
    <2>1. pc = "dropping" /\ op[Root].phase = "idle" /\ op' = op
      BY <1>11 DEF Dropped, ledger
    <2>2. cur = Root
      BY <2>1 DEF BaseInv, RunInv, Counts, Running
    <2>3. \A n \in Node : op'[n].phase = "idle"
      BY <2>1, <2>2 DEF Calls, Running
    <2> QED
      BY <2>3, CallsIdle
  <1>12. CASE StepFails \/ Crash
    <2>1. op' = [n \in Node |-> L!Idle]
      BY <1>12 DEF StepFails, Crash, L!Crash
    <2> QED
      BY <2>1, IdleTyped, CallsIdle
  <1>13. CASE Restore
    <2>1. pc = "down" /\ op' = op
      BY <1>13, ReadTypes DEF Restore, BaseInv
    <2>2. \A n \in Node : op'[n].phase = "idle"
      BY <2>1, NoCalls DEF Running
    <2> QED
      BY <2>2, CallsIdle
  <1>14. CASE UNCHANGED vars
    BY <1>14 DEF vars, ledger, run, Calls, PathOf
  <1> QED
    BY <1>1, <1>2, <1>3, <1>4, <1>5, <1>6, <1>7, <1>8, <1>9, <1>10, <1>11, <1>12, <1>13, <1>14
       DEF Next, RunStep

-----------------------------------------------------------------------------
(* The rows. *)

LEMMA GoodRowKept ==
  ASSUME NEW r, NEW C, NEW D, NEW E, NEW F, GoodRow(r, C, E), C \subseteq D,
         \A e \in E : (\A o \in D : o < e[1]) => e \in F
  PROVE  GoodRow(r, D, F)
  <1>1. ASSUME \A o \in D : o < r.path.ord
        PROVE  Told(r.val.items, 0, r.path.ord, r.hash, r.val.out, F)
    <2>1. Told(r.val.items, 0, r.path.ord, r.hash, r.val.out, E)
      BY <1>1 DEF GoodRow
    <2>2. \A e \in E : e[1] = r.path.ord => e \in F
      BY <1>1
    <2> QED
      BY <2>1, <2>2, StillTold
  <1> QED
    BY <1>1 DEF GoodRow

(* Rows only come from calls that write them. *)
LEMMA RowsKept ==
  ASSUME RowsInv, closed \subseteq closed',
         \A e \in executed : (\A o \in closed' : o < e[1]) => e \in executed',
         \A r \in rows' \cup replayable' :
           r \in rows \cup replayable \/ \E n \in Node : op[n].phase = "appending" /\ r = op[n].row,
         \A n \in Node : op'[n].phase = "appending" =>
           op[n].phase = "appending" /\ op'[n].row = op[n].row
  PROVE  RowsInv'
  <1>1. \A r : GoodRow(r, closed, executed) => GoodRow(r, closed', executed')
    BY GoodRowKept
  <1>2. \A r \in rows' \cup replayable' : GoodRow(r, closed, executed)
    BY DEF RowsInv
  <1>3. \A n \in Node : op'[n].phase = "appending" => GoodRow(op'[n].row, closed, executed)
    BY DEF RowsInv
  <1> QED
    BY <1>1, <1>2, <1>3 DEF RowsInv

LEMMA SameRows ==
  ASSUME RowsInv, UNCHANGED <<rows, op, ghost>>, replayable' \subseteq rows \cup replayable
  PROVE  RowsInv'
  <1>1. closed' = closed /\ executed' = executed
    BY DEF ghost
  <1> QED
    BY <1>1, RowsKept

(* What a step records tells the story of the step. *)
LEMMA RecordRows ==
  ASSUME BaseInv, Calls, RowsInv, StoryInv, Record
  PROVE  RowsInv'
  <1>1. /\ pc = "record" /\ UNCHANGED ghost /\ cur \in Node /\ pc \in Running /\ pc \in Settled
        /\ runOrd \in Ordinal /\ log \in Log
    BY DEF Record, BaseInv, RunInv, RunTypes, Running, Settled
  <1> DEFINE v == [out |-> out[cur], items |-> ItemsOf(cur)]
             row == NewRow(cur, v)
  <1>2. /\ UNCHANGED <<rows, replayable>> /\ op[cur].phase = "running"
        /\ op'[cur].phase = "appending" /\ op'[cur].row = row
        /\ \A m \in Node \ {cur} : op'[m] = op[m]
    BY RecordBase
  <1>3. op[cur].path = PathOf(cur) /\ op[cur].hash = inp[cur]
    BY <1>1, <1>2 DEF Calls
  <1>4. /\ row.path = PathOf(cur) /\ row.hash = inp[cur]
        /\ row.val.out = out[cur] /\ row.val.items = ItemsOf(cur)
    BY <1>3 DEF NewRow
  <1>5. PathOf(cur).ord = runOrd /\ PathOf(cur).node = cur /\ inp[cur] # None
    BY <1>1, ReachedIs, WorkflowAssumption DEF BaseInv
  <1>6. Section(mark[cur], inp[cur], out[cur], Leaves(cur))
    <2>1. Section(mark[cur], inp[cur], Now, Done \ Before(cur))
      BY <1>1 DEF StoryInv
    <2>2. Now = out[cur] /\ Done \ Before(cur) = Leaves(cur)
      <3>1. Before(cur) \cap Leaves(cur) = {}
        BY <1>1, BeforeIsApart DEF Tree
      <3> QED
        BY <1>1, <3>1 DEF Now, Done
    <2> QED
      BY <2>1, <2>2
  <1>7. /\ Covers(ItemsOf(cur), 0, runOrd, Leaves(cur))
        /\ Told(ItemsOf(cur), 0, runOrd, inp[cur], out[cur], executed)
    BY <1>1, <1>6, CutTold DEF Section, Tells, ItemsOf
  <1>8. GoodRow(row, closed, executed)
    BY <1>4, <1>5, <1>7 DEF GoodRow
  <1> HIDE DEF row
  <1>9. closed' = closed /\ executed' = executed
    BY <1>1 DEF ghost
  <1>10. \A n \in Node : op'[n].phase = "appending" => GoodRow(op'[n].row, closed, executed)
    <2> TAKE n \in Node
    <2>1. CASE n = cur
      BY <1>2, <1>8, <2>1
    <2>2. CASE n # cur
      BY <1>2, <2>2 DEF RowsInv
    <2> QED
      BY <2>1, <2>2
  <1> QED
    BY <1>2, <1>9, <1>10 DEF RowsInv

LEMMA RowsStep ==
  ASSUME BaseInv, Calls, RowsInv, StoryInv, [Next]_vars
  PROVE  RowsInv'
  <1>1. ASSUME NEW v \in Value, Start(v) PROVE RowsInv'
    BY <1>1, SameRows DEF Start, ledger
  <1>2. ASSUME NEW v \in Value, Retry(v) PROVE RowsInv'
    BY <1>2, SameRows, ReadTypes DEF Retry, BaseInv
  <1>3. CASE Replay
    BY <1>3, SameRows DEF Replay, ledger
  <1>4. CASE Run
    <2>1. /\ rows' = rows /\ replayable' \subseteq replayable /\ UNCHANGED ghost /\ cur \in Node
          /\ op'[cur] = [L!Idle EXCEPT !.phase = "running", !.path = PathOf(cur), !.hash = inp[cur]]
          /\ \A m \in Node \ {cur} : op'[m] = op[m]
      BY <1>4, RunBase DEF Run, BaseInv, RunInv, RunTypes
    <2>2. op'[cur].phase = "running"
      BY <2>1 DEF L!Idle
    <2>3. closed' = closed /\ executed' = executed
      BY <2>1 DEF ghost
    <2>4. \A n \in Node : op'[n].phase = "appending" => op'[n] = op[n]
      BY <2>1, <2>2
    <2> QED
      BY <2>1, <2>3, <2>4, RowsKept
  <1>5. ASSUME NEW v \in Value, Answer(v) PROVE RowsInv'
    <2>1. /\ executed' = executed \cup {<<runOrd, cur, inp[cur], v>>} /\ closed' = closed
          /\ UNCHANGED <<rows, replayable, op>>
      BY <1>5 DEF Answer, ledger
    <2> QED
      BY <2>1, RowsKept
  <1>6. CASE Record
    BY <1>6, RecordRows
  <1>7. CASE Recording \/ Dropping
    <2>1. Awaited(cur) /\ UNCHANGED ghost /\ cur \in Node
      BY <1>7, AwaitedBase DEF BaseInv, RunInv, RunTypes
    <2>2. /\ replayable' \subseteq replayable
          /\ \A r \in rows' : r \in rows \/ (op[cur].phase = "appending" /\ r = op[cur].row)
          /\ op'[cur].phase # "appending"
          /\ \A m \in Node \ {cur} : op'[m] = op[m]
      BY <2>1, AwaitedTypes DEF BaseInv
    <2>3. closed' = closed /\ executed' = executed
      BY <2>1 DEF ghost
    <2>4. \A n \in Node : op'[n].phase = "appending" => op'[n] = op[n]
      BY <2>2
    <2> QED
      BY <2>1, <2>2, <2>3, <2>4, RowsKept
  <1>8. CASE Checkpoint \/ Capture \/ Dropped
    BY <1>8, SameRows DEF Checkpoint, Capture, Dropped, ledger
  <1>9. CASE BeginSettles \/ StepSettles \/ EndFails
    BY <1>9, SameRows DEF BeginSettles, StepSettles, EndFails
  <1>10. CASE EndLands
    <2>1. /\ closed' = closed \cup {runOrd} /\ executed' = {e \in executed : runOrd < e[1]}
          /\ L!DropPaths(Root)
      BY <1>10 DEF EndLands
    <2>2. /\ UNCHANGED <<rows, replayable>> /\ op'[Root].phase = "pruning"
          /\ \A m \in Node \ {Root} : op'[m] = op[m]
      BY <2>1, DropTypes DEF BaseInv
    <2>3. \A e \in executed : (\A o \in closed' : o < e[1]) => e \in executed'
      BY <2>1
    <2>4. \A n \in Node : op'[n].phase = "appending" => op'[n] = op[n]
      BY <2>2
    <2> QED
      BY <2>1, <2>2, <2>3, <2>4, RowsKept
  <1>11. CASE StepFails
    <2>1. op' = [n \in Node |-> L!Idle] /\ UNCHANGED <<rows, replayable, ghost>>
      BY <1>11 DEF StepFails
    <2>2. \A n \in Node : op'[n].phase = "idle"
      BY <2>1, IdleTyped
    <2> QED
      BY <2>1, <2>2, RowsKept DEF ghost
  <1>12. CASE Crash
    <2>1. op' = [n \in Node |-> L!Idle] /\ UNCHANGED <<rows, ghost>> /\ replayable' = {}
      BY <1>12 DEF Crash, L!Crash
    <2>2. \A n \in Node : op'[n].phase = "idle"
      BY <2>1, IdleTyped
    <2> QED
      BY <2>1, <2>2, RowsKept DEF ghost
  <1>13. CASE Restore
    BY <1>13, SameRows, ReadTypes DEF Restore, BaseInv
  <1>14. CASE UNCHANGED vars
    BY <1>14, SameRows DEF vars, ledger
  <1> QED
    BY <1>1, <1>2, <1>3, <1>4, <1>5, <1>6, <1>7, <1>8, <1>9, <1>10, <1>11, <1>12, <1>13, <1>14
       DEF Next, RunStep, SaveLands, SaveFails

-----------------------------------------------------------------------------
(* The story of the run. *)

LEMMA TellsBehind ==
  ASSUME NEW l \in Log, NEW it \in Log, NEW k, NEW o, NEW v, NEW w, NEW z, NEW S, NEW T, NEW E,
         Tells(l, k, o, v, w, S, E), Covers(it, 0, o, T), Told(it, 0, o, w, z, E), S \cap T = {}
  PROVE  Tells(l \o it, k, o, v, z, S \cup T, E)
  <1>1. k \in 0 .. Len(l) /\ Covers(l, k, o, S) /\ Told(l, k, o, v, w, E)
    BY DEF Tells
  <1>2. Covers(l \o it, k, o, S \cup T) /\ Told(l \o it, k, o, v, z, E)
    BY <1>1, CoversBehind, ToldBehind
  <1>3. k \in 0 .. Len(l \o it)
    <2>1. Len(l \o it) = Len(l) + Len(it) /\ Len(l) \in Nat /\ Len(it) \in Nat
      BY DEF Log
    <2> QED
      BY <1>1, <2>1
  <1> QED
    BY <1>2, <1>3 DEF Tells

LEMMA ContinuesBehind ==
  ASSUME NEW l \in Log, NEW it \in Log, NEW b \in Log, Continues(l, b)
  PROVE  Continues(l \o it, b)
  <1>1. Len(l \o it) = Len(l) + Len(it) /\ Len(l) \in Nat /\ Len(it) \in Nat /\ Len(b) \in Nat
    BY DEF Log
  <1>2. \A i \in 1 .. Len(l) : (l \o it)[i] = l[i]
    BY DEF Log
  <1> QED
    BY <1>1, <1>2 DEF Continues

(* The story up to and with the step that the run is at, on the log l. *)
SoFar(l, answer) ==
  /\ Continues(l, baseline.log)
  /\ Tells(l, Len(baseline.log), runOrd, inp[Root], answer, Before(cur) \cup Leaves(cur), executed)
  /\ \A a \in Node : cur \in Beneath[a] =>
       Tells(l, mark[a], runOrd, inp[a], answer, (Before(cur) \cup Leaves(cur)) \ Before(a), executed)

LEMMA ProceedStory ==
  ASSUME BaseInv, pc \in {"dispatch", "checkpoint"}, NEW answer, NEW waiting,
         Proceed(cur, answer, waiting), SoFar(log', answer), runOrd' = runOrd, executed' = executed,
         \A a \in Node : a # cur => mark'[a] = mark[a]
  PROVE  StoryInv'
  <1>1. Ends(answer, waiting) \/ GoesOn(answer, waiting) \/ GoesUp(answer, waiting)
    BY ProceedIs DEF BaseInv, RunInv, RunTypes
  <1>2. cur \in Node /\ Root \in Node /\ inp \in [Node -> Value \cup {None}]
        /\ out \in [Node -> Value \cup {None}]
    BY WorkflowAssumption DEF BaseInv, RunInv, RunTypes
  <1>3. ASSUME NEW a \in Node, cur \in Beneath[a]
        PROVE  /\ mark'[a] = mark[a]
               /\ Tells(log', mark[a], runOrd, inp[a], answer,
                        (Before(cur) \cup Leaves(cur)) \ Before(a), executed)
    <2>1. a # cur
      BY <1>2, <1>3, TreeAssumption
    <2>2. Tells(log', mark[a], runOrd, inp[a], answer,
                (Before(cur) \cup Leaves(cur)) \ Before(a), executed)
      BY <1>3 DEF SoFar
    <2> QED
      BY <2>1, <2>2
  <1>4. CASE Ends(answer, waiting)
    BY <1>4 DEF Ends, StoryInv, Running
  <1>5. CASE GoesOn(answer, waiting)
    <2>1. /\ baseline' = baseline /\ pc' = "dispatch" /\ cur' \in Node
          /\ inp' = [inp EXCEPT ![cur'] = answer]
          /\ cur' # Root /\ \A a \in Node : cur' \in Beneath[a] <=> cur \in Beneath[a]
      BY <1>5 DEF GoesOn
    <2>2. inp'[cur'] = answer /\ inp'[Root] = inp[Root]
      BY <1>2, <2>1
    <2>3. Now' = answer /\ Done' = Before(cur) \cup Leaves(cur)
      BY <1>5, <2>1, <2>2 DEF Now, Done, Settled, GoesOn, Before
    <2>4. ASSUME NEW a \in Node, cur' \in Beneath[a]
          PROVE  Tells(log', mark'[a], runOrd, inp'[a], answer, Done' \ Before(a), executed)
      <3>1. cur \in Beneath[a] /\ a # cur'
        BY <2>1, <2>4, TreeAssumption
      <3>2. inp'[a] = inp[a]
        BY <1>2, <2>1, <3>1
      <3> QED
        BY <1>3, <2>3, <3>1, <3>2
    <2>5. /\ Continues(log', baseline'.log)
          /\ Tells(log', Len(baseline'.log), runOrd, inp'[Root], answer, Done', executed)
      BY <2>1, <2>2, <2>3 DEF SoFar
    <2> QED
      BY <2>1, <2>3, <2>4, <2>5 DEF StoryInv, Section, Before
  <1>6. CASE GoesUp(answer, waiting)
    <2>1. /\ baseline' = baseline /\ pc' = "record" /\ cur' \in Node /\ inp' = inp
          /\ out' = [out EXCEPT ![cur] = answer, ![cur'] = answer]
          /\ \A a \in Node : cur \in Beneath[a] <=> cur' \in Tree(a)
      BY <1>6 DEF GoesUp
    <2>2. out'[cur'] = answer
      BY <1>2, <2>1
    <2>3. Now' = answer /\ Done' = Before(cur) \cup Leaves(cur)
      BY <1>6, <2>1, <2>2 DEF Now, Done, Settled, GoesUp, Before, Leaves
    <2>4. ASSUME NEW a \in Node, cur' \in Beneath[a] \/ a = cur'
          PROVE  Tells(log', mark'[a], runOrd, inp'[a], answer, Done' \ Before(a), executed)
      <3>1. cur \in Beneath[a]
        BY <2>1, <2>4 DEF Tree
      <3> QED
        BY <1>3, <2>1, <2>3, <3>1
    <2>5. /\ Continues(log', baseline'.log)
          /\ Tells(log', Len(baseline'.log), runOrd, inp'[Root], answer, Done', executed)
      BY <2>1, <2>3 DEF SoFar
    <2> QED
      BY <2>1, <2>3, <2>4, <2>5 DEF StoryInv, Section, Before
  <1> QED
    BY <1>1, <1>4, <1>5, <1>6

(* What a replay puts on the log is the story of its step. *)
LEMMA ReplaySoFar ==
  ASSUME BaseInv, RowsInv, StoryInv, pc = "dispatch", NEW r \in L!Answers(PathOf(cur), inp[cur])
  PROVE  SoFar(log \o r.val.items, r.val.out)
  <1>1. /\ pc \in Running /\ pc \notin Settled /\ cur \in Node /\ log \in Log /\ runOrd \in Nat
    BY OrdinalIs DEF Running, Settled, BaseInv, RunInv, RunTypes
  <1>2. /\ PathOf(cur) \in Path /\ PathOf(cur).ord = runOrd /\ PathOf(cur).node = cur
        /\ inp[cur] \in Value
    BY <1>1, ReachedIs DEF BaseInv
  <1>3. /\ r \in replayable /\ r.path = PathOf(cur) /\ (r.hash = None \/ r.hash = inp[cur])
        /\ r.val.items \in Log
    BY <1>2, AnswerIs DEF BaseInv
  <1>4. GoodRow(r, closed, executed)
    BY <1>3 DEF RowsInv
  <1>5. \A o \in closed : o < runOrd
    <2>1. TAKE o \in closed
    <2>2. /\ o \in Nat /\ snap # None /\ o < snap.ordinal /\ snap.ordinal <= Latest
          /\ Latest = runOrd
      BY <1>1, OrdinalIs DEF BaseInv, RunInv, Counts, Latest, Running
    <2>3. snap.ordinal \in Nat
      BY <2>2, BaselineFields, OrdinalIs DEF BaseInv, RunInv, RunTypes
    <2> QED
      BY <1>1, <2>2, <2>3
  <1> DEFINE items == r.val.items
             answer == r.val.out
  <1>6. /\ Covers(items, 0, runOrd, Leaves(cur))
        /\ Told(items, 0, runOrd, inp[cur], answer, executed)
    BY <1>2, <1>3, <1>4, <1>5 DEF GoodRow
  <1>7. Now = inp[cur] /\ Done = Before(cur)
    BY <1>1 DEF Now, Done
  <1>8. /\ Continues(log, baseline.log)
        /\ Tells(log, Len(baseline.log), runOrd, inp[Root], inp[cur], Before(cur), executed)
        /\ \A a \in Node : cur \in Beneath[a] =>
             Tells(log, mark[a], runOrd, inp[a], inp[cur], Before(cur) \ Before(a), executed)
    BY <1>1, <1>7 DEF StoryInv, Section
  <1>9. baseline.log \in Log
    BY <1>1, BaselineFields DEF BaseInv, RunInv, RunTypes, Counts
  <1>10. Before(cur) \cap Leaves(cur) = {}
    BY <1>1, BeforeIsApart DEF Tree
  <1> HIDE DEF items, answer
  <1>11. items \in Log
    BY <1>3 DEF items
  <1>12. /\ Continues(log \o items, baseline.log)
         /\ Tells(log \o items, Len(baseline.log), runOrd, inp[Root], answer,
                  Before(cur) \cup Leaves(cur), executed)
    BY <1>1, <1>6, <1>8, <1>9, <1>10, <1>11, ContinuesBehind, TellsBehind
  <1>13. ASSUME NEW a \in Node, cur \in Beneath[a]
         PROVE  Tells(log \o items, mark[a], runOrd, inp[a], answer,
                      (Before(cur) \cup Leaves(cur)) \ Before(a), executed)
    <2>1. Before(a) \cap Leaves(cur) = {}
      BY <1>13, BeforeIsApart DEF Tree
    <2>2. (Before(cur) \ Before(a)) \cap Leaves(cur) = {}
      BY <1>10
    <2>3. Tells(log \o items, mark[a], runOrd, inp[a], answer,
                (Before(cur) \ Before(a)) \cup Leaves(cur), executed)
      BY <1>1, <1>6, <1>8, <1>11, <1>13, <2>2, TellsBehind
    <2>4. (Before(cur) \ Before(a)) \cup Leaves(cur) = (Before(cur) \cup Leaves(cur)) \ Before(a)
      BY <2>1
    <2> QED
      BY <2>3, <2>4
  <1> QED
    BY <1>12, <1>13 DEF SoFar, items, answer

LEMMA SettledSoFar ==
  ASSUME BaseInv, StoryInv, pc = "checkpoint"
  PROVE  SoFar(log, out[cur])
  <1>1. Now = out[cur] /\ Done = Before(cur) \cup Leaves(cur) /\ pc \in Running /\ pc # "dispatch"
    BY DEF Now, Done, Settled, Running
  <1> QED
    BY <1>1 DEF SoFar, StoryInv, Section

LEMMA BeginStory ==
  ASSUME BaseInv, NEW v \in Value, NEW start \in Baseline, BeginRun(v, start)
  PROVE  StoryInv'
  <1>1. /\ log' = start.log /\ baseline' = start /\ runOrd' = start.ordinal /\ pc' = "dispatch"
        /\ cur' = Root /\ inp' = [inp EXCEPT ![Root] = v]
    BY DEF BeginRun
  <1>2. start.log \in Log /\ inp'[Root] = v
    BY <1>1, BaselineFields, WorkflowAssumption DEF BaseInv, RunInv, RunTypes
  <1>3. Continues(log', baseline'.log)
    <2>1. Len(start.log) \in Nat
      BY <1>2 DEF Log
    <2> QED
      BY <1>1, <2>1 DEF Continues
  <1>4. Now' = v /\ Done' = {}
    BY <1>1, <1>2, BeforeRoot DEF Now, Done, Settled, Before
  <1>5. Tells(log', Len(baseline'.log), runOrd', inp'[Root], Now', Done', executed')
    BY <1>1, <1>2, <1>4, NothingTold
  <1>6. \A a \in Node : ~(cur' \in Beneath[a])
    BY <1>1, RootIsOutermost
  <1> QED
    BY <1>1, <1>3, <1>5, <1>6 DEF StoryInv, Section, Before

LEMMA RunStoryInv ==
  ASSUME BaseInv, StoryInv, Run
  PROVE  StoryInv'
  <1>1. /\ pc = "dispatch" /\ mark' = [mark EXCEPT ![cur] = Len(log)]
        /\ UNCHANGED <<log, baseline, runOrd, executed, out>>
    BY DEF Run, ctx, ghost
  <1>2. /\ cur \in Node /\ Root \in Node /\ log \in Log /\ inp \in [Node -> Value \cup {None}]
        /\ mark'[cur] = Len(log) /\ \A a \in Node : a # cur => mark'[a] = mark[a]
    BY <1>1, WorkflowAssumption DEF BaseInv, RunInv, RunTypes
  <1>3. /\ Continues(log, baseline.log)
        /\ Tells(log, Len(baseline.log), runOrd, inp[Root], inp[cur], Before(cur), executed)
        /\ \A a \in Node : cur \in Beneath[a] =>
             Tells(log, mark[a], runOrd, inp[a], inp[cur], Before(cur) \ Before(a), executed)
    <2>1. Now = inp[cur] /\ Done = Before(cur) /\ pc \in Running
      BY <1>1 DEF Now, Done, Running, Settled
    <2> QED
      BY <2>1 DEF StoryInv, Section
  <1>4. \A a \in Node : cur \in Tree(a) =>
          Tells(log, mark'[a], runOrd, inp[a], inp[cur], Before(cur) \ Before(a), executed)
    <2> SUFFICES ASSUME NEW a \in Node, cur \in Tree(a)
                 PROVE  Tells(log, mark'[a], runOrd, inp[a], inp[cur], Before(cur) \ Before(a), executed)
      OBVIOUS
    <2>1. CASE a = cur
      <3>1. Before(cur) \ Before(a) = {}
        BY <2>1
      <3> QED
        BY <1>2, <2>1, <3>1, NothingTold
    <2>2. CASE a # cur
      BY <1>2, <1>3, <2>2 DEF Tree
    <2> QED
      BY <2>1, <2>2
  <1>5. CASE cur \in Leaf
    <2>1. pc' = "body" /\ UNCHANGED <<cur, inp>>
      BY <1>5 DEF Run
    <2>2. Now' = inp[cur] /\ Done' = Before(cur)
      BY <2>1 DEF Now, Done, Settled, Before
    <2>3. \A a \in Node : cur' \in Beneath[a] \/ a = cur' => cur \in Tree(a)
      BY <2>1 DEF Tree
    <2> QED
      BY <1>1, <1>3, <1>4, <2>1, <2>2, <2>3 DEF StoryInv, Section, Before
  <1>6. CASE cur \notin Leaf
    <2>1. cur' = FirstChild(cur) /\ inp' = [inp EXCEPT ![cur'] = inp[cur]] /\ pc' = pc
      BY <1>6 DEF Run, FirstChild
    <2>2. /\ cur' \in Node /\ cur' # Root /\ Before(cur') = Before(cur)
          /\ \A a \in Node : cur' \in Beneath[a] <=> cur \in Tree(a)
      BY <1>2, <1>6, <2>1, FirstChildIs
    <2>3. inp'[cur'] = inp[cur] /\ inp'[Root] = inp[Root]
      BY <1>2, <2>1, <2>2
    <2>4. Now' = inp[cur] /\ Done' = Before(cur)
      BY <1>1, <2>1, <2>2, <2>3 DEF Now, Done, Settled, Before
    <2>5. ASSUME NEW a \in Node, cur' \in Beneath[a]
          PROVE  Tells(log, mark'[a], runOrd, inp'[a], Now', Done' \ Before(a), executed)
      <3>1. a # cur' /\ cur \in Tree(a)
        BY <2>2, <2>5, TreeAssumption
      <3>2. inp'[a] = inp[a]
        BY <1>2, <2>1, <3>1
      <3> QED
        BY <1>4, <2>4, <3>1, <3>2
    <2>6. Tells(log, Len(baseline.log), runOrd, inp'[Root], Now', Done', executed)
      BY <1>3, <2>3, <2>4
    <2> QED
      BY <1>1, <1>3, <2>1, <2>5, <2>6 DEF StoryInv, Section, Before
  <1> QED
    BY <1>5, <1>6

LEMMA AnswerStory ==
  ASSUME BaseInv, StoryInv, NEW v \in Value, Answer(v)
  PROVE  StoryInv'
  <1> DEFINE item == [ord |-> runOrd, node |-> cur, out |-> v]
             it == <<item>>
             told == <<runOrd, cur, inp[cur], v>>
  <1>1. /\ pc = "body" /\ pc' = "record" /\ log' = Append(log, item)
        /\ out' = [out EXCEPT ![cur] = v] /\ executed' = executed \cup {told}
        /\ UNCHANGED <<baseline, cur, runOrd, inp, mark>>
    BY DEF Answer
  <1>2. cur \in Leaf /\ cur \in Node /\ log \in Log /\ runOrd \in Ordinal
        /\ out \in [Node -> Value \cup {None}] /\ Leaves(cur) = {cur}
    BY <1>1, LeavesTyped DEF BaseInv, RunInv, RunTypes, Values
  <1>3. item \in Item
    BY <1>2 DEF Item
  <1>4. /\ Covers(it, 0, runOrd, {cur}) /\ Told(it, 0, runOrd, inp[cur], v, executed')
    BY <1>1, OneTold
  <1> HIDE DEF item, told
  <1>5. it \in Log /\ log' = log \o it
    BY <1>1, <1>2, <1>3 DEF Log
  <1> HIDE DEF it
  <1>6. /\ Continues(log, baseline.log)
        /\ Tells(log, Len(baseline.log), runOrd, inp[Root], inp[cur], Before(cur), executed)
        /\ \A a \in Node : cur \in Tree(a) =>
             Tells(log, mark[a], runOrd, inp[a], inp[cur], Before(cur) \ Before(a), executed)
    <2>1. Now = inp[cur] /\ Done = Before(cur) /\ pc \in Running /\ pc # "dispatch"
      BY <1>1 DEF Now, Done, Running, Settled
    <2> QED
      BY <2>1 DEF StoryInv, Section, Tree
  <1>7. ASSUME NEW k, NEW w, NEW S,
               Tells(log, k, runOrd, w, inp[cur], S, executed), S \cap Leaves(cur) = {}
        PROVE  Tells(log', k, runOrd, w, v, S \cup Leaves(cur), executed')
    <2>1. Tells(log, k, runOrd, w, inp[cur], S, executed')
      BY <1>1, <1>7, StillTold DEF Tells
    <2> QED
      BY <1>2, <1>4, <1>5, <1>7, <2>1, TellsBehind
  <1>8. Before(cur) \cap Leaves(cur) = {}
    BY <1>2, BeforeIsApart DEF Tree
  <1>9. baseline.log \in Log
    BY <1>1, BaselineFields DEF BaseInv, RunInv, RunTypes, Counts, Running
  <1>10. /\ Continues(log', baseline.log)
         /\ Tells(log', Len(baseline.log), runOrd, inp[Root], v, Before(cur) \cup Leaves(cur), executed')
    BY <1>2, <1>5, <1>6, <1>7, <1>8, <1>9, ContinuesBehind
  <1>11. ASSUME NEW a \in Node, cur \in Tree(a)
         PROVE  Tells(log', mark[a], runOrd, inp[a], v,
                      (Before(cur) \cup Leaves(cur)) \ Before(a), executed')
    <2>1. Before(a) \cap Leaves(cur) = {}
      BY <1>11, BeforeIsApart
    <2>2. (Before(cur) \ Before(a)) \cap Leaves(cur) = {}
      BY <1>8
    <2>3. (Before(cur) \ Before(a)) \cup Leaves(cur) = (Before(cur) \cup Leaves(cur)) \ Before(a)
      BY <2>1
    <2>4. Tells(log', mark[a], runOrd, inp[a], v, (Before(cur) \ Before(a)) \cup Leaves(cur), executed')
      BY <1>6, <1>7, <1>11, <2>2
    <2> QED
      BY <2>3, <2>4
  <1>12. Now' = v /\ Done' = Before(cur) \cup Leaves(cur)
    BY <1>1, <1>2 DEF Now, Done, Settled, Before, Leaves
  <1> QED
    BY <1>1, <1>10, <1>11, <1>12 DEF StoryInv, Section, Before, Tree

LEMMA SameStory ==
  ASSUME StoryInv, UNCHANGED <<log, baseline, cur, runOrd, inp, out, mark, executed>>,
         \/ pc' = pc
         \/ pc \in {"record", "recording"} /\ pc' \in Settled
         \/ pc' \notin Running
  PROVE  StoryInv'
  <1>1. CASE pc' \notin Running
    BY <1>1 DEF StoryInv, Running
  <1>2. CASE pc' = pc
    BY <1>2 DEF StoryInv, Section, Now, Done, Running, Settled, Before, Leaves
  <1>3. CASE pc \in {"record", "recording"} /\ pc' \in Settled
    BY <1>3 DEF StoryInv, Section, Now, Done, Running, Settled, Before, Leaves
  <1> QED
    BY <1>1, <1>2, <1>3

LEMMA StoryStep ==
  ASSUME BaseInv, RowsInv, StoryInv, [Next]_vars
  PROVE  StoryInv'
  <1>1. ASSUME NEW v \in Value, Start(v) PROVE StoryInv'
    <2>1. [log |-> log, ordinal |-> ordinal] \in Baseline
      BY BaselineFields DEF BaseInv, RunInv, RunTypes
    <2> QED
      BY <1>1, <2>1, BeginStory DEF Start
  <1>2. ASSUME NEW v \in Value, Retry(v) PROVE StoryInv'
    <2> DEFINE start == IF snap # None THEN snap ELSE baseline
    <2>1. start \in Baseline /\ BeginRun(v, start)
      BY <1>2 DEF Retry, MayStart, BaseInv, RunInv, RunTypes
    <2> HIDE DEF start
    <2> QED
      BY <2>1, BeginStory
  <1>3. CASE Replay
    <2>1. PICK r \in L!Answers(PathOf(cur), inp[cur]) :
            log' = log \o r.val.items /\ Proceed(cur, r.val.out, chain)
      BY <1>3, ReplayBase
    <2>2. /\ pc = "dispatch" /\ runOrd' = runOrd /\ executed' = executed
          /\ mark' = [mark EXCEPT ![cur] = Len(log)]
      BY <1>3 DEF Replay, ghost
    <2>3. SoFar(log', r.val.out)
      BY <2>1, <2>2, ReplaySoFar
    <2>4. \A a \in Node : a # cur => mark'[a] = mark[a]
      BY <2>2 DEF BaseInv, RunInv, RunTypes
    <2> QED
      BY <2>1, <2>2, <2>3, <2>4, ProceedStory
  <1>4. CASE Run
    BY <1>4, RunStoryInv
  <1>5. ASSUME NEW v \in Value, Answer(v) PROVE StoryInv'
    BY <1>5, AnswerStory
  <1>6. CASE Record
    BY <1>6, SameStory DEF Record, ctx, ghost, Settled
  <1>7. CASE Recording \/ Dropping
    BY <1>7, SameStory, AwaitedBase DEF ctx, run, ghost
  <1>8. CASE Checkpoint
    BY <1>8, SameStory DEF Checkpoint, ctx, ghost, Settled
  <1>9. CASE Capture
    BY <1>9, SameStory DEF Capture, ctx, run, ghost
  <1>10. CASE Dropped
    BY <1>10, SameStory DEF Dropped, ctx, ghost, Running
  <1>11. ASSUME SaveLands \/ SaveFails, BeginSettles PROVE StoryInv'
    BY <1>11, SameStory DEF SaveLands, SaveFails, BeginSettles, run, ghost
  <1>12. ASSUME SaveLands \/ SaveFails, StepSettles PROVE StoryInv'
    <2>1. /\ pc = "checkpoint" /\ Proceed(cur, out[cur], Tail(chain))
          /\ runOrd' = runOrd /\ executed' = executed /\ mark' = mark /\ log' = log
      BY <1>12 DEF SaveLands, SaveFails, StepSettles, ghost
    <2>2. SoFar(log', out[cur])
      BY <2>1, SettledSoFar
    <2> QED
      BY <2>1, <2>2, ProceedStory
  <1>13. CASE EndLands \/ EndFails \/ StepFails \/ Crash \/ Restore
    BY <1>13 DEF EndLands, EndFails, StepFails, Crash, Restore, StoryInv, Running
  <1>14. CASE UNCHANGED vars
    BY <1>14, SameStory DEF vars, ctx, run, ghost
  <1> QED
    BY <1>1, <1>2, <1>3, <1>4, <1>5, <1>6, <1>7, <1>8, <1>9, <1>10, <1>11, <1>12, <1>13, <1>14
       DEF Next, RunStep, SaveLands, SaveFails

-----------------------------------------------------------------------------
(* The logs. *)

(* A run whose story reached the last leaf leaves a log of whole runs. *)
LEMMA ProceedLog ==
  ASSUME BaseInv, LogInv, pc \in {"dispatch", "checkpoint"}, NEW answer, NEW waiting,
         Proceed(cur, answer, waiting), SoFar(log', answer), log' \in Log, ordinal' = ordinal
  PROVE  /\ InOrder(log')
         /\ baseline' = None => Good(log', ordinal')
         /\ baseline' \in {None, baseline}
  <1>1. Ends(answer, waiting) \/ GoesOn(answer, waiting) \/ GoesUp(answer, waiting)
    BY ProceedIs DEF BaseInv, RunInv, RunTypes
  <1>2. /\ baseline # None /\ baseline.log \in Log /\ Good(baseline.log, runOrd)
        /\ runOrd \in Ordinal /\ ordinal = runOrd + 1
    BY BaselineFields DEF BaseInv, RunInv, RunTypes, Counts, LogInv, Running
  <1>3. /\ Continues(log', baseline.log)
        /\ Covers(log', Len(baseline.log), runOrd, Before(cur) \cup Leaves(cur))
    BY DEF SoFar, Tells
  <1>4. InOrder(log')
    BY <1>2, <1>3, ContinuedInOrder DEF Good
  <1>5. CASE Ends(answer, waiting)
    <2>1. Before(cur) \cup Leaves(cur) = Leaf
      BY <1>5, BeforeRoot, LeavesTyped DEF Ends
    <2>2. Good(log', runOrd + 1)
      BY <1>2, <1>3, <2>1, ContinuedWhole
    <2> QED
      BY <1>2, <1>4, <1>5, <2>2 DEF Ends
  <1>6. CASE GoesOn(answer, waiting) \/ GoesUp(answer, waiting)
    BY <1>2, <1>4, <1>6 DEF GoesOn, GoesUp
  <1> QED
    BY <1>1, <1>5, <1>6

LEMMA EmptyGood == \A o : Good(<<>>, o)
  <1>1. DOMAIN <<>> = {}
    OBVIOUS
  <1> QED
    BY <1>1 DEF Good, InOrder, Whole, Below

LEMMA SameLog ==
  ASSUME LogInv, UNCHANGED <<log, baseline>>, snap' \in {snap, captured}, captured' \in {captured, None},
         baseline = None => ordinal' = ordinal
  PROVE  LogInv'
  <1>1. snap' # None => Good(snap'.log, snap'.ordinal)
    BY DEF LogInv
  <1>2. captured' # None => Good(captured'.log, captured'.ordinal)
    BY DEF LogInv
  <1> QED
    BY <1>1, <1>2 DEF LogInv

LEMMA LogStep ==
  ASSUME BaseInv, RowsInv, StoryInv, LogInv, [Next]_vars, BaseInv', StoryInv'
  PROVE  LogInv'
  <1>1. ASSUME NEW v \in Value, Start(v) PROVE LogInv'
    <2>1. /\ baseline = None /\ log' = log /\ UNCHANGED <<snap, captured>>
          /\ baseline' = [log |-> log, ordinal |-> ordinal]
      BY <1>1 DEF Start, BeginRun
    <2>2. baseline' # None /\ baseline'.log = log /\ baseline'.ordinal = ordinal
      BY <2>1, BaselineFields DEF BaseInv, RunInv, RunTypes
    <2> QED
      BY <2>1, <2>2 DEF LogInv
  <1>2. ASSUME NEW v \in Value, Retry(v) PROVE LogInv'
    <2>1. /\ baseline # None /\ UNCHANGED <<snap, captured>> /\ log' = baseline'.log
          /\ baseline' = IF snap # None THEN snap ELSE baseline
      BY <1>2 DEF Retry, BeginRun
    <2>2. baseline' # None /\ Good(baseline'.log, baseline'.ordinal)
      BY <2>1 DEF LogInv
    <2> QED
      BY <2>1, <2>2 DEF LogInv, Good
  <1>3. CASE Replay
    <2>1. PICK r \in L!Answers(PathOf(cur), inp[cur]) :
            log' = log \o r.val.items /\ Proceed(cur, r.val.out, chain)
      BY <1>3, ReplayBase
    <2>2. pc = "dispatch" /\ UNCHANGED <<snap, captured, ordinal>>
      BY <1>3 DEF Replay
    <2>3. SoFar(log', r.val.out) /\ log' \in Log
      BY <2>1, <2>2, ReplaySoFar DEF BaseInv, RunInv, RunTypes
    <2>4. InOrder(log') /\ (baseline' = None => Good(log', ordinal')) /\ baseline' \in {None, baseline}
      BY <2>1, <2>2, <2>3, ProceedLog
    <2> QED
      BY <2>2, <2>4 DEF LogInv
  <1>4. CASE Run \/ Record \/ Checkpoint \/ Dropped
    BY <1>4, SameLog DEF Run, Record, Checkpoint, Dropped, store, ctx
  <1>5. ASSUME NEW v \in Value, Answer(v) PROVE LogInv'
    <2>1. pc' \in Running /\ UNCHANGED <<snap, captured, baseline>>
      BY <1>5 DEF Answer, store, Running
    <2>2. /\ Continues(log', baseline'.log)
          /\ Covers(log', Len(baseline'.log), runOrd', Done')
      BY <2>1 DEF StoryInv, Section, Tells
    <2>3. /\ baseline' # None /\ baseline'.log \in Log /\ log' \in Log /\ runOrd' \in Ordinal
          /\ runOrd' = baseline'.ordinal
      BY <2>1, BaselineFields DEF BaseInv, RunInv, RunTypes, Counts
    <2>4. Good(baseline'.log, runOrd')
      BY <2>1, <2>3 DEF LogInv
    <2>5. InOrder(log')
      BY <2>2, <2>3, <2>4, ContinuedInOrder DEF Good
    <2> QED
      BY <2>1, <2>3, <2>5 DEF LogInv
  <1>6. CASE Recording \/ Dropping
    BY <1>6, SameLog, AwaitedBase DEF store, ctx
  <1>7. CASE Capture
    <2>1. captured' = RunBaseline /\ UNCHANGED <<snap, ctx>>
      BY <1>7 DEF Capture
    <2>2. Good(captured'.log, captured'.ordinal)
      BY <2>1 DEF LogInv, RunBaseline
    <2> QED
      BY <2>1, <2>2 DEF LogInv, ctx
  <1>8. ASSUME SaveLands \/ SaveFails PROVE LogInv'
    <2>1. /\ captured' = None /\ snap' \in {snap, captured} /\ UNCHANGED <<log, ordinal>>
          /\ BeginSettles \/ StepSettles \/ EndLands \/ EndFails
      BY <1>8 DEF SaveLands, SaveFails
    <2>2. CASE BeginSettles \/ EndLands \/ EndFails
      BY <2>1, <2>2, SameLog DEF BeginSettles, EndLands, EndFails
    <2>3. CASE StepSettles
      <3>1. pc = "checkpoint" /\ Proceed(cur, out[cur], Tail(chain))
        BY <2>3 DEF StepSettles
      <3>2. SoFar(log', out[cur]) /\ log' \in Log
        BY <2>1, <3>1, SettledSoFar DEF BaseInv, RunInv, RunTypes
      <3>3. InOrder(log') /\ (baseline' = None => Good(log', ordinal')) /\ baseline' \in {None, baseline}
        BY <2>1, <3>1, <3>2, ProceedLog
      <3>4. snap' # None => Good(snap'.log, snap'.ordinal)
        BY <2>1 DEF LogInv
      <3> QED
        BY <2>1, <3>3, <3>4 DEF LogInv
    <2> QED
      BY <2>1, <2>2, <2>3
  <1>9. CASE StepFails
    <2>1. pc = "body" /\ UNCHANGED <<store, log, baseline>>
      BY <1>9 DEF StepFails
    <2>2. baseline # None
      BY <2>1 DEF BaseInv, RunInv, Counts, Running
    <2> QED
      BY <2>1, <2>2, SameLog DEF store
  <1>10. CASE Crash
    <2>1. log' = <<>> /\ baseline' = None /\ captured' = None /\ snap' = snap
      BY <1>10 DEF Crash
    <2>2. Good(log', ordinal')
      BY <2>1, EmptyGood
    <2> QED
      BY <2>1, <2>2 DEF LogInv, Good
  <1>11. CASE Restore
    <2>1. /\ UNCHANGED <<snap, captured, baseline>> /\ pc = "down"
          /\ log' = IF snap = None THEN <<>> ELSE snap.log
          /\ ordinal' = IF snap = None THEN 0 ELSE snap.ordinal
      BY <1>11 DEF Restore, store
    <2>2. baseline = None
      BY <2>1 DEF BaseInv, RunInv, Counts
    <2>3. Good(log', ordinal')
      BY <2>1, EmptyGood DEF LogInv
    <2> QED
      BY <2>1, <2>2, <2>3 DEF LogInv, Good
  <1>12. CASE UNCHANGED vars
    BY <1>12, SameLog DEF vars, store, ctx
  <1> QED
    BY <1>1, <1>2, <1>3, <1>4, <1>5, <1>6, <1>7, <1>8, <1>9, <1>10, <1>11, <1>12
       DEF Next, RunStep

-----------------------------------------------------------------------------
(* What the runs tell. *)

LEMMA StoryInit == Init => RunStory
  <1> SUFFICES ASSUME Init PROVE RunStory
    OBVIOUS
  <1>1. BaseInv
    BY BaseInit
  <1>2. Calls
    BY IdleTyped DEF Init, L!Init, Calls
  <1>3. RowsInv
    BY IdleTyped DEF Init, L!Init, RowsInv
  <1>4. StoryInv
    BY DEF Init, StoryInv, Running
  <1>5. LogInv
    BY EmptyGood DEF Init, LogInv, Good
  <1> QED
    BY <1>1, <1>2, <1>3, <1>4, <1>5 DEF RunStory

LEMMA StoryKept == RunStory /\ [Next]_vars => RunStory'
  <1> SUFFICES ASSUME RunStory, [Next]_vars PROVE RunStory'
    OBVIOUS
  <1>1. BaseInv /\ Calls /\ RowsInv /\ StoryInv /\ LogInv
    BY DEF RunStory
  <1>2. BaseInv' /\ Calls' /\ RowsInv' /\ StoryInv'
    BY <1>1, BaseStep, CallsStep, RowsStep, StoryStep
  <1>3. LogInv'
    BY <1>1, <1>2, LogStep
  <1> QED
    BY <1>2, <1>3 DEF RunStory

(* The item log holds every turn once and in order, and what may be taken up
   holds whole runs, however runs fail, crash, replay and are repeated
   (23a-step-level-resume.md:124, 225). *)
THEOREM LogIsOnce == Spec => []LogHoldsEachStepOnce
  <1>1. RunStory => LogHoldsEachStepOnce
    BY DEF RunStory, LogInv, Good, LogHoldsEachStepOnce
  <1> QED
    BY <1>1, StoryInit, StoryKept, PTL DEF Spec, Safety

(* One item of each leaf is as many items as there are leaves. *)
LEMMA CoversCount ==
  ASSUME NEW l \in Log, NEW o, NEW S, Covers(l, 0, o, S)
  PROVE  Len(l) \in Nat /\ Len(l) = Cardinality(S) /\ (S # {} => Len(l) # 0)
  <1> DEFINE f == [i \in 1 .. Len(l) |-> l[i].node]
  <1>1. Len(l) \in Nat
    BY DEF Log
  <1>2. 0 + 1 .. Len(l) = 1 .. Len(l)
    OBVIOUS
  <1>3. \A i \in 1 .. Len(l) : l[i].node \in S
    BY <1>2 DEF Covers
  <1>4. \A n \in S : \E i \in 1 .. Len(l) : l[i].node = n
    BY <1>2 DEF Covers
  <1>5. \A i, j \in 1 .. Len(l) : i < j => l[i].node # l[j].node
    BY <1>2 DEF Covers
  <1>6. \A i, j \in 1 .. Len(l) : l[i].node = l[j].node => i = j
    <2> TAKE i, j \in 1 .. Len(l)
    <2>1. i < j \/ j < i \/ i = j
      BY <1>1
    <2> QED
      BY <1>5, <2>1
  <1>7. f \in [1 .. Len(l) -> S]
    BY <1>3
  <1>8. \A i, j \in 1 .. Len(l) : f[i] = f[j] => i = j
    BY <1>6
  <1>9. \A n \in S : \E i \in 1 .. Len(l) : f[i] = n
    BY <1>4
  <1> HIDE DEF f
  <1>10. f \in Bijection(1 .. Len(l), S)
    BY <1>7, <1>8, <1>9 DEF Bijection, Injection, Surjection, IsInjective
  <1>11. ExistsBijection(1 .. Len(l), S)
    BY <1>10 DEF ExistsBijection
  <1>12. Cardinality(S) = Len(l)
    BY <1>1, <1>11, FS_CountingElements
  <1>13. S # {} => Len(l) # 0
    BY <1>1, <1>4
  <1> QED
    BY <1>1, <1>12, <1>13

LEMMA PrefixIs ==
  ASSUME NEW l \in Log, NEW b \in Log, Continues(l, b)
  PROVE  SubSeq(l, 1, Len(b)) = b
  <1>1. l \in Seq(Item) /\ b \in Seq(Item) /\ Len(b) \in Nat /\ Len(l) \in Nat /\ Len(b) <= Len(l)
    BY DEF Log, Continues
  <1>2. SubSeq(l, 1, Len(b)) \in Seq(Item) /\ Len(SubSeq(l, 1, Len(b))) = Len(b)
    BY <1>1
  <1>3. \A i \in 1 .. Len(b) : SubSeq(l, 1, Len(b))[i] = l[i]
    BY <1>1
  <1>4. \A i \in 1 .. Len(b) : SubSeq(l, 1, Len(b))[i] = b[i]
    BY <1>3 DEF Continues
  <1> QED
    BY <1>1, <1>2, <1>4, SeqEqual

LEMMA CoherentEnd ==
  ASSUME RunStory, pc \in {"dispatch", "checkpoint"}, NEW answer, NEW waiting,
         Proceed(cur, answer, waiting), SoFar(log', answer), log' \in Log, pc' = "ending"
  PROVE  FinishesCoherently
  <1> DEFINE start == Len(baseline.log)
             story == SubSeq(log', start + 1, Len(log'))
  <1>1. Ends(answer, waiting)
    BY ProceedIs DEF GoesOn, GoesUp, RunStory, BaseInv, RunInv, RunTypes
  <1>2. cur = Root /\ out' = [out EXCEPT ![Root] = answer] /\ Root \in Node
        /\ out \in [Node -> Value \cup {None}]
    BY <1>1, WorkflowAssumption DEF Ends, RunStory, BaseInv, RunInv, RunTypes
  <1>3. out'[Root] = answer
    BY <1>2
  <1>4. baseline.log \in Log
    BY BaselineFields DEF RunStory, BaseInv, RunInv, RunTypes, Counts, Running
  <1>5. Before(cur) \cup Leaves(cur) = Leaf
    BY <1>2, BeforeRoot, LeavesTyped
  <1>6. Continues(log', baseline.log) /\ Tells(log', start, runOrd, inp[Root], answer, Leaf, executed)
    BY <1>5 DEF SoFar
  <1>7. SubSeq(log', 1, start) = baseline.log
    BY <1>4, <1>6, PrefixIs
  <1>8. story \in Log /\ Covers(story, 0, runOrd, Leaf) /\ Told(story, 0, runOrd, inp[Root], answer, executed)
    BY <1>6, CutTold DEF Tells
  <1> HIDE DEF story, start
  <1>9. Len(story) = Cardinality(Leaf) /\ Len(story) \in Nat /\ Len(story) # 0
    BY <1>8, CoversCount, TreeAssumption DEF Leaf
  <1>10. DOMAIN story = 0 + 1 .. Len(story) /\ 0 + 1 = 1
    BY <1>8 DEF Log
  <1>11. \A i \in DOMAIN story :
           <<runOrd, story[i].node,
             IF i = 1 THEN inp[Root] ELSE story[i - 1].out, story[i].out>> \in executed
    BY <1>8, <1>10 DEF Told
  <1>12. answer = story[Len(story)].out
    BY <1>8, <1>9 DEF Told
  <1> QED
    BY <1>3, <1>7, <1>9, <1>11, <1>12 DEF FinishesCoherently, story, start

(* A run that finishes tells one coherent story, whatever mix of replays and
   bodies produced it (23a-step-level-resume.md:104-106, 211). *)
THEOREM FinishedRunsCoherent == Spec => FinishedRunIsCoherent
  <1>1. RunStory /\ [Next]_vars => [FinishesCoherently]_vars
    <2> SUFFICES ASSUME RunStory, [Next]_vars, pc # "ending", pc' = "ending"
                 PROVE  FinishesCoherently
      BY DEF FinishesCoherently
    <2>1. BaseInv /\ RowsInv /\ StoryInv /\ BaseInv'
      BY StoryKept DEF RunStory
    <2>2. log' \in Log
      BY <2>1 DEF BaseInv, RunInv, RunTypes
    <2>3. CASE Replay
      <3>1. pc = "dispatch"
        BY <2>3 DEF Replay
      <3>2. PICK r \in L!Answers(PathOf(cur), inp[cur]) :
              log' = log \o r.val.items /\ Proceed(cur, r.val.out, chain)
        BY <2>1, <2>3, ReplayBase
      <3>3. SoFar(log', r.val.out)
        BY <2>1, <3>1, <3>2, ReplaySoFar
      <3> QED
        BY <2>2, <3>1, <3>2, <3>3, CoherentEnd
    <2>4. CASE (SaveLands \/ SaveFails) /\ StepSettles
      <3>1. pc = "checkpoint" /\ Proceed(cur, out[cur], Tail(chain)) /\ log' = log
        BY <2>4 DEF SaveLands, SaveFails, StepSettles
      <3>2. SoFar(log', out[cur])
        BY <2>1, <3>1, SettledSoFar
      <3> QED
        BY <2>2, <3>1, <3>2, CoherentEnd
    <2>5. Replay \/ ((SaveLands \/ SaveFails) /\ StepSettles)
      <3>1. ASSUME NEW v \in Value, Start(v) \/ Retry(v) PROVE FALSE
        BY <3>1 DEF Start, Retry, BeginRun
      <3>2. ASSUME NEW v \in Value, Answer(v) PROVE FALSE
        BY <3>2 DEF Answer
      <3>3. CASE Run \/ Record \/ Checkpoint
        BY <3>3 DEF Run, Record, Checkpoint
      <3>4. CASE Recording \/ Dropping \/ Capture \/ UNCHANGED vars
        BY <3>4 DEF Recording, Dropping, LedgerStep, Capture, run, vars
      <3>5. CASE BeginSettles \/ EndLands \/ EndFails
        BY <3>5 DEF BeginSettles, EndLands, EndFails, run
      <3>6. CASE Dropped \/ StepFails \/ Crash \/ Restore
        BY <3>6 DEF Dropped, StepFails, Crash, Restore
      <3> QED
        BY <3>1, <3>2, <3>3, <3>4, <3>5, <3>6 DEF Next, RunStep, SaveLands, SaveFails
    <2> QED
      BY <2>3, <2>4, <2>5
  <1> QED
    BY <1>1, StoryInit, StoryKept, PTL DEF Spec, Safety, FinishedRunIsCoherent

-----------------------------------------------------------------------------
(* The steps a run has still to come to. *)

(* Those in the trees of later siblings of the step c, and of the steps above it. *)
After(c) ==
  {n \in Node : \E m \in Node : \E i, j \in DOMAIN Kids[m] :
     i < j /\ c \in Tree(Kids[m][i]) /\ n \in Tree(Kids[m][j])}

Ahead == After(cur) \cup (IF pc = "dispatch" THEN Tree(cur) ELSE {})

LEMMA AfterKid ==
  ASSUME NEW n \in Node, NEW i \in DOMAIN Kids[n], NEW k \in After(Kids[n][i])
  PROVE  \/ k \in After(n)
         \/ \E h \in DOMAIN Kids[n] : i < h /\ k \in Tree(Kids[n][h])
  <1>1. PICK m \in Node : \E g, j \in DOMAIN Kids[m] :
          g < j /\ Kids[n][i] \in Tree(Kids[m][g]) /\ k \in Tree(Kids[m][j])
    BY DEF After
  <1>2. PICK g \in DOMAIN Kids[m], j \in DOMAIN Kids[m] :
          g < j /\ Kids[n][i] \in Tree(Kids[m][g]) /\ k \in Tree(Kids[m][j])
    BY <1>1
  <1>3. CASE Kids[n][i] = Kids[m][g]
    <2>1. m = n /\ g = i
      BY <1>3, TreeAssumption
    <2> QED
      BY <1>2, <2>1
  <1>4. CASE Kids[n][i] \in Beneath[Kids[m][g]]
    <2>1. n \in Tree(Kids[m][g])
      BY <1>4, KidTyped, AboveKid
    <2> QED
      BY <1>2, <2>1 DEF After
  <1> QED
    BY <1>2, <1>3, <1>4 DEF Tree

(* What is ahead of a step is in no tree that holds the step. *)
LEMMA AfterIsApart ==
  ASSUME NEW c \in Node, NEW n \in After(c)
  PROVE  n \in Node /\ n \notin Tree(c) /\ c \notin Beneath[n]
  <1>1. n \in Node
    BY DEF After
  <1>2. PICK m \in Node : \E g, j \in DOMAIN Kids[m] :
          g < j /\ c \in Tree(Kids[m][g]) /\ n \in Tree(Kids[m][j])
    BY DEF After
  <1>3. PICK g \in DOMAIN Kids[m], j \in DOMAIN Kids[m] :
          g < j /\ c \in Tree(Kids[m][g]) /\ n \in Tree(Kids[m][j])
    BY <1>2
  <1>4. Tree(Kids[m][g]) \cap Tree(Kids[m][j]) = {}
    <2>1. g # j
      BY <1>3, KidTyped
    <2> QED
      BY <2>1, TreeAssumption
  <1>5. Kids[m][g] \in Node /\ Kids[m][j] \in Node
    BY KidTyped
  <1>6. Tree(c) \subseteq Tree(Kids[m][g]) /\ Beneath[n] \subseteq Tree(Kids[m][j])
    BY <1>1, <1>3, <1>5, TreeAssumption DEF Tree
  <1> QED
    BY <1>1, <1>3, <1>4, <1>6 DEF Tree

LEMMA AfterFirst ==
  ASSUME NEW n \in Node, n \notin Leaf
  PROVE  After(FirstChild(n)) \cup Tree(FirstChild(n)) \subseteq After(n) \cup Tree(n)
  <1>1. 1 \in DOMAIN Kids[n]
    <2>1. Kids[n] \in Seq(Node) /\ Kids[n] # <<>>
      BY WorkflowAssumption DEF Leaf
    <2> QED
      BY <2>1
  <1>2. \A h \in DOMAIN Kids[n] : Tree(Kids[n][h]) \subseteq Tree(n)
    BY KidTyped DEF Tree
  <1>3. \A k \in After(Kids[n][1]) : k \in After(n) \/ \E h \in DOMAIN Kids[n] : k \in Tree(Kids[n][h])
    BY <1>1, AfterKid
  <1> QED
    BY <1>1, <1>2, <1>3 DEF FirstChild

(* When a step has an output, no step comes to be ahead that was not. *)
LEMMA ProceedAhead ==
  ASSUME cur \in Node, NEW answer, NEW waiting, Proceed(cur, answer, waiting), cur # Root
  PROVE  Ahead' \subseteq After(cur) /\ pc' \in {"dispatch", "record"}
  <1> DEFINE p == Parent(cur)
             i == Index(cur)
  <1>1. p \in Node /\ i \in DOMAIN Kids[p] /\ Kids[p][i] = cur
    BY ParentIs
  <1>2. i \in 1 .. Len(Kids[p]) /\ DOMAIN Kids[p] = 1 .. Len(Kids[p]) /\ Len(Kids[p]) \in Nat
    BY <1>1, KidTyped
  <1>3. After(p) \subseteq After(cur)
    <2> SUFFICES ASSUME NEW k \in After(p) PROVE k \in After(cur)
      OBVIOUS
    <2>1. PICK m \in Node : \E g, j \in DOMAIN Kids[m] :
            g < j /\ p \in Tree(Kids[m][g]) /\ k \in Tree(Kids[m][j])
      BY DEF After
    <2>2. PICK g \in DOMAIN Kids[m], j \in DOMAIN Kids[m] :
            g < j /\ p \in Tree(Kids[m][g]) /\ k \in Tree(Kids[m][j])
      BY <2>1
    <2>3. cur \in Tree(Kids[m][g])
      <3>1. Kids[m][g] \in Node
        BY KidTyped
      <3>2. Kids[p][i] \in Beneath[Kids[m][g]]
        BY <1>1, <2>2, <3>1, AboveKid
      <3> QED
        BY <1>1, <3>2 DEF Tree
    <2>4. k \in Node
      BY DEF After
    <2> QED
      BY <2>2, <2>3, <2>4 DEF After
  <1>4. \A h \in DOMAIN Kids[p] : i < h => Tree(Kids[p][h]) \subseteq After(cur)
    <2> SUFFICES ASSUME NEW h \in DOMAIN Kids[p], i < h, NEW k \in Tree(Kids[p][h])
                 PROVE  k \in After(cur)
      OBVIOUS
    <2>1. k \in Node
      BY <1>1, KidTyped, WorkflowAssumption DEF Tree
    <2>2. cur \in Tree(Kids[p][i])
      BY <1>1 DEF Tree
    <2> QED
      BY <1>1, <2>1, <2>2 DEF After
  <1> HIDE DEF p, i
  <1>5. CASE ~IsLast(cur)
    <2>1. cur' = Kids[p][i + 1] /\ pc' = "dispatch"
      BY <1>5 DEF Proceed, p, i
    <2>2. i + 1 \in DOMAIN Kids[p] /\ i < i + 1
      BY <1>2, <1>5 DEF IsLast, p, i
    <2>3. \A k \in After(cur') :
            k \in After(p) \/ \E h \in DOMAIN Kids[p] : i + 1 < h /\ k \in Tree(Kids[p][h])
      BY <1>1, <2>1, <2>2, AfterKid
    <2>4. \A h \in DOMAIN Kids[p] : i + 1 < h => i < h
      BY <1>2
    <2>5. After(cur') \subseteq After(cur)
      BY <1>3, <1>4, <2>3, <2>4
    <2>6. Tree(cur') \subseteq After(cur)
      BY <1>4, <2>1, <2>2
    <2> QED
      BY <2>1, <2>5, <2>6 DEF Ahead, After
  <1>6. CASE IsLast(cur)
    <2>1. cur' = p /\ pc' = "record"
      BY <1>6 DEF Proceed, p
    <2> QED
      BY <1>3, <2>1 DEF Ahead, After
  <1> QED
    BY <1>5, <1>6

-----------------------------------------------------------------------------
(* The ledger beneath the run: memory and storage agree. *)

(* The rows have numbers of their own, below the next; what is live is stored;
   what is stored is live, in a call's hands or stranded. *)
KeysInv ==
  /\ \A r, q \in rows : r.seq = q.seq => r = q
  /\ up => \A r \in rows : r.seq < nextSeq
  /\ L!LiveIsStored /\ L!NoLeakedRow
  /\ \A n \in Node :
       /\ op[n].phase = "appending" =>
            op[n].row.seq < nextSeq /\ \A r \in rows : r.seq # op[n].row.seq
       /\ op[n].phase = "acking" =>
            op[n].row \in rows /\ \A p \in Path : live[p] # op[n].row.seq
       /\ op[n].phase \in {"replacing", "deleting"} =>
            \A p \in Path : live[p] # op[n].victim

Quiet == {"idle", "running", "pruning"}

(* At most the call of n has anything of the ledger in its hands. *)
Alone(n) == \A m \in Node \ {n} : op[m].phase \in {"idle", "running"} /\ op'[m].phase = op[m].phase

(* No call takes anything in hand or out of it. *)
LEMMA KeysSame ==
  ASSUME KeysInv, UNCHANGED <<rows, up, live, nextSeq, lost>>,
         \A n \in Node : op'[n] = op[n] \/ (op[n].phase \in Quiet /\ op'[n].phase \in Quiet)
  PROVE  KeysInv'
  <1>1. \A n \in Node : op'[n].phase \notin Quiet => op'[n] = op[n]
    OBVIOUS
  <1>2. \A n \in Node : op[n].phase \notin Quiet => op'[n] = op[n]
    OBVIOUS
  <1>3. L!LiveIsStored'
    BY DEF KeysInv, L!LiveIsStored
  <1>4. L!NoLeakedRow'
    BY <1>2 DEF KeysInv, L!NoLeakedRow, Quiet
  <1>5. \A n \in Node :
       /\ op'[n].phase = "appending" =>
            op'[n].row.seq < nextSeq /\ \A r \in rows : r.seq # op'[n].row.seq
       /\ op'[n].phase = "acking" =>
            op'[n].row \in rows /\ \A p \in Path : live[p] # op'[n].row.seq
       /\ op'[n].phase \in {"replacing", "deleting"} =>
            \A p \in Path : live[p] # op'[n].victim
    BY <1>1 DEF KeysInv, Quiet
  <1> QED
    BY <1>3, <1>4, <1>5 DEF KeysInv

LEMMA KeysRecord ==
  ASSUME LedgerInv, KeysInv, NEW n \in Node, NEW v \in Recorded, L!Record(n, v), up
  PROVE  KeysInv'
  <1>1. /\ UNCHANGED <<rows, replayable>> /\ op[n].phase = "running"
        /\ op'[n].phase = "appending" /\ op'[n].row = NewRow(n, v)
        /\ \A m \in Node \ {n} : op'[m] = op[m]
    BY RecordTypes
  <1>2. /\ nextSeq' = nextSeq + 1 /\ nextSeq \in Nat /\ rows \subseteq L!Row
        /\ UNCHANGED <<up, live, lost>>
    BY DEF L!Record, LedgerInv, L!TypeOK
  <1>3. \A r \in rows : r.seq < nextSeq /\ r.seq \in Nat
    BY <1>2 DEF KeysInv, L!Row
  <1>4. L!LiveIsStored'
    BY <1>1, <1>2 DEF KeysInv, L!LiveIsStored
  <1>5. L!NoLeakedRow'
    BY <1>1, <1>2 DEF KeysInv, L!NoLeakedRow
  <1>6. ASSUME NEW m \in Node
        PROVE  /\ op'[m].phase = "appending" =>
                    op'[m].row.seq < nextSeq' /\ \A r \in rows : r.seq # op'[m].row.seq
               /\ op'[m].phase = "acking" =>
                    op'[m].row \in rows /\ \A p \in Path : live[p] # op'[m].row.seq
               /\ op'[m].phase \in {"replacing", "deleting"} =>
                    \A p \in Path : live[p] # op'[m].victim
    <2>1. CASE m = n
      <3>1. op'[m].row.seq = nextSeq
        BY <1>1, <2>1 DEF NewRow
      <3> QED
        BY <1>1, <1>2, <1>3, <2>1, <3>1
    <2>2. CASE m # n
      <3>1. op'[m] = op[m]
        BY <1>1, <2>2
      <3>2. op[m].phase = "appending" => op[m].row.seq < nextSeq'
        <4>1. op[m].phase = "appending" => op[m].row.seq < nextSeq /\ op[m].row.seq \in Nat
          BY DEF KeysInv, LedgerInv, CallShape, L!Row
        <4> QED
          BY <1>2, <4>1
      <3> QED
        BY <3>1, <3>2 DEF KeysInv
    <2> QED
      BY <2>1, <2>2
  <1>7. \A r \in rows : r.seq < nextSeq'
    BY <1>2, <1>3
  <1> QED
    BY <1>1, <1>2, <1>4, <1>5, <1>6, <1>7 DEF KeysInv

(* The other calls have nothing in their hands. *)
LEMMA KeysAlone ==
  ASSUME NEW n \in Node, Alone(n),
         \A r, q \in rows' : r.seq = q.seq => r = q,
         up' => \A r \in rows' : r.seq < nextSeq',
         L!LiveIsStored', L!NoLeakedRow',
         op'[n].phase = "appending" =>
            op'[n].row.seq < nextSeq' /\ \A r \in rows' : r.seq # op'[n].row.seq,
         op'[n].phase = "acking" =>
            op'[n].row \in rows' /\ \A p \in Path : live'[p] # op'[n].row.seq,
         op'[n].phase \in {"replacing", "deleting"} =>
            \A p \in Path : live'[p] # op'[n].victim
  PROVE  KeysInv'
  <1>1. \A m \in Node \ {n} : op'[m].phase \in {"idle", "running"}
    BY DEF Alone
  <1>2. ASSUME NEW m \in Node
        PROVE  /\ op'[m].phase = "appending" =>
                    op'[m].row.seq < nextSeq' /\ \A r \in rows' : r.seq # op'[m].row.seq
               /\ op'[m].phase = "acking" =>
                    op'[m].row \in rows' /\ \A p \in Path : live'[p] # op'[m].row.seq
               /\ op'[m].phase \in {"replacing", "deleting"} =>
                    \A p \in Path : live'[p] # op'[m].victim
    <2>1. CASE m = n
      BY <2>1
    <2>2. CASE m # n
      BY <1>1, <2>2
    <2> QED
      BY <2>1, <2>2
  <1> QED
    BY <1>2 DEF KeysInv

(* What is in the hands of no call but that of n. *)
LEMMA LeakAlone ==
  ASSUME KeysInv, NEW n \in Node, Alone(n), up, NEW r \in rows
  PROVE  \/ live[r.path] = r.seq
         \/ r.seq \in lost
         \/ op[n].phase = "acking" /\ op[n].row = r
         \/ op[n].phase \in {"replacing", "deleting"} /\ op[n].victim = r.seq
  BY DEF KeysInv, L!NoLeakedRow, Alone

LEMMA KeysAppend ==
  ASSUME LedgerInv, KeysInv, NEW n \in Node, Alone(n), up, L!Append(n)
  PROVE  KeysInv'
  <1> DEFINE row == op[n].row
  <1>1. /\ op \in [Node -> L!Call] /\ rows \subseteq L!Row /\ row \in L!Row
        /\ op[n].phase = "appending"
    BY DEF LedgerInv, L!TypeOK, L!Append, CallShape
  <1>2. /\ rows' = {q \in rows : q.seq # row.seq} \cup {row}
        /\ op' = [op EXCEPT ![n].phase = "acking"]
        /\ UNCHANGED <<up, live, nextSeq, lost>>
    BY DEF L!Append, L!Put
  <1>3. op'[n].phase = "acking" /\ op'[n].row = row
    BY <1>1, <1>2 DEF L!Call
  <1>4. row.seq < nextSeq /\ \A r \in rows : r.seq # row.seq
    BY <1>1 DEF KeysInv
  <1> HIDE DEF row
  <1>5. rows' = rows \cup {row}
    BY <1>2, <1>4
  <1>6. \A p \in Path : live'[p] # row.seq
    <2> SUFFICES ASSUME NEW p \in Path, live[p] = row.seq PROVE FALSE
      BY <1>2
    <2>1. live[p] # L!NoSeq
      BY <1>1 DEF L!NoSeq, L!Row
    <2> QED
      BY <1>4, <2>1 DEF KeysInv, L!LiveIsStored
  <1>7. L!LiveIsStored'
    BY <1>2, <1>5 DEF KeysInv, L!LiveIsStored
  <1>8. L!NoLeakedRow'
    <2>1. ASSUME NEW r \in rows'
          PROVE  live'[r.path] = r.seq \/ r.seq \in lost' \/ (op'[n].phase = "acking" /\ op'[n].row = r)
      <3>1. CASE r = row
        BY <1>3, <3>1
      <3>2. CASE r \in rows
        BY <1>1, <1>2, <3>2, LeakAlone
      <3> QED
        BY <1>5, <3>1, <3>2
    <2> QED
      BY <2>1 DEF L!NoLeakedRow
  <1>9. \A r, q \in rows' : r.seq = q.seq => r = q
    BY <1>4, <1>5 DEF KeysInv
  <1>10. \A r \in rows' : r.seq < nextSeq'
    BY <1>2, <1>4, <1>5 DEF KeysInv
  <1> QED
    BY <1>3, <1>5, <1>6, <1>7, <1>8, <1>9, <1>10, KeysAlone

LEMMA KeysAppendFails ==
  ASSUME LedgerInv, KeysInv, NEW n \in Node, Alone(n), up, L!AppendFails(n)
  PROVE  KeysInv'
  <1> DEFINE row == op[n].row
  <1>1. /\ op \in [Node -> L!Call] /\ rows \subseteq L!Row /\ row \in L!Row
        /\ op[n].phase = "appending"
    BY DEF LedgerInv, L!TypeOK, L!AppendFails, CallShape
  <1>2. /\ op' = [op EXCEPT ![n] = L!Idle]
        /\ UNCHANGED <<rows, lost>> \/ (rows' = L!Put(row) /\ lost' = lost \cup {row.seq})
        /\ UNCHANGED <<up, live, nextSeq>>
    BY DEF L!AppendFails
  <1>3. op'[n].phase = "idle" /\ \A m \in Node \ {n} : op'[m] = op[m]
    BY <1>1, <1>2, IdleTyped
  <1>4. row.seq < nextSeq /\ \A r \in rows : r.seq # row.seq
    BY <1>1 DEF KeysInv
  <1> HIDE DEF row
  <1>5. (UNCHANGED <<rows, lost>>) \/ (rows' = rows \cup {row} /\ lost' = lost \cup {row.seq})
    BY <1>2, <1>4 DEF L!Put
  <1>6. rows \subseteq rows' /\ lost \subseteq lost'
        /\ \A r \in rows' : r \in rows \/ (r = row /\ row.seq \in lost')
    BY <1>5
  <1>7. L!LiveIsStored'
    BY <1>2, <1>6 DEF KeysInv, L!LiveIsStored
  <1>8. L!NoLeakedRow'
    <2>1. ASSUME NEW r \in rows'
          PROVE  live'[r.path] = r.seq \/ r.seq \in lost'
      <3>1. CASE r = row
        BY <1>5, <1>6, <3>1, LeakAlone, <1>1, <1>2
      <3>2. CASE r \in rows
        BY <1>1, <1>2, <1>6, <3>2, LeakAlone
      <3> QED
        BY <1>6, <3>1, <3>2
    <2> QED
      BY <2>1 DEF L!NoLeakedRow
  <1>9. \A r, q \in rows' : r.seq = q.seq => r = q
    BY <1>4, <1>6 DEF KeysInv
  <1>10. \A r \in rows' : r.seq < nextSeq'
    BY <1>2, <1>4, <1>6 DEF KeysInv
  <1> QED
    BY <1>3, <1>7, <1>8, <1>9, <1>10, KeysAlone

LEMMA KeysAck ==
  ASSUME LedgerInv, KeysInv, NEW n \in Node, Alone(n), up, L!Ack(n)
  PROVE  KeysInv'
  <1> DEFINE row == op[n].row
  <1>1. /\ op \in [Node -> L!Call] /\ rows \subseteq L!Row /\ row \in L!Row /\ row.path \in Path
        /\ row.seq \in Nat /\ op[n].phase = "acking" /\ live \in [Path -> Nat \cup {L!NoSeq}]
    BY DEF LedgerInv, L!TypeOK, L!Ack, CallShape, L!Row
  <1>2. /\ live' = [live EXCEPT ![row.path] = row.seq]
        /\ op' = IF live[row.path] = L!NoSeq
                 THEN [op EXCEPT ![n].phase = "pruning", ![n].todo = L!DeadBeneath(row.path)]
                 ELSE [op EXCEPT ![n].phase = "replacing", ![n].victim = live[row.path]]
        /\ UNCHANGED <<rows, up, nextSeq, lost>>
    BY DEF L!Ack
  <1>3. row \in rows /\ \A p \in Path : live[p] # row.seq
    BY <1>1 DEF KeysInv
  <1>4. \/ live[row.path] = L!NoSeq /\ op'[n].phase = "pruning"
        \/ live[row.path] # L!NoSeq /\ op'[n].phase = "replacing" /\ op'[n].victim = live[row.path]
    <2>1. CASE live[row.path] = L!NoSeq
      BY <1>1, <1>2, <2>1 DEF L!Call
    <2>2. CASE live[row.path] # L!NoSeq
      BY <1>1, <1>2, <2>2 DEF L!Call
    <2> QED
      BY <2>1, <2>2
  <1> HIDE DEF row
  <1>5. live'[row.path] = row.seq /\ \A p \in Path : p # row.path => live'[p] = live[p]
    BY <1>1, <1>2
  <1>6. L!LiveIsStored'
    <2> SUFFICES ASSUME NEW p \in Path, live'[p] # L!NoSeq
                 PROVE  \E r \in rows' : r.seq = live'[p] /\ r.path = p
      BY DEF L!LiveIsStored, L!NoSeq
    <2>1. CASE p = row.path
      BY <1>2, <1>3, <1>5, <2>1
    <2>2. CASE p # row.path
      BY <1>2, <1>5, <2>2 DEF KeysInv, L!LiveIsStored
    <2> QED
      BY <2>1, <2>2
  <1>7. L!NoLeakedRow'
    <2>1. ASSUME NEW r \in rows
          PROVE  \/ live'[r.path] = r.seq \/ r.seq \in lost'
                 \/ op'[n].phase = "replacing" /\ op'[n].victim = r.seq
      <3>1. r.path \in Path
        BY <1>1 DEF L!Row
      <3>2. CASE live[r.path] = r.seq
        <4>1. CASE r.path = row.path
          <5>1. live[row.path] # L!NoSeq
            BY <1>1, <3>2, <4>1 DEF L!Row, L!NoSeq
          <5> QED
            BY <1>4, <3>2, <4>1, <5>1
        <4>2. CASE r.path # row.path
          BY <1>5, <3>1, <3>2, <4>2
        <4> QED
          BY <4>1, <4>2
      <3>3. CASE r.seq \in lost
        BY <1>2, <3>3
      <3>4. CASE r = row
        BY <1>5, <3>4
      <3> QED
        BY <1>1, <3>2, <3>3, <3>4, LeakAlone DEF row
    <2> QED
      BY <1>2, <2>1 DEF L!NoLeakedRow
  <1>8. op'[n].phase = "replacing" => \A p \in Path : live'[p] # op'[n].victim
    <2> SUFFICES ASSUME op'[n].phase = "replacing", NEW p \in Path, live'[p] = op'[n].victim
                 PROVE  FALSE
      OBVIOUS
    <2>1. op'[n].victim = live[row.path] /\ live[row.path] # L!NoSeq
      BY <1>4
    <2>2. CASE p = row.path
      BY <1>1, <1>3, <1>5, <2>1, <2>2
    <2>3. CASE p # row.path
      <3>1. PICK r \in rows : r.seq = live[row.path] /\ r.path = row.path
        BY <1>1, <2>1 DEF KeysInv, L!LiveIsStored
      <3>2. live[p] = live[row.path]
        BY <1>5, <2>1, <2>3
      <3>3. PICK q \in rows : q.seq = live[p] /\ q.path = p
        BY <2>1, <3>2 DEF KeysInv, L!LiveIsStored
      <3>4. q = r
        BY <3>1, <3>2, <3>3 DEF KeysInv
      <3> QED
        BY <2>3, <3>1, <3>3, <3>4
    <2> QED
      BY <2>2, <2>3
  <1>9. \A r, q \in rows' : r.seq = q.seq => r = q
    BY <1>2 DEF KeysInv
  <1>10. \A r \in rows' : r.seq < nextSeq'
    BY <1>2 DEF KeysInv
  <1>11. op'[n].phase \in {"pruning", "replacing"}
    BY <1>4
  <1> QED
    BY <1>6, <1>7, <1>8, <1>9, <1>10, <1>11, KeysAlone

LEMMA KeysDelete ==
  ASSUME LedgerInv, KeysInv, NEW n \in Node, Alone(n), up, L!Replaced(n) \/ L!Pruned(n)
  PROVE  KeysInv'
  <1> DEFINE s == op[n].victim
  <1>1. /\ op \in [Node -> L!Call] /\ rows \subseteq L!Row
        /\ op[n].phase \in {"replacing", "deleting"} /\ live \in [Path -> Nat \cup {L!NoSeq}]
    BY DEF LedgerInv, L!TypeOK, L!Replaced, L!Pruned
  <1>2. L!DeleteRow(s) /\ UNCHANGED <<up, live, nextSeq>>
    BY DEF L!Replaced, L!Pruned
  <1>3. op'[n].phase = "pruning"
    BY <1>1 DEF L!Replaced, L!Pruned, L!Call
  <1>4. \A p \in Path : live[p] # s
    BY <1>1 DEF KeysInv
  <1> HIDE DEF s
  <1>5. /\ rows' \subseteq rows /\ lost \subseteq lost'
        /\ \A r \in rows : r.seq # s => r \in rows'
        /\ \A r \in rows' : r.seq = s => r.seq \in lost'
    <2>1. CASE rows' = {r \in rows : r.seq # s} /\ UNCHANGED lost
      BY <2>1
    <2>2. CASE rows' = rows /\ lost' = lost \cup {s}
      BY <2>2
    <2> QED
      BY <1>2, <2>1, <2>2 DEF L!DeleteRow
  <1>6. L!LiveIsStored'
    <2> SUFFICES ASSUME NEW p \in Path, live[p] # L!NoSeq
                 PROVE  \E r \in rows' : r.seq = live[p] /\ r.path = p
      BY <1>2 DEF L!LiveIsStored, L!NoSeq
    <2>1. PICK r \in rows : r.seq = live[p] /\ r.path = p
      BY DEF KeysInv, L!LiveIsStored
    <2> QED
      BY <1>4, <1>5, <2>1
  <1>7. L!NoLeakedRow'
    <2>1. ASSUME NEW r \in rows' PROVE live'[r.path] = r.seq \/ r.seq \in lost'
      <3>1. r \in rows /\ (r.seq = s => r.seq \in lost')
        BY <1>5
      <3>2. live[r.path] = r.seq \/ r.seq \in lost \/ r.seq = s
        BY <1>1, <3>1, LeakAlone DEF s
      <3> QED
        BY <1>2, <1>5, <3>1, <3>2
    <2> QED
      BY <2>1 DEF L!NoLeakedRow
  <1>8. \A r, q \in rows' : r.seq = q.seq => r = q
    BY <1>5 DEF KeysInv
  <1>9. \A r \in rows' : r.seq < nextSeq'
    BY <1>2, <1>5 DEF KeysInv
  <1> QED
    BY <1>3, <1>6, <1>7, <1>8, <1>9, KeysAlone

(* What a prune does. *)
LEMMA PruneIs ==
  ASSUME LedgerInv, NEW n \in Node, L!Prune(n)
  PROVE  \E p \in op[n].todo :
           /\ p \in Path /\ op[n].phase = "pruning"
           /\ live'[p] = L!NoSeq /\ \A q \in Path : q # p => live'[q] = live[q]
           /\ UNCHANGED <<rows, up, nextSeq, lost>>
           /\ op'[n].todo = op[n].todo \ {p} /\ op'[n].forget = op[n].forget
           /\ \/ live[p] = L!NoSeq /\ op'[n].phase = "pruning" /\ replayable' = replayable
              \/ /\ live[p] # L!NoSeq /\ op'[n].phase = "deleting" /\ op'[n].victim = live[p]
                 /\ replayable' = {r \in replayable : r.path # p}
  <1>1. PICK p \in op[n].todo :
          /\ op[n].phase = "pruning" /\ live' = [live EXCEPT ![p] = L!NoSeq]
          /\ UNCHANGED <<rows, up, nextSeq, lost, faults, crashes>>
          /\ IF live[p] = L!NoSeq
             THEN /\ op' = [op EXCEPT ![n].todo = @ \ {p}]
                  /\ UNCHANGED replayable
             ELSE /\ op' = [op EXCEPT ![n].phase = "deleting", ![n].todo = @ \ {p},
                                      ![n].victim = live[p]]
                  /\ replayable' = {r \in replayable : r.path # p}
    BY DEF L!Prune
  <1>2. op \in [Node -> L!Call] /\ live \in [Path -> Nat \cup {L!NoSeq}] /\ op[n] \in L!Call
    BY DEF LedgerInv, L!TypeOK
  <1>3. p \in Path
    BY <1>2 DEF L!Call
  <1>4. live'[p] = L!NoSeq /\ \A q \in Path : q # p => live'[q] = live[q]
    BY <1>1, <1>2, <1>3
  <1>5. CASE live[p] = L!NoSeq
    <2>1. op'[n] = [op[n] EXCEPT !.todo = @ \ {p}] /\ replayable' = replayable
      BY <1>1, <1>2, <1>5
    <2>2. op'[n].todo = op[n].todo \ {p} /\ op'[n].forget = op[n].forget /\ op'[n].phase = op[n].phase
      BY <1>2, <2>1 DEF L!Call
    <2> QED
      BY <1>1, <1>3, <1>4, <1>5, <2>1, <2>2
  <1>6. CASE live[p] # L!NoSeq
    <2>1. /\ op'[n] = [op[n] EXCEPT !.phase = "deleting", !.todo = @ \ {p}, !.victim = live[p]]
          /\ replayable' = {r \in replayable : r.path # p}
      BY <1>1, <1>2, <1>6
    <2>2. /\ op'[n].todo = op[n].todo \ {p} /\ op'[n].forget = op[n].forget
          /\ op'[n].phase = "deleting" /\ op'[n].victim = live[p]
      BY <1>2, <2>1 DEF L!Call
    <2> QED
      BY <1>1, <1>3, <1>4, <1>6, <2>1, <2>2
  <1> QED
    BY <1>5, <1>6

LEMMA KeysPrune ==
  ASSUME LedgerInv, KeysInv, NEW n \in Node, Alone(n), up, L!Prune(n)
  PROVE  KeysInv'
  <1>1. PICK p \in op[n].todo :
           /\ p \in Path /\ op[n].phase = "pruning"
           /\ live'[p] = L!NoSeq /\ \A q \in Path : q # p => live'[q] = live[q]
           /\ UNCHANGED <<rows, up, nextSeq, lost>>
           /\ op'[n].todo = op[n].todo \ {p} /\ op'[n].forget = op[n].forget
           /\ \/ live[p] = L!NoSeq /\ op'[n].phase = "pruning" /\ replayable' = replayable
              \/ /\ live[p] # L!NoSeq /\ op'[n].phase = "deleting" /\ op'[n].victim = live[p]
                 /\ replayable' = {r \in replayable : r.path # p}
    BY PruneIs
  <1>2. rows \subseteq L!Row /\ live \in [Path -> Nat \cup {L!NoSeq}]
    BY DEF LedgerInv, L!TypeOK
  <1>3. \A r \in rows : r.path \in Path /\ r.seq # L!NoSeq
    BY <1>2 DEF L!Row, L!NoSeq
  <1>4. L!LiveIsStored'
    <2> SUFFICES ASSUME NEW q \in Path, live'[q] # L!NoSeq
                 PROVE  \E r \in rows' : r.seq = live'[q] /\ r.path = q
      BY DEF L!LiveIsStored, L!NoSeq
    <2>1. q # p /\ live'[q] = live[q]
      BY <1>1
    <2> QED
      BY <1>1, <2>1 DEF KeysInv, L!LiveIsStored
  <1>5. L!NoLeakedRow'
    <2>1. ASSUME NEW r \in rows
          PROVE  \/ live'[r.path] = r.seq \/ r.seq \in lost'
                 \/ op'[n].phase = "deleting" /\ op'[n].victim = r.seq
      <3>1. live[r.path] = r.seq \/ r.seq \in lost
        BY <1>1, LeakAlone
      <3>2. CASE r.path = p
        BY <1>1, <1>3, <3>1, <3>2
      <3>3. CASE r.path # p
        BY <1>1, <1>3, <3>1, <3>3
      <3> QED
        BY <3>2, <3>3
    <2> QED
      BY <1>1, <2>1 DEF L!NoLeakedRow
  <1>6. op'[n].phase = "deleting" => \A q \in Path : live'[q] # op'[n].victim
    <2> SUFFICES ASSUME op'[n].phase = "deleting", NEW q \in Path, live'[q] = op'[n].victim
                 PROVE  FALSE
      OBVIOUS
    <2>1. live[p] # L!NoSeq /\ op'[n].victim = live[p]
      BY <1>1
    <2>2. q # p /\ live[q] = live[p]
      BY <1>1, <2>1
    <2>3. PICK r \in rows : r.seq = live[p] /\ r.path = p
      BY <1>1, <2>1 DEF KeysInv, L!LiveIsStored
    <2>4. PICK t \in rows : t.seq = live[q] /\ t.path = q
      BY <2>1, <2>2 DEF KeysInv, L!LiveIsStored
    <2>5. r = t
      BY <2>2, <2>3, <2>4 DEF KeysInv
    <2> QED
      BY <2>2, <2>3, <2>4, <2>5
  <1>7. \A r, q \in rows' : r.seq = q.seq => r = q
    BY <1>1 DEF KeysInv
  <1>8. \A r \in rows' : r.seq < nextSeq'
    BY <1>1 DEF KeysInv
  <1>9. op'[n].phase \in {"pruning", "deleting"}
    BY <1>1
  <1> QED
    BY <1>4, <1>5, <1>6, <1>7, <1>8, <1>9, KeysAlone

(* A new process, or a run retried in place, takes what storage holds. *)
LEMMA KeysRead ==
  ASSUME LedgerInv, KeysInv, L!Load({}) \/ L!Adopt({}), \A n \in Node : op[n].phase = "idle"
  PROVE  /\ KeysInv' /\ up' /\ rows' = rows /\ op' = op
         /\ \A r \in replayable' : r \in rows /\ live'[r.path] = r.seq
         /\ \A p \in Path : live'[p] # L!NoSeq => \E r \in replayable' : r.path = p
  <1>1. /\ rows \subseteq L!Row /\ nextSeq \in Nat /\ rows \ {} = rows
    BY DEF LedgerInv, L!TypeOK
  <1>2. /\ rows' = rows /\ op' = op /\ up' = TRUE
        /\ replayable' = L!Winners(rows) /\ live' = L!RecoveredLive(rows)
        /\ lost' = {r.seq : r \in rows \ replayable'}
    BY <1>1 DEF L!Load, L!Adopt
  <1>3. \A r \in rows : r.seq < nextSeq'
    <2>1. PICK k \in L!FreshSeqs : nextSeq' = k \/ (nextSeq' = IF k > nextSeq THEN k ELSE nextSeq)
      BY DEF L!Load, L!Adopt
    <2>2. k \in Nat /\ \A r \in rows : r.seq < k /\ r.seq \in Nat
      BY <1>1, <2>1, FreshTyped DEF L!FreshSeqs, L!Row
    <2> QED
      BY <1>1, <2>1, <2>2
  <1>4. \A p \in Path : live'[p] =
          IF \E r \in L!Winners(rows) : r.path = p
          THEN (CHOOSE r \in L!Winners(rows) : r.path = p).seq ELSE L!NoSeq
    BY <1>2 DEF L!RecoveredLive
  <1>5. \A p \in Path : live'[p] # L!NoSeq =>
          \E r \in L!Winners(rows) : r.path = p /\ r.seq = live'[p]
    BY <1>4
  <1>6. \A r, q \in L!Winners(rows) : r.path = q.path => r = q
    BY <1>1 DEF L!Winners, KeysInv, L!Row
  <1>7. ASSUME NEW r \in L!Winners(rows) PROVE r \in rows /\ live'[r.path] = r.seq
    <2>1. r \in rows /\ r.path \in Path
      BY <1>1, <1>7 DEF L!Winners, L!Row
    <2>2. (CHOOSE q \in L!Winners(rows) : q.path = r.path) = r
      BY <1>6, <1>7
    <2> QED
      BY <1>4, <1>7, <2>1, <2>2
  <1>8. L!LiveIsStored'
    BY <1>2, <1>5, <1>7 DEF L!LiveIsStored, L!NoSeq
  <1>9. L!NoLeakedRow'
    BY <1>2, <1>7 DEF L!NoLeakedRow
  <1>10. \A n \in Node : op'[n].phase = "idle"
    BY <1>2
  <1>11. KeysInv'
    BY <1>2, <1>3, <1>8, <1>9, <1>10 DEF KeysInv
  <1> QED
    BY <1>2, <1>5, <1>7, <1>11

-----------------------------------------------------------------------------
(* The calls and what they are about to delete. *)

CallInv ==
  /\ up <=> pc # "down"
  /\ \A n \in Node : op[n].forget # {} => pc = "dropping" /\ op[n].phase # "idle"
  /\ pc = "recording" =>
       /\ op[cur].phase \in {"appending", "acking", "replacing"} => op[cur].row.path = PathOf(cur)
       /\ op[cur].phase \in {"pruning", "deleting"} => op[cur].todo \subseteq Under[PathOf(cur)]
  /\ pc = "dropping" =>
       /\ op[Root].phase \in {"idle", "pruning", "deleting"}
       /\ \A p \in Path : live[p] # L!NoSeq => op[Root].phase # "idle" /\ p \in op[Root].todo

LEMMA IdleForgets == L!Idle.forget = {} /\ L!Idle.phase = "idle"
  BY DEF L!Idle

(* What an awaited step does to its call and to what is live. *)
LEMMA AwaitedIs ==
  ASSUME LedgerInv, NEW n \in Node, Awaited(n)
  PROVE  /\ UNCHANGED <<up, nextSeq>>
         /\ IF op'[n].phase = "idle" THEN op'[n].forget = {} ELSE op'[n].forget = op[n].forget
         /\ op'[n].phase \in {"acking", "replacing"} =>
              op'[n].row = op[n].row /\ op[n].phase \in {"appending", "acking"}
         /\ op'[n].phase \in {"pruning", "deleting"} =>
              \/ op[n].phase \in {"acking", "replacing"} /\ op'[n].todo = L!DeadBeneath(op[n].row.path)
              \/ op[n].phase \in {"pruning", "deleting"} /\ op'[n].todo \subseteq op[n].todo
         /\ op[n].phase \in {"pruning", "deleting"} =>
              /\ op'[n].phase \in {"idle", "pruning", "deleting"}
              /\ \A p \in Path : live'[p] # L!NoSeq =>
                   /\ live'[p] = live[p]
                   /\ p \in op[n].todo => op'[n].phase # "idle" /\ p \in op'[n].todo
  <1>1. op \in [Node -> L!Call] /\ op[n] \in L!Call
    BY DEF LedgerInv, L!TypeOK
  <1>2. CASE L!Append(n)
    <2>1. /\ op'[n] = [op[n] EXCEPT !.phase = "acking"] /\ op[n].phase = "appending"
          /\ UNCHANGED <<up, nextSeq>>
      BY <1>1, <1>2 DEF L!Append
    <2>2. op'[n].phase = "acking" /\ op'[n].row = op[n].row /\ op'[n].forget = op[n].forget
      BY <1>1, <2>1 DEF L!Call
    <2> QED
      BY <2>1, <2>2
  <1>3. CASE L!AppendFails(n)
    <2>1. op'[n] = L!Idle /\ op[n].phase = "appending" /\ UNCHANGED <<up, nextSeq>>
      BY <1>1, <1>3 DEF L!AppendFails
    <2> QED
      BY <2>1, IdleForgets
  <1>4. CASE L!Ack(n)
    <2>1. /\ op[n].phase = "acking" /\ UNCHANGED <<up, nextSeq>>
          /\ \/ op'[n] = [op[n] EXCEPT !.phase = "pruning", !.todo = L!DeadBeneath(op[n].row.path)]
             \/ op'[n] = [op[n] EXCEPT !.phase = "replacing", !.victim = live[op[n].row.path]]
      BY <1>1, <1>4 DEF L!Ack
    <2>2. /\ op'[n].forget = op[n].forget
          /\ \/ op'[n].phase = "pruning" /\ op'[n].todo = L!DeadBeneath(op[n].row.path)
             \/ op'[n].phase = "replacing" /\ op'[n].row = op[n].row
      BY <1>1, <2>1 DEF L!Call
    <2> QED
      BY <2>1, <2>2
  <1>5. CASE L!Replaced(n)
    <2>1. /\ op[n].phase = "replacing" /\ UNCHANGED <<up, nextSeq>>
          /\ op'[n] = [op[n] EXCEPT !.phase = "pruning", !.victim = L!NoSeq,
                                    !.todo = L!DeadBeneath(op[n].row.path)]
      BY <1>1, <1>5 DEF L!Replaced
    <2>2. /\ op'[n].forget = op[n].forget
          /\ op'[n].phase = "pruning" /\ op'[n].todo = L!DeadBeneath(op[n].row.path)
      BY <1>1, <2>1 DEF L!Call
    <2> QED
      BY <2>1, <2>2
  <1>6. CASE L!Prune(n)
    <2>1. PICK p \in op[n].todo :
           /\ p \in Path /\ op[n].phase = "pruning"
           /\ live'[p] = L!NoSeq /\ \A q \in Path : q # p => live'[q] = live[q]
           /\ UNCHANGED <<rows, up, nextSeq, lost>>
           /\ op'[n].todo = op[n].todo \ {p} /\ op'[n].forget = op[n].forget
           /\ op'[n].phase \in {"pruning", "deleting"}
      BY <1>6, PruneIs
    <2>2. op'[n].phase # "idle" /\ op'[n].phase \notin {"acking", "replacing"}
      BY <2>1
    <2>3. \A q \in Path : live'[q] # L!NoSeq =>
                   /\ live'[q] = live[q]
                   /\ q \in op[n].todo => q \in op'[n].todo
      BY <2>1
    <2> QED
      BY <2>1, <2>2, <2>3
  <1>7. CASE L!Pruned(n)
    <2>1. /\ op[n].phase = "deleting" /\ UNCHANGED <<up, live, nextSeq>>
          /\ op'[n] = [op[n] EXCEPT !.phase = "pruning", !.victim = L!NoSeq]
      BY <1>1, <1>7 DEF L!Pruned
    <2>2. /\ op'[n].forget = op[n].forget
          /\ op'[n].phase = "pruning" /\ op'[n].todo = op[n].todo
      BY <1>1, <2>1 DEF L!Call
    <2> QED
      BY <2>1, <2>2
  <1>8. CASE L!Finish(n)
    <2>1. /\ op'[n] = L!Idle /\ op[n].phase = "pruning" /\ op[n].todo = {}
          /\ UNCHANGED <<up, live, nextSeq>>
      BY <1>1, <1>8 DEF L!Finish
    <2> QED
      BY <2>1, IdleForgets
  <1> QED
    BY <1>2, <1>3, <1>4, <1>5, <1>6, <1>7, <1>8 DEF Awaited

LEMMA CallSame ==
  ASSUME CallInv, UNCHANGED <<up, op, live>>, pc # "down", pc' # "down",
         pc' \in {"recording", "dropping"} => UNCHANGED <<pc, cur, runOrd>>,
         pc = "dropping" /\ pc' # "dropping" => \A n \in Node : op[n].phase = "idle"
  PROVE  CallInv'
  <1>1. \A n \in Node : op[n].forget # {} => pc' = "dropping" /\ op[n].phase # "idle"
    BY DEF CallInv
  <1> QED
    BY <1>1 DEF CallInv, PathOf

LEMMA CallIdle ==
  ASSUME \A n \in Node : op'[n] = L!Idle, pc' \notin {"recording", "dropping"},
         up' <=> pc' # "down"
  PROVE  CallInv'
  BY IdleForgets DEF CallInv

LEMMA CallAwaited ==
  ASSUME BaseInv, Calls, CallInv, Recording \/ Dropping
  PROVE  CallInv'
  <1>1. pc \in {"recording", "dropping"} /\ Awaited(cur) /\ UNCHANGED run /\ cur \in Node
        /\ LedgerInv
    BY AwaitedBase DEF BaseInv, RunInv, RunTypes
  <1>2. \A m \in Node \ {cur} : op'[m] = op[m]
    BY <1>1, AwaitedTypes
  <1>3. /\ UNCHANGED <<up, nextSeq>>
        /\ IF op'[cur].phase = "idle" THEN op'[cur].forget = {} ELSE op'[cur].forget = op[cur].forget
        /\ op'[cur].phase \in {"acking", "replacing"} =>
             op'[cur].row = op[cur].row /\ op[cur].phase \in {"appending", "acking"}
        /\ op'[cur].phase \in {"pruning", "deleting"} =>
             \/ op[cur].phase \in {"acking", "replacing"} /\ op'[cur].todo = L!DeadBeneath(op[cur].row.path)
             \/ op[cur].phase \in {"pruning", "deleting"} /\ op'[cur].todo \subseteq op[cur].todo
        /\ op[cur].phase \in {"pruning", "deleting"} =>
             /\ op'[cur].phase \in {"idle", "pruning", "deleting"}
             /\ \A p \in Path : live'[p] # L!NoSeq =>
                  /\ live'[p] = live[p]
                  /\ p \in op[cur].todo => op'[cur].phase # "idle" /\ p \in op'[cur].todo
    BY <1>1, AwaitedIs
  <1>4. ASSUME NEW n \in Node, op'[n].forget # {}
        PROVE  pc' = "dropping" /\ op'[n].phase # "idle"
    <2>1. CASE n = cur
      BY <1>1, <1>3, <1>4, <2>1 DEF CallInv, run
    <2>2. CASE n # cur
      BY <1>1, <1>2, <1>4, <2>2 DEF CallInv, run
    <2> QED
      BY <2>1, <2>2
  <1>5. CASE pc = "recording"
    <2>1. /\ op[cur].phase \in {"appending", "acking", "replacing"} => op[cur].row.path = PathOf(cur)
          /\ op[cur].phase \in {"pruning", "deleting"} => op[cur].todo \subseteq Under[PathOf(cur)]
      BY <1>5 DEF CallInv
    <2>2. L!DeadBeneath(PathOf(cur)) \subseteq Under[PathOf(cur)]
      BY DEF L!DeadBeneath
    <2>3. /\ op'[cur].phase \in {"appending", "acking", "replacing"} => op'[cur].row.path = PathOf(cur)
          /\ op'[cur].phase \in {"pruning", "deleting"} => op'[cur].todo \subseteq Under[PathOf(cur)]
      <3>1. op'[cur].phase # "appending"
        BY <1>1, AwaitedTypes
      <3> QED
        BY <1>3, <2>1, <2>2, <3>1
    <2> QED
      BY <1>1, <1>3, <1>4, <1>5, <2>3 DEF CallInv, run, PathOf
  <1>6. CASE pc = "dropping"
    <2>1. cur = Root
      BY <1>6 DEF BaseInv, RunInv, Counts, Running
    <2>2. op[cur].phase \in {"pruning", "deleting"}
      <3>1. op[cur].phase \in {"idle", "pruning", "deleting"}
        BY <1>6, <2>1 DEF CallInv
      <3>2. op[cur].phase # "idle"
        BY <1>1 DEF Awaited, L!Append, L!AppendFails, L!Ack, L!Replaced, L!Prune, L!Pruned, L!Finish
      <3> QED
        BY <3>1, <3>2
    <2>3. /\ op'[cur].phase \in {"idle", "pruning", "deleting"}
          /\ \A p \in Path : live'[p] # L!NoSeq => op'[cur].phase # "idle" /\ p \in op'[cur].todo
      BY <1>3, <1>6, <2>1, <2>2 DEF CallInv
    <2> QED
      BY <1>1, <1>3, <1>4, <1>6, <2>1, <2>3 DEF CallInv, run
  <1> QED
    BY <1>1, <1>5, <1>6

LEMMA CallStep == BaseInv /\ Calls /\ CallInv /\ [Next]_vars => CallInv'
  <1> SUFFICES ASSUME BaseInv, Calls, CallInv, [Next]_vars PROVE CallInv'
    OBVIOUS
  <1>0. cur \in Node /\ LedgerInv /\ op \in [Node -> L!Call] /\ Root \in Node
    BY WorkflowAssumption DEF BaseInv, RunInv, RunTypes, LedgerInv, L!TypeOK
  <1>1. ASSUME NEW v \in Value, Start(v) PROVE CallInv'
    BY <1>1, CallSame DEF Start, MayStart, BeginRun, ledger
  <1>2. ASSUME NEW v \in Value, Retry(v) PROVE CallInv'
    <2>1. pc = "ready" /\ pc' = "dispatch" /\ up' = TRUE /\ op' = op
      BY <1>0, <1>2, ReadTypes DEF Retry, MayStart, BeginRun, L!Adopt
    <2> QED
      BY <2>1 DEF CallInv
  <1>3. CASE Replay
    <2>1. pc' \in {"ending", "dispatch", "record"}
      BY <1>3 DEF Replay, Proceed, EndRun
    <2> QED
      BY <1>3, <2>1, CallSame DEF Replay, ledger
  <1>4. CASE Run
    <2>1. /\ op'[cur] = [L!Idle EXCEPT !.phase = "running", !.path = PathOf(cur), !.hash = inp[cur]]
          /\ \A m \in Node \ {cur} : op'[m] = op[m]
      BY <1>4, RunBase
    <2>2. op'[cur].forget = {}
      BY <2>1 DEF L!Idle
    <2>3. pc = "dispatch" /\ pc' \in {"dispatch", "body"} /\ up' = up
      BY <1>4 DEF Run, L!Dispatch
    <2>4. \A n \in Node : op'[n].forget = {}
      BY <2>1, <2>2, <2>3 DEF CallInv
    <2> QED
      BY <2>3, <2>4 DEF CallInv
  <1>5. ASSUME NEW v \in Value, Answer(v) PROVE CallInv'
    BY <1>5, CallSame DEF Answer, ledger
  <1>6. CASE Record
    <2>1. /\ pc = "record" /\ pc' = "recording" /\ UNCHANGED <<cur, runOrd>>
          /\ L!Record(cur, [out |-> out[cur], items |-> ItemsOf(cur)])
      BY <1>6 DEF Record
    <2>2. /\ op[cur].phase = "running" /\ op'[cur].phase = "appending"
          /\ op'[cur].row = NewRow(cur, [out |-> out[cur], items |-> ItemsOf(cur)])
          /\ \A m \in Node \ {cur} : op'[m] = op[m]
      BY <1>6, RecordBase
    <2>3. op[cur].path = PathOf(cur)
      BY <2>1, <2>2, <1>0 DEF Calls
    <2>4. op'[cur].row.path = PathOf(cur)
      BY <2>2, <2>3 DEF NewRow
    <2>5. up' = up /\ op'[cur].forget = op[cur].forget
      BY <1>0, <2>1 DEF L!Record, L!Call
    <2>6. \A n \in Node : op'[n].forget = {}
      BY <2>1, <2>2, <2>5 DEF CallInv
    <2> QED
      BY <2>1, <2>2, <2>4, <2>5, <2>6 DEF CallInv, PathOf
  <1>7. CASE Recording \/ Dropping
    BY <1>7, CallAwaited
  <1>8. CASE Checkpoint
    BY <1>8, CallSame DEF Checkpoint, ledger
  <1>9. CASE Capture
    <2>1. UNCHANGED <<ledger, run>> /\ chain # <<>>
      BY <1>9 DEF Capture
    <2>2. pc # "down"
      BY <2>1 DEF BaseInv, RunInv, ChainInv
    <2> QED
      BY <2>1, <2>2, CallSame DEF ledger, run
  <1>10. ASSUME SaveLands \/ SaveFails PROVE CallInv'
    <2>0. /\ captured # None
          /\ BeginSettles \/ StepSettles \/ EndLands \/ EndFails
          /\ pc # "down"
      BY <1>10 DEF SaveLands, SaveFails, BaseInv, RunInv, Counts
    <2>1. CASE BeginSettles
      BY <2>0, <2>1, CallSame DEF BeginSettles, run
    <2>2. CASE StepSettles
      <3>1. pc' \in {"ending", "dispatch", "record"} /\ pc = "checkpoint"
        BY <2>2 DEF StepSettles, Proceed, EndRun
      <3> QED
        BY <2>2, <3>1, CallSame DEF StepSettles
    <2>3. CASE EndLands
      <3>1. pc = "ending"
        BY <2>0, <2>3, EndIsHead DEF EndLands, BaseInv
      <3>2. \A m \in Node \ {Root} : op'[m] = op[m]
        BY <1>0, <2>3, DropTypes DEF EndLands
      <3>3. /\ op' = [op EXCEPT ![Root] = [L!Idle EXCEPT !.phase = "pruning",
                        !.todo = L!LivePaths \cap L!Positional, !.forget = L!Positional]]
            /\ UNCHANGED <<up, live>>
        BY <2>3 DEF EndLands, L!DropPaths, L!StartPrune
      <3>4. op'[Root].phase = "pruning" /\ op'[Root].todo = L!LivePaths \cap L!Positional
        BY <1>0, <3>3 DEF L!Idle
      <3>5. \A p \in Path : live'[p] # L!NoSeq => p \in op'[Root].todo
        BY <3>3, <3>4 DEF L!LivePaths, L!Positional
      <3>6. \A n \in Node : op'[n].forget # {} => op'[n].phase # "idle"
        BY <3>1, <3>2, <3>4 DEF CallInv
      <3>7. pc' = "dropping"
        BY <2>3 DEF EndLands
      <3> QED
        BY <2>0, <3>3, <3>4, <3>5, <3>6, <3>7 DEF CallInv
    <2>4. CASE EndFails
      <3>1. pc = "ending"
        BY <2>0, <2>4, EndIsHead DEF EndFails, BaseInv
      <3> QED
        BY <2>4, <3>1, CallSame DEF EndFails
    <2> QED
      BY <2>0, <2>1, <2>2, <2>3, <2>4
  <1>11. CASE Dropped
    <2>1. pc = "dropping" /\ op[Root].phase = "idle" /\ UNCHANGED ledger /\ pc' = "ready"
      BY <1>11 DEF Dropped
    <2>2. cur = Root
      BY <2>1 DEF BaseInv, RunInv, Counts, Running
    <2>3. \A n \in Node : op[n].phase = "idle"
      BY <2>1, <2>2 DEF Calls, Running
    <2> QED
      BY <2>1, <2>3, CallSame DEF ledger
  <1>12. CASE StepFails \/ Crash
    <2>1. /\ op' = [n \in Node |-> L!Idle] /\ pc' \in {"ready", "down"}
          /\ up' <=> pc' # "down"
      BY <1>12 DEF StepFails, Crash, L!Crash, CallInv
    <2> QED
      BY <2>1, CallIdle
  <1>13. CASE Restore
    <2>1. pc = "down" /\ op' = op /\ up' = TRUE /\ pc' = "ready"
      BY <1>0, <1>13, ReadTypes DEF Restore, L!Load
    <2> QED
      BY <2>1 DEF CallInv
  <1>14. CASE UNCHANGED vars
    BY <1>14 DEF vars, ledger, run, CallInv, PathOf
  <1> QED
    BY <1>1, <1>2, <1>3, <1>4, <1>5, <1>6, <1>7, <1>8, <1>9, <1>10, <1>11, <1>12, <1>13, <1>14
       DEF Next, RunStep

LEMMA KeysAwaited ==
  ASSUME BaseInv, Calls, CallInv, KeysInv, Recording \/ Dropping
  PROVE  KeysInv'
  <1>1. /\ pc \in {"recording", "dropping"} /\ Awaited(cur) /\ cur \in Node /\ LedgerInv /\ up
    BY AwaitedBase DEF BaseInv, RunInv, RunTypes, CallInv
  <1>2. \A m \in Node \ {cur} : op'[m] = op[m]
    BY <1>1, AwaitedTypes
  <1>3. Alone(cur)
    BY <1>1, <1>2 DEF Calls, Alone
  <1>4. CASE L!Finish(cur)
    <2>1. op'[cur] = L!Idle /\ op[cur].phase = "pruning" /\ UNCHANGED <<rows, up, live, nextSeq, lost>>
      BY <1>1, <1>4 DEF L!Finish, LedgerInv, L!TypeOK
    <2>2. \A n \in Node : op'[n] = op[n] \/ (op[n].phase \in Quiet /\ op'[n].phase \in Quiet)
      BY <1>2, <2>1, IdleForgets DEF Quiet
    <2> QED
      BY <2>1, <2>2, KeysSame
  <1> QED
    BY <1>1, <1>3, <1>4, KeysAppend, KeysAppendFails, KeysAck, KeysDelete, KeysPrune DEF Awaited

LEMMA KeysStep == BaseInv /\ Calls /\ CallInv /\ KeysInv /\ [Next]_vars => KeysInv'
  <1> SUFFICES ASSUME BaseInv, Calls, CallInv, KeysInv, [Next]_vars PROVE KeysInv'
    OBVIOUS
  <1>0. cur \in Node /\ Root \in Node /\ LedgerInv /\ op \in [Node -> L!Call]
    BY WorkflowAssumption DEF BaseInv, RunInv, RunTypes, LedgerInv, L!TypeOK
  <1>1. ASSUME UNCHANGED <<rows, up, live, nextSeq, op, lost>> PROVE KeysInv'
    BY <1>1, KeysSame
  <1>2. CASE UNCHANGED ledger
    BY <1>1, <1>2 DEF ledger
  <1>3. ASSUME NEW v \in Value, Retry(v) PROVE KeysInv'
    <2>1. pc = "ready" /\ L!Adopt({})
      BY <1>3 DEF Retry, MayStart
    <2> QED
      BY <1>0, <2>1, KeysRead, NoCalls DEF Running
  <1>4. CASE Run
    <2>1. /\ op'[cur] = [L!Idle EXCEPT !.phase = "running", !.path = PathOf(cur), !.hash = inp[cur]]
          /\ op[cur].phase = "idle" /\ \A m \in Node \ {cur} : op'[m] = op[m]
      BY <1>4, RunBase
    <2>2. op'[cur].phase = "running"
      BY <2>1 DEF L!Idle
    <2>3. UNCHANGED <<rows, up, live, nextSeq, lost>>
      BY <1>4 DEF Run, L!Dispatch
    <2>4. \A n \in Node : op'[n] = op[n] \/ (op[n].phase \in Quiet /\ op'[n].phase \in Quiet)
      BY <2>1, <2>2 DEF Quiet
    <2> QED
      BY <2>3, <2>4, KeysSame
  <1>5. CASE Record
    <2> DEFINE v == [out |-> out[cur], items |-> ItemsOf(cur)]
    <2>1. L!Record(cur, v) /\ pc = "record"
      BY <1>5 DEF Record
    <2>2. out[cur] \in Value /\ log \in Seq(Item) /\ mark[cur] \in Nat
      BY <1>0, <2>1 DEF BaseInv, RunInv, RunTypes, Values, Settled, Log
    <2>3. v \in Recorded
      BY <2>2 DEF ItemsOf, Log, Recorded
    <2>4. up
      BY <2>1 DEF CallInv
    <2> HIDE DEF v
    <2> QED
      BY <1>0, <2>1, <2>3, <2>4, KeysRecord
  <1>6. CASE Recording \/ Dropping
    BY <1>6, KeysAwaited
  <1>7. CASE EndLands
    <2>1. /\ op[Root].phase = "idle"
          /\ op' = [op EXCEPT ![Root] = [L!Idle EXCEPT !.phase = "pruning",
                        !.todo = L!LivePaths \cap L!Positional, !.forget = L!Positional]]
          /\ UNCHANGED <<rows, up, live, nextSeq, lost>>
      BY <1>7 DEF EndLands, L!DropPaths, L!StartPrune
    <2>2. op'[Root].phase = "pruning" /\ \A m \in Node \ {Root} : op'[m] = op[m]
      BY <1>0, <2>1 DEF L!Idle
    <2>3. \A n \in Node : op'[n] = op[n] \/ (op[n].phase \in Quiet /\ op'[n].phase \in Quiet)
      BY <2>1, <2>2 DEF Quiet
    <2> QED
      BY <2>1, <2>3, KeysSame
  <1>8. CASE BeginSettles \/ StepSettles \/ EndFails
    BY <1>1, <1>8 DEF BeginSettles, StepSettles, EndFails
  <1>9. CASE StepFails
    <2>1. UNCHANGED <<rows, up, live, nextSeq, lost>> /\ pc = "body"
          /\ \A n \in Node : op'[n] = L!Idle
      BY <1>9 DEF StepFails
    <2>2. \A n \in Node : op[n].phase \in Quiet /\ op'[n].phase \in Quiet
      BY <2>1, IdleForgets DEF Calls, Quiet
    <2> QED
      BY <2>1, <2>2, KeysSame
  <1>10. CASE Crash
    <2>1. rows' = rows /\ up' = FALSE /\ live' = [p \in Path |-> L!NoSeq]
          /\ \A n \in Node : op'[n] = L!Idle
      BY <1>10 DEF Crash, L!Crash
    <2>2. \A n \in Node : op'[n].phase = "idle"
      BY <2>1, IdleForgets
    <2>3. L!LiveIsStored' /\ L!NoLeakedRow'
      BY <2>1 DEF L!LiveIsStored, L!NoLeakedRow
    <2> QED
      BY <2>1, <2>2, <2>3 DEF KeysInv
  <1>11. CASE Restore
    <2>1. pc = "down" /\ L!Load({})
      BY <1>11 DEF Restore
    <2> QED
      BY <1>0, <2>1, KeysRead, NoCalls DEF Running
  <1>12. ASSUME NEW v \in Value, Start(v) \/ Answer(v) PROVE KeysInv'
    BY <1>2, <1>12 DEF Start, Answer
  <1>13. CASE Replay \/ Checkpoint \/ Capture \/ Dropped \/ UNCHANGED vars
    BY <1>2, <1>13 DEF Replay, Checkpoint, Capture, Dropped, vars
  <1> QED
    BY <1>3, <1>4, <1>5, <1>6, <1>7, <1>8, <1>9, <1>10, <1>11, <1>12, <1>13
       DEF Next, RunStep, SaveLands, SaveFails

-----------------------------------------------------------------------------
(* What the ledger would answer. *)

Answerable(p) == \E r \in replayable : r.path = p

(* It is stored and live, and a step that runs is not answered a second time. *)
ReplayInv ==
  /\ \A r \in replayable : r \in rows /\ live[r.path] = r.seq
  /\ pc \in Running => \A n \in Node : op[n].phase # "idle" => ~Answerable(PathOf(n))

(* A live row stays in storage. *)
LEMMA LiveRowStays ==
  ASSUME LedgerInv, KeysInv, NEW n \in Node, Awaited(n),
         NEW r \in rows, NEW p \in Path, live[p] = r.seq
  PROVE  r \in rows'
  <1>1. CASE L!Append(n) \/ L!AppendFails(n)
    <2>1. op[n].phase = "appending" /\ (rows' = rows \/ rows' = L!Put(op[n].row))
      BY <1>1 DEF L!Append, L!AppendFails
    <2>2. r.seq # op[n].row.seq
      BY <2>1 DEF KeysInv
    <2> QED
      BY <2>1, <2>2 DEF L!Put
  <1>2. CASE L!Replaced(n) \/ L!Pruned(n)
    <2>1. op[n].phase \in {"replacing", "deleting"} /\ L!DeleteRow(op[n].victim)
      BY <1>2 DEF L!Replaced, L!Pruned
    <2>2. r.seq # op[n].victim
      BY <2>1 DEF KeysInv
    <2> QED
      BY <2>1, <2>2 DEF L!DeleteRow
  <1>3. CASE L!Ack(n) \/ L!Finish(n)
    BY <1>3 DEF L!Ack, L!Finish
  <1>4. CASE L!Prune(n)
    BY <1>4 DEF L!Prune
  <1> QED
    BY <1>1, <1>2, <1>3, <1>4 DEF Awaited

(* What is live at a path changes where a row is acknowledged or a path is pruned,
   and what is replayable at a path that stays live is never forgotten. *)
LEMMA AwaitedTouches ==
  ASSUME LedgerInv, NEW n \in Node, Awaited(n), NEW p \in Path,
         op[n].phase = "acking" => p # op[n].row.path,
         op[n].phase = "pruning" /\ op[n].todo = {} => p \notin op[n].forget
  PROVE  /\ live'[p] = live[p] \/ (op[n].phase = "pruning" /\ p \in op[n].todo)
         /\ live'[p] # L!NoSeq =>
              live'[p] = live[p] /\ \A r \in replayable : r.path = p => r \in replayable'
  <1>1. CASE L!Append(n) \/ L!AppendFails(n) \/ L!Replaced(n) \/ L!Pruned(n)
    BY <1>1 DEF L!Append, L!AppendFails, L!Replaced, L!Pruned
  <1>2. CASE L!Ack(n)
    <2>1. op[n].phase = "acking" /\ replayable' = replayable
          /\ live' = [live EXCEPT ![op[n].row.path] = op[n].row.seq]
      BY <1>2 DEF L!Ack
    <2>2. live \in [Path -> Nat \cup {L!NoSeq}]
      BY DEF LedgerInv, L!TypeOK
    <2> QED
      BY <2>1, <2>2
  <1>3. CASE L!Finish(n)
    BY <1>3 DEF L!Finish
  <1>4. CASE L!Prune(n)
    <2>1. PICK q \in op[n].todo :
             /\ q \in Path /\ op[n].phase = "pruning"
             /\ live'[q] = L!NoSeq /\ \A t \in Path : t # q => live'[t] = live[t]
             /\ UNCHANGED <<rows, up, nextSeq, lost>>
             /\ op'[n].todo = op[n].todo \ {q} /\ op'[n].forget = op[n].forget
             /\ \/ live[q] = L!NoSeq /\ op'[n].phase = "pruning" /\ replayable' = replayable
                \/ /\ live[q] # L!NoSeq /\ op'[n].phase = "deleting" /\ op'[n].victim = live[q]
                   /\ replayable' = {r \in replayable : r.path # q}
      BY <1>4, PruneIs
    <2>2. CASE p = q
      BY <2>1, <2>2
    <2>3. CASE p # q
      BY <2>1, <2>3
    <2> QED
      BY <2>2, <2>3
  <1> QED
    BY <1>1, <1>2, <1>3, <1>4 DEF Awaited

LEMMA ReplaySame ==
  ASSUME ReplayInv, UNCHANGED <<rows, live>>, replayable' \subseteq replayable,
         pc' \in Running =>
           \/ \A n \in Node : op'[n].phase = "idle"
           \/ /\ pc \in Running /\ runOrd' = runOrd
              /\ \A n \in Node : op'[n].phase # "idle" => op[n].phase # "idle"
  PROVE  ReplayInv'
  <1>1. pc' \in Running => \A n \in Node : op'[n].phase # "idle" => ~Answerable(PathOf(n))'
    BY DEF ReplayInv, Answerable, PathOf
  <1> QED
    BY <1>1 DEF ReplayInv

LEMMA ReplayAwaited ==
  ASSUME BaseInv, Calls, CallInv, KeysInv, ReplayInv, Recording \/ Dropping
  PROVE  ReplayInv'
  <1>1. /\ pc \in {"recording", "dropping"} /\ Awaited(cur) /\ UNCHANGED run /\ cur \in Node
        /\ LedgerInv /\ op[cur].phase # "idle"
    <2>1. pc \in {"recording", "dropping"} /\ Awaited(cur) /\ UNCHANGED run
      BY AwaitedBase
    <2>2. op[cur].phase # "idle"
      BY <2>1 DEF Awaited, L!Append, L!AppendFails, L!Ack, L!Replaced, L!Prune, L!Pruned, L!Finish
    <2> QED
      BY <2>1, <2>2 DEF BaseInv, RunInv, RunTypes
  <1>2. replayable' \subseteq replayable /\ \A m \in Node \ {cur} : op'[m] = op[m]
    BY <1>1, AwaitedTypes
  <1>3. replayable \subseteq L!Row /\ live \in [Path -> Nat \cup {L!NoSeq}]
    BY <1>1 DEF LedgerInv, L!TypeOK
  <1>4. ASSUME NEW r \in replayable'
        PROVE  r \in rows' /\ live'[r.path] = r.seq
    <2>1. r \in replayable /\ r \in rows /\ live[r.path] = r.seq /\ r.path \in Path /\ r.seq \in Nat
      BY <1>2, <1>3 DEF ReplayInv, L!Row
    <2>2. r \in rows'
      BY <1>1, <2>1, LiveRowStays
    <2>3. CASE L!Append(cur) \/ L!AppendFails(cur) \/ L!Replaced(cur) \/ L!Pruned(cur) \/ L!Finish(cur)
      BY <2>1, <2>2, <2>3 DEF L!Append, L!AppendFails, L!Replaced, L!Pruned, L!Finish
    <2>4. CASE L!Ack(cur)
      <3>1. op[cur].phase = "acking" /\ live' = [live EXCEPT ![op[cur].row.path] = op[cur].row.seq]
        BY <2>4 DEF L!Ack
      <3>2. pc = "recording"
        <4>1. pc = "dropping" => cur = Root
          BY DEF BaseInv, RunInv, Counts, Running
        <4> QED
          BY <1>1, <3>1, <4>1 DEF CallInv
      <3>3. ~Answerable(PathOf(cur)) /\ op[cur].row.path = PathOf(cur)
        BY <1>1, <3>1, <3>2 DEF ReplayInv, CallInv, Running
      <3>4. r.path # op[cur].row.path
        BY <2>1, <3>3 DEF Answerable
      <3> QED
        BY <1>3, <2>1, <2>2, <3>1, <3>4
    <2>5. CASE L!Prune(cur)
      <3>1. PICK q \in op[cur].todo :
               /\ q \in Path /\ op[cur].phase = "pruning"
               /\ live'[q] = L!NoSeq /\ \A t \in Path : t # q => live'[t] = live[t]
               /\ UNCHANGED <<rows, up, nextSeq, lost>>
               /\ op'[cur].todo = op[cur].todo \ {q} /\ op'[cur].forget = op[cur].forget
               /\ \/ live[q] = L!NoSeq /\ op'[cur].phase = "pruning" /\ replayable' = replayable
                  \/ /\ live[q] # L!NoSeq /\ op'[cur].phase = "deleting" /\ op'[cur].victim = live[q]
                     /\ replayable' = {t \in replayable : t.path # q}
        BY <1>1, <2>5, PruneIs
      <3>2. r.path # q
        BY <2>1, <3>1 DEF L!NoSeq
      <3> QED
        BY <2>1, <2>2, <3>1, <3>2
    <2> QED
      BY <1>1, <2>3, <2>4, <2>5 DEF Awaited
  <1>5. ASSUME pc' \in Running, NEW n \in Node, op'[n].phase # "idle"
        PROVE  ~Answerable(PathOf(n))'
    <2>1. pc \in Running /\ op[n].phase # "idle" /\ runOrd' = runOrd
      BY <1>1, <1>2, <1>5 DEF run
    <2>2. ~Answerable(PathOf(n))
      BY <2>1 DEF ReplayInv
    <2> QED
      BY <1>2, <2>1, <2>2 DEF Answerable, PathOf
  <1> QED
    BY <1>4, <1>5 DEF ReplayInv

LEMMA ReplayStep == BaseInv /\ Calls /\ CallInv /\ KeysInv /\ ReplayInv /\ [Next]_vars => ReplayInv'
  <1> SUFFICES ASSUME BaseInv, Calls, CallInv, KeysInv, ReplayInv, [Next]_vars PROVE ReplayInv'
    OBVIOUS
  <1>0. cur \in Node /\ Root \in Node /\ LedgerInv /\ op \in [Node -> L!Call]
    BY WorkflowAssumption DEF BaseInv, RunInv, RunTypes, LedgerInv, L!TypeOK
  <1>1. ASSUME NEW v \in Value, Start(v) PROVE ReplayInv'
    <2>1. pc = "ready" /\ UNCHANGED <<rows, live, replayable, op>>
      BY <1>1 DEF Start, MayStart, ledger
    <2>2. \A n \in Node : op'[n].phase = "idle"
      BY <2>1, NoCalls DEF Running
    <2> QED
      BY <2>1, <2>2, ReplaySame
  <1>2. ASSUME NEW v \in Value, Retry(v) PROVE ReplayInv'
    <2>1. pc = "ready" /\ L!Adopt({})
      BY <1>2 DEF Retry, MayStart
    <2>2. \A n \in Node : op[n].phase = "idle"
      BY <2>1, NoCalls DEF Running
    <2>3. rows' = rows /\ op' = op /\ \A r \in replayable' : r \in rows /\ live'[r.path] = r.seq
      BY <1>0, <2>1, <2>2, KeysRead
    <2> QED
      BY <2>2, <2>3 DEF ReplayInv
  <1>3. CASE Run
    <2>1. /\ op[cur].phase = "idle" /\ \A m \in Node \ {cur} : op'[m] = op[m]
          /\ replayable' \subseteq replayable /\ L!Answers(PathOf(cur), inp[cur]) = {}
      BY <1>3, RunBase
    <2>2. L!Take(PathOf(cur), inp[cur]) /\ UNCHANGED <<rows, live, runOrd>> /\ pc = "dispatch"
      BY <1>3 DEF Run, L!Dispatch
    <2>3. \A r \in replayable' : r.path # PathOf(cur)
      BY <2>1, <2>2 DEF L!Take, L!Diverged
    <2>4. ASSUME NEW n \in Node, op'[n].phase # "idle" PROVE ~Answerable(PathOf(n))'
      <3>1. CASE n = cur
        BY <2>2, <2>3, <3>1 DEF Answerable, PathOf
      <3>2. CASE n # cur
        <4>1. op[n].phase # "idle"
          BY <2>1, <2>4, <3>2
        <4>2. ~Answerable(PathOf(n))
          BY <2>2, <4>1 DEF ReplayInv, Running
        <4> QED
          BY <2>1, <2>2, <4>2 DEF Answerable, PathOf
      <3> QED
        BY <3>1, <3>2
    <2> QED
      BY <2>1, <2>2, <2>4 DEF ReplayInv
  <1>4. CASE Record
    <2>1. UNCHANGED <<rows, live, replayable, runOrd>> /\ pc = "record"
      BY <1>4 DEF Record, L!Record
    <2>2. op[cur].phase = "running" /\ \A m \in Node \ {cur} : op'[m] = op[m]
      BY <1>4, RecordBase
    <2> QED
      BY <2>1, <2>2, ReplaySame DEF Running
  <1>5. CASE Recording \/ Dropping
    BY <1>5, ReplayAwaited
  <1>6. ASSUME UNCHANGED <<rows, live, replayable, op>>,
               pc' \in Running => pc \in Running /\ runOrd' = runOrd
        PROVE  ReplayInv'
    BY <1>6, ReplaySame
  <1>7. CASE EndLands \/ EndFails
    <2>1. UNCHANGED <<rows, live, replayable>> /\ pc' \notin Running
      BY <1>7 DEF EndLands, EndFails, L!DropPaths, L!StartPrune, Running
    <2> QED
      BY <2>1, ReplaySame
  <1>8. CASE BeginSettles \/ StepSettles
    BY <1>6, <1>8 DEF BeginSettles, StepSettles, run, Running
  <1>9. CASE StepFails
    BY <1>9, ReplaySame DEF StepFails, Running
  <1>10. CASE Crash
    <2>1. replayable' = {} /\ pc' \notin Running
      BY <1>10 DEF Crash, L!Crash, Running
    <2> QED
      BY <2>1 DEF ReplayInv
  <1>11. CASE Restore
    <2>1. pc = "down" /\ L!Load({}) /\ pc' \notin Running
      BY <1>11 DEF Restore, Running
    <2>2. rows' = rows /\ \A r \in replayable' : r \in rows /\ live'[r.path] = r.seq
      BY <1>0, <2>1, NoCalls, KeysRead DEF Running
    <2> QED
      BY <2>1, <2>2 DEF ReplayInv
  <1>12. CASE Replay \/ Checkpoint \/ Capture \/ Dropped \/ UNCHANGED vars
    <2>1. UNCHANGED ledger
      BY <1>12 DEF Replay, Checkpoint, Capture, Dropped, vars
    <2>2. pc' \in Running => pc \in Running /\ runOrd' = runOrd
      BY <1>12 DEF Replay, Checkpoint, Capture, Dropped, vars, run, Running
    <2> QED
      BY <1>6, <2>1, <2>2 DEF ledger
  <1>13. ASSUME NEW v \in Value, Answer(v) PROVE ReplayInv'
    BY <1>6, <1>13 DEF Answer, ledger, Running
  <1> QED
    BY <1>1, <1>2, <1>3, <1>4, <1>5, <1>7, <1>8, <1>9, <1>10, <1>11, <1>12, <1>13
       DEF Next, RunStep, SaveLands, SaveFails

-----------------------------------------------------------------------------
(* What a run will be answered when it comes to a step. *)

(* A step above n runs on another input than its live row was recorded on. *)
Overtaken(n) ==
  \E a \in Node :
    /\ n \in Beneath[a] /\ op[a].phase = "running"
    /\ \E r \in rows : /\ r.path = op[a].path /\ r.hash # op[a].hash
                       /\ live[r.path] = r.seq

(* A live entry is answerable until the run has come to its step, or to a step
   above it that diverged; those of later runs are answerable. *)
ComingInv ==
  pc \in Running =>
    \A n \in Ahead : live[PathOf(n)] # L!NoSeq => Answerable(PathOf(n)) \/ Overtaken(n)

LaterInv ==
  pc \in Running \/ baseline = None =>
    \A p \in Path : ordinal <= p.ord /\ live[p] # L!NoSeq => Answerable(p)

LEMMA PathTyped ==
  ASSUME RunInv, NEW n \in Node
  PROVE  PathOf(n) \in Path /\ PathOf(n).ord = runOrd /\ PathOf(n).node = n
  BY DEF RunInv, RunTypes, PathOf, Path

LEMMA UnderIs ==
  ASSUME NEW p \in Path, NEW q \in Under[p]
  PROVE  q.ord = p.ord /\ q.node \in Beneath[p.node]
  BY DEF Under, Path

LEMMA AheadTyped == cur \in Node => Ahead \subseteq Node
  BY WorkflowAssumption DEF Ahead, After, Tree

LEMMA LaterSame ==
  ASSUME BaseInv, LaterInv, UNCHANGED <<live, replayable>>, ordinal' = ordinal \/ ordinal' = ordinal + 1,
         pc' \in Running \/ baseline' = None => pc \in Running \/ baseline = None
  PROVE  LaterInv'
  <1>1. ordinal \in Nat /\ \A p \in Path : p.ord \in Nat
    BY OrdinalIs DEF BaseInv, RunInv, RunTypes, Path, Ordinal
  <1>2. \A p \in Path : ordinal' <= p.ord => ordinal <= p.ord
    BY <1>1
  <1> QED
    BY <1>2 DEF LaterInv, Answerable

LEMMA LaterAwaited ==
  ASSUME BaseInv, Calls, CallInv, LaterInv, Recording \/ Dropping
  PROVE  LaterInv'
  <1>1. /\ pc \in {"recording", "dropping"} /\ Awaited(cur) /\ UNCHANGED <<ctx, run>> /\ cur \in Node
        /\ LedgerInv
    BY AwaitedBase DEF BaseInv, RunInv, RunTypes
  <1>2. pc \in Running \/ baseline = None
    BY <1>1 DEF Running, BaseInv, RunInv, Counts
  <1>3. ASSUME NEW p \in Path, ordinal <= p.ord, live'[p] # L!NoSeq
        PROVE  Answerable(p)'
    <2>1. op[cur].phase = "acking" => p # op[cur].row.path
      <3>1. CASE pc = "recording"
        <4>1. ordinal = runOrd + 1 /\ runOrd \in Nat
          BY <3>1, OrdinalIs DEF BaseInv, RunInv, RunTypes, Counts, Running
        <4>2. op[cur].phase = "acking" => op[cur].row.path.ord = runOrd
          BY <1>1, <3>1, PathTyped DEF CallInv, BaseInv
        <4> QED
          BY <1>3, <4>1, <4>2
      <3>2. CASE pc = "dropping"
        <4>1. cur = Root
          BY <3>2 DEF BaseInv, RunInv, Counts, Running
        <4> QED
          BY <3>2, <4>1 DEF CallInv
      <3> QED
        BY <1>1, <3>1, <3>2
    <2>2. live'[p] = live[p] \/ op[cur].phase # "pruning" \/ op[cur].todo # {}
      BY <1>1 DEF Awaited, L!Append, L!AppendFails, L!Replaced, L!Pruned, L!Finish, L!Ack, L!Prune
    <2>3. op[cur].phase = "pruning" /\ op[cur].todo = {} => p \notin op[cur].forget
      <3> SUFFICES ASSUME op[cur].phase = "pruning", op[cur].todo = {}, p \in op[cur].forget
                   PROVE  FALSE
        OBVIOUS
      <3>1. pc = "dropping" /\ live[p] # L!NoSeq
        BY <1>1, <1>3, <2>2 DEF CallInv
      <3>2. cur = Root
        BY <3>1 DEF BaseInv, RunInv, Counts, Running
      <3> QED
        BY <3>1, <3>2 DEF CallInv
    <2>4. live'[p] = live[p] /\ \A r \in replayable : r.path = p => r \in replayable'
      BY <1>1, <1>3, <2>1, <2>3, AwaitedTouches
    <2>5. Answerable(p)
      BY <1>2, <1>3, <2>4 DEF LaterInv
    <2> QED
      BY <2>4, <2>5 DEF Answerable
  <1> QED
    BY <1>1, <1>3 DEF LaterInv, ctx

LEMMA LaterStep == BaseInv /\ Calls /\ CallInv /\ KeysInv /\ LaterInv /\ [Next]_vars => LaterInv'
  <1> SUFFICES ASSUME BaseInv, Calls, CallInv, KeysInv, LaterInv, [Next]_vars PROVE LaterInv'
    OBVIOUS
  <1>0. cur \in Node /\ Root \in Node /\ LedgerInv
    BY WorkflowAssumption DEF BaseInv, RunInv, RunTypes
  <1>1. ASSUME NEW v \in Value, Start(v) PROVE LaterInv'
    <2>1. baseline = None /\ UNCHANGED ledger /\ ordinal' = ordinal + 1
      BY <1>1 DEF Start, BeginRun
    <2> QED
      BY <2>1, LaterSame DEF ledger
  <1>2. ASSUME NEW v \in Value, Retry(v) PROVE LaterInv'
    <2>1. pc = "ready" /\ L!Adopt({})
      BY <1>2 DEF Retry, MayStart
    <2>2. \A p \in Path : live'[p] # L!NoSeq => \E r \in replayable' : r.path = p
      BY <1>0, <2>1, NoCalls, KeysRead DEF Running
    <2> QED
      BY <2>2 DEF LaterInv, Answerable
  <1>3. CASE Run
    <2>1. /\ pc = "dispatch" /\ UNCHANGED <<live, ctx>> /\ L!Take(PathOf(cur), inp[cur])
      BY <1>3 DEF Run, L!Dispatch
    <2>2. ordinal = runOrd + 1 /\ runOrd \in Nat
      BY <2>1, OrdinalIs DEF BaseInv, RunInv, RunTypes, Counts, Running
    <2>3. ASSUME NEW p \in Path, ordinal <= p.ord, live'[p] # L!NoSeq
          PROVE  Answerable(p)'
      <3>1. PICK r \in replayable : r.path = p
        BY <2>1, <2>3 DEF LaterInv, Running, Answerable
      <3>2. r.path # PathOf(cur) /\ r.path \notin Under[PathOf(cur)]
        BY <1>0, <2>2, <2>3, <3>1, PathTyped, UnderIs DEF BaseInv
      <3>3. r \in replayable'
        BY <2>1, <3>2 DEF L!Take, L!Diverged
      <3> QED
        BY <3>1, <3>3 DEF Answerable
    <2> QED
      BY <2>1, <2>3 DEF LaterInv, ctx
  <1>4. CASE Record
    BY <1>4, LaterSame DEF Record, L!Record, ctx, Running
  <1>5. CASE Recording \/ Dropping
    BY <1>5, LaterAwaited
  <1>6. CASE Replay
    BY <1>6, LaterSame DEF Replay, ledger, Running
  <1>7. ASSUME NEW v \in Value, Answer(v) PROVE LaterInv'
    BY <1>7, LaterSame DEF Answer, ledger, Running
  <1>8. CASE Checkpoint \/ Capture \/ Dropped \/ UNCHANGED vars
    BY <1>8, LaterSame DEF Checkpoint, Capture, Dropped, vars, ledger, ctx, run, Running
  <1>9. ASSUME SaveLands \/ SaveFails PROVE LaterInv'
    <2>1. captured # None /\ ordinal' = ordinal
      BY <1>9 DEF SaveLands, SaveFails
    <2>2. CASE BeginSettles
      BY <2>1, <2>2, LaterSame DEF BeginSettles, run
    <2>3. CASE StepSettles
      BY <2>1, <2>3, LaterSame DEF StepSettles, Running
    <2>4. CASE EndLands \/ EndFails
      <3>1. UNCHANGED <<live, replayable, baseline>> /\ pc' \notin Running
        BY <2>4 DEF EndLands, EndFails, L!DropPaths, L!StartPrune, Running
      <3> QED
        BY <2>1, <3>1, LaterSame
    <2> QED
      BY <1>9, <2>2, <2>3, <2>4 DEF SaveLands, SaveFails
  <1>10. CASE StepFails
    <2>1. pc = "body" /\ pc' \notin Running /\ baseline' = baseline
      BY <1>10 DEF StepFails, Running
    <2>2. baseline # None
      BY <2>1 DEF BaseInv, RunInv, Counts, Running
    <2> QED
      BY <2>1, <2>2 DEF LaterInv
  <1>11. CASE Crash
    <2>1. \A p \in Path : live'[p] = L!NoSeq
      BY <1>11 DEF Crash, L!Crash
    <2> QED
      BY <2>1 DEF LaterInv, L!NoSeq
  <1>12. CASE Restore
    <2>1. pc = "down" /\ L!Load({})
      BY <1>12 DEF Restore
    <2>2. \A p \in Path : live'[p] # L!NoSeq => \E r \in replayable' : r.path = p
      BY <1>0, <2>1, NoCalls, KeysRead DEF Running
    <2> QED
      BY <2>2 DEF LaterInv, Answerable
  <1> QED
    BY <1>1, <1>2, <1>3, <1>4, <1>5, <1>6, <1>7, <1>8, <1>9, <1>10, <1>11, <1>12
       DEF Next, RunStep

LEMMA ComingSame ==
  ASSUME ComingInv, cur \in Node, UNCHANGED <<rows, live, replayable, op, runOrd>>,
         pc' \in Running => pc \in Running /\ Ahead' \subseteq Ahead
  PROVE  ComingInv'
  BY DEF ComingInv, Answerable, Overtaken, PathOf

LEMMA ComingRead ==
  ASSUME BaseInv', \A p \in Path : live'[p] # L!NoSeq => Answerable(p)'
  PROVE  ComingInv'
  <1>1. cur' \in Node /\ runOrd' \in Ordinal
    BY DEF BaseInv, RunInv, RunTypes
  <1>2. ASSUME NEW n \in Node PROVE PathOf(n)' \in Path
    BY <1>1 DEF PathOf, Path
  <1>3. Ahead' \subseteq Node
    BY <1>1, WorkflowAssumption DEF Ahead, After, Tree
  <1>4. ASSUME NEW n \in Node, live'[PathOf(n)'] # L!NoSeq PROVE Answerable(PathOf(n))'
    BY <1>2, <1>4 DEF Answerable
  <1> QED
    BY <1>3, <1>4 DEF ComingInv, L!NoSeq

(* A step that is not answered moves on to its first child, or starts; whatever its
   diverging entry takes along is beneath it. *)
LEMMA ComingRun ==
  ASSUME BaseInv, Calls, ReplayInv, ComingInv, Run
  PROVE  ComingInv'
  <1>1. /\ rows' = rows /\ L!Answers(PathOf(cur), inp[cur]) = {} /\ op[cur].phase = "idle"
        /\ op'[cur] = [L!Idle EXCEPT !.phase = "running", !.path = PathOf(cur), !.hash = inp[cur]]
        /\ \A m \in Node \ {cur} : op'[m] = op[m]
    BY RunBase
  <1>2. op'[cur].phase = "running" /\ op'[cur].path = PathOf(cur) /\ op'[cur].hash = inp[cur]
    BY <1>1 DEF L!Idle
  <1>3. /\ cur \in Node /\ pc = "dispatch" /\ UNCHANGED <<live, runOrd>>
        /\ L!Take(PathOf(cur), inp[cur])
    BY DEF Run, L!Dispatch, BaseInv, RunInv, RunTypes
  <1>4. Ahead = After(cur) \cup Tree(cur)
    BY <1>3 DEF Ahead
  <1>5. Ahead' \subseteq Ahead /\ cur \notin Ahead'
    <2>1. CASE cur \in Leaf
      <3>1. pc' = "body" /\ cur' = cur
        BY <2>1 DEF Run
      <3>2. Ahead' = After(cur)
        BY <3>1 DEF Ahead, After
      <3> QED
        BY <1>3, <1>4, <3>2, AfterIsApart DEF Tree
    <2>2. CASE cur \notin Leaf
      <3>1. cur' = FirstChild(cur) /\ pc' = "dispatch"
        BY <1>3, <2>2 DEF Run, FirstChild
      <3>2. Ahead' = After(FirstChild(cur)) \cup Tree(FirstChild(cur))
        BY <3>1 DEF Ahead, After
      <3>3. /\ FirstChild(cur) \in Node /\ FirstChild(cur) # cur /\ FirstChild(cur) \in Beneath[cur]
        BY <1>3, <2>2, FirstChildIs DEF Tree
      <3>4. cur \notin After(FirstChild(cur))
        BY <3>3, AfterIsApart
      <3>5. cur \notin Beneath[FirstChild(cur)]
        BY <1>3, <3>3, TreeAssumption
      <3> QED
        BY <1>3, <1>4, <2>2, <3>2, <3>3, <3>4, <3>5, AfterFirst DEF Tree
    <2> QED
      BY <2>1, <2>2
  <1>6. ASSUME NEW n \in Ahead', live[PathOf(n)] # L!NoSeq
        PROVE  (\E r \in replayable' : r.path = PathOf(n)) \/ Overtaken(n)'
    <2>1. n \in Ahead /\ n # cur /\ n \in Node
      BY <1>3, <1>5, <1>6, AheadTyped
    <2>2. Answerable(PathOf(n)) \/ Overtaken(n)
      BY <1>3, <1>6, <2>1 DEF ComingInv, Running
    <2>3. CASE Overtaken(n)
      <3>1. PICK a \in Node :
              /\ n \in Beneath[a] /\ op[a].phase = "running"
              /\ \E r \in rows : /\ r.path = op[a].path /\ r.hash # op[a].hash
                                 /\ live[r.path] = r.seq
        BY <2>3 DEF Overtaken
      <3>2. op'[a] = op[a]
        BY <1>1, <3>1
      <3> QED
        BY <1>1, <1>3, <3>1, <3>2 DEF Overtaken
    <2>4. CASE Answerable(PathOf(n))
      <3>1. PICK r \in replayable : r.path = PathOf(n)
        BY <2>4 DEF Answerable
      <3>2. CASE r \in replayable'
        BY <3>1, <3>2
      <3>3. CASE r \notin replayable'
        <4>1. /\ \E s \in replayable : s.path = PathOf(cur)
              /\ r.path = PathOf(cur) \/ r.path \in Under[PathOf(cur)]
          BY <1>3, <3>3 DEF L!Take, L!Diverged
        <4>2. n \in Beneath[cur]
          <5>1. PathOf(n).node = n /\ PathOf(cur).node = cur /\ PathOf(cur) \in Path
            BY <1>3, <2>1, PathTyped DEF BaseInv
          <5> QED
            BY <2>1, <3>1, <4>1, <5>1, UnderIs
        <4>3. PICK s \in replayable : s.path = PathOf(cur)
          BY <4>1
        <4>4. s \in rows /\ live[s.path] = s.seq
          BY <4>3 DEF ReplayInv
        <4>5. s.hash # inp[cur]
          BY <1>1, <4>3 DEF L!Answers, L!Matches
        <4> QED
          BY <1>1, <1>2, <1>3, <4>2, <4>3, <4>4, <4>5 DEF Overtaken
      <3> QED
        BY <3>2, <3>3
    <2> QED
      BY <2>2, <2>3, <2>4
  <1>7. \A n : PathOf(n)' = PathOf(n)
    BY <1>3 DEF PathOf
  <1> QED
    BY <1>3, <1>6, <1>7 DEF ComingInv, Answerable

LEMMA ComingRecord ==
  ASSUME BaseInv, ComingInv, Record
  PROVE  ComingInv'
  <1>1. /\ pc = "record" /\ pc' = "recording" /\ cur \in Node
        /\ UNCHANGED <<rows, live, replayable, runOrd, cur>>
    BY DEF Record, L!Record, BaseInv, RunInv, RunTypes
  <1>2. \A m \in Node \ {cur} : op'[m] = op[m]
    BY RecordBase
  <1>3. Ahead' = Ahead /\ Ahead = After(cur)
    BY <1>1 DEF Ahead, After
  <1>4. ASSUME NEW n \in After(cur), Overtaken(n) PROVE Overtaken(n)'
    <2>1. n \notin Beneath[cur]
      BY <1>1, AfterIsApart DEF Tree
    <2> QED
      BY <1>1, <1>2, <1>4, <2>1 DEF Overtaken
  <1> QED
    BY <1>1, <1>3, <1>4 DEF ComingInv, Answerable, PathOf, Running

LEMMA ComingAwaited ==
  ASSUME BaseInv, Calls, CallInv, KeysInv, ComingInv, Recording
  PROVE  ComingInv'
  <1>1. pc = "recording" /\ Awaited(cur) /\ UNCHANGED run /\ cur \in Node /\ LedgerInv
    BY AwaitedBase DEF BaseInv, RunInv, RunTypes, Recording
  <1>2. \A m \in Node \ {cur} : op'[m] = op[m]
    BY <1>1, AwaitedTypes
  <1>3. Ahead' = Ahead /\ Ahead = After(cur)
    BY <1>1 DEF Ahead, After, run
  <1>4. /\ op[cur].phase = "acking" => op[cur].row.path = PathOf(cur)
        /\ op[cur].phase = "pruning" => op[cur].todo \subseteq Under[PathOf(cur)]
        /\ op[cur].forget = {}
    BY <1>1 DEF CallInv
  <1>5. ASSUME NEW n \in Node, n # cur
        PROVE  /\ PathOf(n) \in Path /\ PathOf(n) # PathOf(cur)
               /\ live'[PathOf(n)] # L!NoSeq =>
                    /\ live'[PathOf(n)] = live[PathOf(n)]
                    /\ Answerable(PathOf(n)) => Answerable(PathOf(n))'
               /\ n \notin Beneath[cur] => live'[PathOf(n)] = live[PathOf(n)]
    <2>1. PathOf(n) \in Path /\ PathOf(n) # PathOf(cur) /\ PathOf(n).node = n
          /\ PathOf(cur) \in Path /\ PathOf(cur).node = cur
      BY <1>1, <1>5, PathTyped DEF BaseInv
    <2>2. /\ live'[PathOf(n)] = live[PathOf(n)]
             \/ (op[cur].phase = "pruning" /\ PathOf(n) \in op[cur].todo)
          /\ live'[PathOf(n)] # L!NoSeq =>
               /\ live'[PathOf(n)] = live[PathOf(n)]
               /\ \A r \in replayable : r.path = PathOf(n) => r \in replayable'
      BY <1>1, <1>4, <2>1, AwaitedTouches
    <2>3. PathOf(n)' = PathOf(n)
      BY <1>1 DEF PathOf, run
    <2>4. PathOf(n) \in Under[PathOf(cur)] => n \in Beneath[cur]
      BY <2>1, UnderIs
    <2> QED
      BY <1>4, <2>1, <2>2, <2>3, <2>4 DEF Answerable
  <1>6. ASSUME NEW n \in After(cur), Overtaken(n) PROVE Overtaken(n)'
    <2>1. PICK a \in Node :
            /\ n \in Beneath[a] /\ op[a].phase = "running"
            /\ \E r \in rows : /\ r.path = op[a].path /\ r.hash # op[a].hash
                               /\ live[r.path] = r.seq
      BY <1>6 DEF Overtaken
    <2>2. PICK r \in rows : r.path = op[a].path /\ r.hash # op[a].hash /\ live[r.path] = r.seq
      BY <2>1
    <2>3. op[a].path = PathOf(a) /\ a # cur /\ cur \in Beneath[a]
      <3>1. op[a].path = PathOf(a) /\ cur \in Beneath[a]
        BY <1>1, <2>1 DEF Calls
      <3> QED
        BY <1>1, <3>1, TreeAssumption
    <2>4. a \notin Beneath[cur]
      BY <1>1, <2>3, TreeAssumption
    <2>5. live'[r.path] = r.seq /\ r.path \in Path
      BY <1>5, <2>2, <2>3, <2>4
    <2>6. r \in rows'
      BY <1>1, <2>2, <2>5, LiveRowStays
    <2>7. op'[a] = op[a]
      BY <1>2, <2>3
    <2> QED
      BY <2>1, <2>2, <2>5, <2>6, <2>7 DEF Overtaken
  <1>7. ASSUME NEW n \in After(cur), live'[PathOf(n)] # L!NoSeq
        PROVE  Answerable(PathOf(n))' \/ Overtaken(n)'
    <2>1. n \in Node /\ n # cur
      BY <1>1, AfterIsApart DEF Tree
    <2>2. /\ live'[PathOf(n)] = live[PathOf(n)]
          /\ Answerable(PathOf(n)) => Answerable(PathOf(n))'
      BY <1>5, <1>7, <2>1
    <2>3. Answerable(PathOf(n)) \/ Overtaken(n)
      BY <1>1, <1>3, <1>7, <2>2 DEF ComingInv, Running
    <2> QED
      BY <1>6, <2>2, <2>3
  <1> QED
    BY <1>1, <1>3, <1>7 DEF ComingInv, PathOf, run

LEMMA ComingProceed ==
  ASSUME BaseInv, ComingInv, NEW answer, NEW waiting, Proceed(cur, answer, waiting),
         pc \in {"dispatch", "checkpoint"}, UNCHANGED <<rows, live, replayable, op, runOrd>>
  PROVE  ComingInv'
  <1>1. cur \in Node
    BY DEF BaseInv, RunInv, RunTypes
  <1>2. CASE cur = Root
    BY <1>1, <1>2, ComingSame DEF Proceed, EndRun, Running
  <1>3. CASE cur # Root
    <2>1. Ahead' \subseteq After(cur)
      BY <1>1, <1>3, ProceedAhead
    <2> QED
      BY <1>1, <2>1, ComingSame DEF Ahead, Running
  <1> QED
    BY <1>2, <1>3

LEMMA ComingStep ==
  /\ BaseInv /\ Calls /\ CallInv /\ KeysInv /\ ReplayInv /\ LaterInv /\ ComingInv
  /\ [Next]_vars
  => ComingInv'
  <1> SUFFICES ASSUME BaseInv, Calls, CallInv, KeysInv, ReplayInv, LaterInv, ComingInv, [Next]_vars
               PROVE  ComingInv'
    OBVIOUS
  <1>0. cur \in Node /\ Root \in Node /\ LedgerInv /\ BaseInv'
    BY WorkflowAssumption, BaseStep DEF BaseInv, RunInv, RunTypes
  <1>1. ASSUME NEW v \in Value, Start(v) PROVE ComingInv'
    <2>1. baseline = None /\ UNCHANGED ledger /\ pc' = "dispatch" /\ runOrd' = ordinal
      BY <1>1 DEF Start, BeginRun
    <2>2. ordinal \in Ordinal /\ cur' \in Node
      BY <1>0 DEF BaseInv, RunInv, RunTypes
    <2>3. ASSUME NEW n \in Node, live'[PathOf(n)'] # L!NoSeq PROVE Answerable(PathOf(n))'
      <3>1. PathOf(n)' \in Path /\ PathOf(n)'.ord = ordinal
        BY <2>1, <2>2 DEF PathOf, Path
      <3>2. ordinal <= PathOf(n)'.ord
        BY <2>2, <3>1, OrdinalIs
      <3>3. Answerable(PathOf(n)')
        BY <2>1, <2>3, <3>1, <3>2 DEF LaterInv, ledger
      <3> QED
        BY <2>1, <3>3 DEF Answerable, ledger
    <2>4. Ahead' \subseteq Node
      BY <2>2, WorkflowAssumption DEF Ahead, After, Tree
    <2> QED
      BY <2>3, <2>4 DEF ComingInv, L!NoSeq
  <1>2. ASSUME NEW v \in Value, Retry(v) PROVE ComingInv'
    <2>1. pc = "ready" /\ L!Adopt({})
      BY <1>2 DEF Retry, MayStart
    <2>2. \A p \in Path : live'[p] # L!NoSeq => Answerable(p)'
      BY <1>0, <2>1, NoCalls, KeysRead DEF Running, Answerable
    <2> QED
      BY <1>0, <2>2, ComingRead
  <1>3. CASE Replay
    <2>1. pc = "dispatch" /\ UNCHANGED <<ledger, runOrd>>
      BY <1>3 DEF Replay
    <2>2. PICK r \in L!Answers(PathOf(cur), inp[cur]) : Proceed(cur, r.val.out, chain)
      BY <1>3 DEF Replay
    <2> QED
      BY <2>1, <2>2, ComingProceed DEF ledger
  <1>4. CASE Run
    BY <1>4, ComingRun
  <1>5. CASE Record
    BY <1>5, ComingRecord
  <1>6. CASE Recording
    BY <1>6, ComingAwaited
  <1>7. ASSUME NEW v \in Value, Answer(v) PROVE ComingInv'
    <2>1. Ahead' = Ahead /\ pc \in Running /\ UNCHANGED <<ledger, runOrd>>
      BY <1>7 DEF Answer, Ahead, After, Running
    <2> QED
      BY <1>0, <2>1, ComingSame DEF ledger
  <1>8. CASE Checkpoint \/ Capture \/ UNCHANGED vars
    <2>1. /\ Ahead' = Ahead /\ UNCHANGED <<ledger, runOrd>>
          /\ pc' \in Running => pc \in Running
      BY <1>8 DEF Checkpoint, Capture, vars, run, Ahead, After, Running
    <2> QED
      BY <1>0, <2>1, ComingSame DEF ledger
  <1>9. CASE BeginSettles
    <2>1. Ahead' = Ahead /\ UNCHANGED <<rows, live, replayable, op, runOrd, pc>>
      BY <1>9 DEF BeginSettles, run, Ahead, After
    <2> QED
      BY <1>0, <2>1, ComingSame
  <1>10. CASE StepSettles
    <2>1. /\ pc = "checkpoint" /\ Proceed(cur, out[cur], Tail(chain))
          /\ UNCHANGED <<rows, live, replayable, op, runOrd>>
      BY <1>10 DEF StepSettles
    <2> QED
      BY <2>1, ComingProceed
  <1>11. CASE Dropping \/ EndLands \/ EndFails \/ Dropped \/ StepFails \/ Crash \/ Restore
    <2>1. pc' \notin Running
      BY <1>11 DEF Dropping, LedgerStep, run, EndLands, EndFails, Dropped, StepFails, Crash, Restore,
                   Running
    <2> QED
      BY <2>1 DEF ComingInv
  <1> QED
    BY <1>1, <1>2, <1>3, <1>4, <1>5, <1>6, <1>7, <1>8, <1>9, <1>10, <1>11
       DEF Next, RunStep, SaveLands, SaveFails

-----------------------------------------------------------------------------
(* A stored step is not run again. *)

Remembers == CallInv /\ KeysInv /\ ReplayInv /\ ComingInv /\ LaterInv

LEMMA RemembersInit == Init => Remembers
  <1> SUFFICES ASSUME Init PROVE Remembers
    OBVIOUS
  <1>1. /\ rows = {} /\ up = TRUE /\ replayable = {} /\ live = [p \in Path |-> L!NoSeq]
        /\ op = [n \in Node |-> L!Idle] /\ pc = "ready"
    BY DEF Init, L!Init
  <1>2. \A n \in Node : op[n].phase = "idle" /\ op[n].forget = {}
    BY <1>1, IdleForgets
  <1>3. CallInv
    BY <1>1, <1>2 DEF CallInv
  <1>4. KeysInv
    BY <1>1, <1>2 DEF KeysInv, L!LiveIsStored, L!NoLeakedRow
  <1>5. ReplayInv /\ ComingInv /\ LaterInv
    BY <1>1, <1>2 DEF ReplayInv, ComingInv, LaterInv, Running
  <1> QED
    BY <1>3, <1>4, <1>5 DEF Remembers

LEMMA RemembersKept == BaseInv /\ Calls /\ Remembers /\ [Next]_vars => Remembers'
  BY CallStep, KeysStep, ReplayStep, ComingStep, LaterStep DEF Remembers

(* Only a dispatch that is not answered starts a body. *)
LEMMA BodyIsRun ==
  ASSUME BaseInv, Calls, [Next]_vars, BodyStarts
  PROVE  Run
  <1>0. pc = "dispatch" /\ op[cur].phase = "idle" /\ op'[cur].phase = "running" /\ cur \in Node
    BY DEF BodyStarts, BaseInv, RunInv, RunTypes
  <1>1. op' # op
    BY <1>0
  <1>2. ASSUME NEW v \in Value, Start(v) \/ Retry(v) \/ Answer(v) PROVE FALSE
    BY <1>0, <1>2 DEF Start, Retry, MayStart, Answer
  <1>3. CASE Record \/ Recording \/ Dropping \/ Dropped \/ StepFails \/ Restore \/ Checkpoint
    BY <1>0, <1>3 DEF Record, Recording, Dropping, Dropped, StepFails, Restore, Checkpoint
  <1>4. CASE Replay \/ Capture \/ UNCHANGED vars
    BY <1>1, <1>4 DEF Replay, Capture, vars, ledger
  <1>5. CASE BeginSettles \/ StepSettles
    BY <1>1, <1>5 DEF BeginSettles, StepSettles
  <1>6. CASE captured # None /\ (EndLands \/ EndFails)
    BY <1>0, <1>6, EndIsHead DEF EndLands, EndFails, BaseInv
  <1>7. CASE Crash
    BY <1>0, <1>7, IdleForgets DEF Crash, L!Crash
  <1> QED
    BY <1>2, <1>3, <1>4, <1>5, <1>6, <1>7 DEF Next, RunStep, SaveLands, SaveFails

(* A step whose result on this input is stored does not run again, unless a
   step above it has its live result on another input, however runs fail,
   crash and are retried on other inputs (step-ledger.ts:438-470). *)
THEOREM StoredStepsNotRerun == Spec => StoredStepNotRerun
  <1>1. /\ Init => RunStory /\ Remembers
        /\ RunStory /\ Remembers /\ [Next]_vars => (RunStory /\ Remembers)'
    BY StoryInit, StoryKept, RemembersInit, RemembersKept DEF RunStory
  <1>2. RunStory /\ Remembers /\ [Next]_vars => [RerunsOnlyOvertaken]_vars
    <2> SUFFICES ASSUME BaseInv, Calls, Remembers, [Next]_vars, BodyStarts, Stored(cur, inp[cur])
                 PROVE  \E a \in Node :
                          /\ cur \in Beneath[a]
                          /\ \E r \in rows : /\ r.path = PathOf(a) /\ r.hash # inp[a]
                                             /\ live[r.path] = r.seq
      BY DEF RunStory, RerunsOnlyOvertaken
    <2>1. Run /\ CallInv /\ KeysInv /\ ReplayInv /\ ComingInv
      BY BodyIsRun DEF Remembers
    <2>2. /\ pc = "dispatch" /\ L!Answers(PathOf(cur), inp[cur]) = {}
          /\ cur \in Node /\ LedgerInv /\ up
      BY <2>1 DEF Run, BaseInv, RunInv, RunTypes, CallInv
    <2>3. PICK r \in rows : r.path = PathOf(cur) /\ r.hash = inp[cur] /\ r.seq \notin lost
      BY DEF Stored
    <2>4. live[PathOf(cur)] = r.seq /\ r.seq \in Nat
      <3>1. \A n \in Node : op[n].phase \notin {"acking", "replacing", "deleting"}
        BY <2>2 DEF Calls
      <3>2. live[r.path] = r.seq
        BY <2>1, <2>2, <2>3, <3>1 DEF KeysInv, L!NoLeakedRow
      <3> QED
        BY <2>2, <2>3, <3>2 DEF LedgerInv, L!TypeOK, L!Row
    <2>5. ~Answerable(PathOf(cur))
      <3> SUFFICES ASSUME NEW s \in replayable, s.path = PathOf(cur) PROVE FALSE
        BY DEF Answerable
      <3>1. s \in rows /\ s.seq = r.seq
        BY <2>1, <2>4 DEF ReplayInv
      <3>2. s = r
        BY <2>1, <3>1 DEF KeysInv
      <3> QED
        BY <2>2, <2>3, <3>2 DEF L!Answers, L!Matches
    <2>6. Overtaken(cur)
      <3>1. cur \in Ahead
        BY <2>2 DEF Ahead, Tree
      <3>2. live[PathOf(cur)] # L!NoSeq
        BY <2>4 DEF L!NoSeq
      <3> QED
        BY <2>1, <2>2, <2>5, <3>1, <3>2 DEF ComingInv, Running
    <2>7. PICK a \in Node :
            /\ cur \in Beneath[a] /\ op[a].phase = "running"
            /\ \E q \in rows : /\ q.path = op[a].path /\ q.hash # op[a].hash
                               /\ live[q.path] = q.seq
      BY <2>6 DEF Overtaken
    <2>8. op[a].path = PathOf(a) /\ op[a].hash = inp[a]
      BY <2>2, <2>7 DEF Calls
    <2> QED
      BY <2>7, <2>8
  <1> QED
    BY <1>1, <1>2, PTL DEF Spec, Safety, StoredStepNotRerun

=============================================================================
