--------------------------- MODULE StepLedgerProofs ---------------------------
(***************************************************************************)
(* Theorems about the step ledger for every set of paths, values and       *)
(* callers, every retention cap and every number of faults and crashes.    *)
(***************************************************************************)
EXTENDS StepLedger, TLAPS

(* What the fields of a call hold, by the phase it is in. *)
CallShape ==
  \A c \in Caller :
    /\ op[c].phase = "running" => op[c].path \in Path
    /\ op[c].phase \in {"appending", "acking", "replacing"} => op[c].row \in Row
    /\ op[c].phase \in {"replacing", "deleting"} => op[c].victim \in Nat

TypeInv == TypeOK /\ CallShape

LEMMA IdleTyped == Idle \in Call
  BY DEF Idle, Call, Phase, AnyHash

(* A load recovers a number for each path, or none. *)
LEMMA RecoveredLiveTyped ==
  ASSUME NEW S \in SUBSET Row
  PROVE  /\ RecoveredLive(S) \in [Path -> Nat \cup {NoSeq}]
         /\ Winners(S) \subseteq Row
  <1>1. Winners(S) \subseteq Row
    BY DEF Winners
  <1>2. ASSUME NEW p \in Path, \E r \in Winners(S) : r.path = p
        PROVE  (CHOOSE r \in Winners(S) : r.path = p).seq \in Nat
    BY <1>1, <1>2 DEF Row
  <1> QED
    BY <1>1, <1>2 DEF RecoveredLive

LEMMA FreshSeqsTyped ==
  ASSUME rows \subseteq Row
  PROVE  FreshSeqs \subseteq Nat
  BY DEF FreshSeqs, Row

(* One call changes, to a call that holds what its phase needs. *)
LEMMA CallChanged ==
  ASSUME op \in [Caller -> Call], CallShape, NEW c \in Caller, NEW call \in Call,
         op' = [op EXCEPT ![c] = call],
         call.phase = "running" => call.path \in Path,
         call.phase \in {"appending", "acking", "replacing"} => call.row \in Row,
         call.phase \in {"replacing", "deleting"} => call.victim \in Nat
  PROVE  op' \in [Caller -> Call] /\ CallShape'
  BY DEF CallShape

LEMMA TypeInit == Init => TypeInv
  BY IdleTyped DEF Init, TypeInv, TypeOK, CallShape, Idle

(* Every action keeps the types. *)
LEMMA TypeStep == TypeInv /\ [Next]_vars => TypeInv'
  <1> SUFFICES ASSUME TypeInv, [Next]_vars PROVE TypeInv'
    OBVIOUS
  <1> USE DEF TypeInv, TypeOK
  <1>1. ASSUME NEW u \in Unreadable, Load(u) \/ Adopt(u) PROVE TypeInv'
    <2>1. rows \ u \in SUBSET Row /\ rows' = rows /\ op' = op /\ FreshSeqs \subseteq Nat
      BY <1>1, FreshSeqsTyped DEF Load, Adopt
    <2>2. replayable' \subseteq Row /\ live' \in [Path -> Nat \cup {NoSeq}]
      BY <1>1, <2>1, RecoveredLiveTyped DEF Load, Adopt
    <2>3. nextSeq' \in Nat /\ lost' \subseteq Nat
      BY <1>1, <2>1 DEF Load, Adopt, Row
    <2> QED
      BY <1>1, <2>1, <2>2, <2>3 DEF Load, Adopt, CallShape
  <1>2. ASSUME NEW c \in Caller, CallStep(c) PROVE TypeInv'
    <2>1. ASSUME NEW p \in Path, NEW h \in AnyHash, Dispatch(c, p, h) PROVE TypeInv'
      BY <2>1 DEF Dispatch, Take, Diverged, Call, Phase, CallShape, Idle
    <2>2. CASE Throw(c)
      BY <2>2, IdleTyped DEF Throw, CallShape, Idle
    <2>3. ASSUME NEW v \in Val, Record(c, v) PROVE TypeInv'
      <3>1. [seq |-> nextSeq, path |-> op[c].path, hash |-> op[c].hash, val |-> v] \in Row
        BY <2>3 DEF Record, CallShape, Row, Call
      <3> DEFINE row  == [seq |-> nextSeq, path |-> op[c].path, hash |-> op[c].hash, val |-> v]
                 call == [op[c] EXCEPT !.phase = "appending", !.row = row]
      <3>2. call \in Call /\ call.phase = "appending" /\ call.row \in Row
        BY <3>1 DEF Call, Phase
      <3>3. op' = [op EXCEPT ![c] = call]
        BY <2>3 DEF Record
      <3>4. op' \in [Caller -> Call] /\ CallShape'
        BY <3>2, <3>3, CallChanged
      <3> QED
        BY <2>3, <3>4 DEF Record
    <2>4. ASSUME NEW v \in Val, Refuse(c, v) PROVE TypeInv'
      BY <2>4, IdleTyped DEF Refuse, CallShape, Idle
    <2>5. CASE Append(c)
      BY <2>5 DEF Append, Put, CallShape, Call, Phase
    <2>6. CASE AppendFails(c)
      BY <2>6, IdleTyped DEF AppendFails, Put, CallShape, Idle, Row
    <2>7. CASE Ack(c)
      <3>1. /\ op[c].row \in Row /\ op[c].row.path \in Path /\ op[c].row.seq \in Nat
            /\ DeadBeneath(op[c].row.path) \in SUBSET Path
        BY <2>7, LedgerAssumption DEF Ack, DeadBeneath, CallShape, Row
      <3>2. ASSUME live[op[c].row.path] = NoSeq
            PROVE  op' \in [Caller -> Call] /\ CallShape'
        <4> DEFINE call == [op[c] EXCEPT !.phase = "pruning", !.todo = DeadBeneath(op[c].row.path)]
        <4>1. call \in Call /\ call.phase = "pruning"
          BY <3>1 DEF Call, Phase
        <4>2. op' = [op EXCEPT ![c] = call]
          BY <2>7, <3>2 DEF Ack
        <4> QED
          BY <4>1, <4>2, CallChanged
      <3>3. ASSUME live[op[c].row.path] # NoSeq
            PROVE  op' \in [Caller -> Call] /\ CallShape'
        <4> DEFINE call == [op[c] EXCEPT !.phase = "replacing", !.victim = live[op[c].row.path]]
        <4>1. /\ call \in Call /\ call.phase = "replacing"
              /\ call.row \in Row /\ call.victim \in Nat
          BY <3>1, <3>3 DEF Call, Phase
        <4>2. op' = [op EXCEPT ![c] = call]
          BY <2>7, <3>3 DEF Ack
        <4> QED
          BY <4>1, <4>2, CallChanged
      <3>4. live' \in [Path -> Nat \cup {NoSeq}]
        BY <2>7, <3>1 DEF Ack
      <3> QED
        BY <2>7, <3>2, <3>3, <3>4 DEF Ack
    <2>8. CASE Replaced(c)
      <3>1. DeadBeneath(op[c].row.path) \in SUBSET Path
        BY <2>8, LedgerAssumption DEF Replaced, DeadBeneath, CallShape, Row
      <3>2. rows' \subseteq Row /\ lost' \subseteq Nat /\ faults' \in Nat
        BY <2>8 DEF Replaced, DeleteRow, CallShape
      <3> DEFINE call == [op[c] EXCEPT !.phase = "pruning", !.victim = NoSeq,
                                       !.todo = DeadBeneath(op[c].row.path)]
      <3>3. call \in Call /\ call.phase = "pruning"
        BY <3>1 DEF Call, Phase
      <3>4. op' = [op EXCEPT ![c] = call]
        BY <2>8 DEF Replaced
      <3>5. op' \in [Caller -> Call] /\ CallShape'
        BY <3>3, <3>4, CallChanged
      <3> QED
        BY <2>8, <3>2, <3>5 DEF Replaced
    <2>9. CASE Prune(c)
      BY <2>9 DEF Prune, CallShape, Call, Phase
    <2>10. CASE Pruned(c)
      <3>1. rows' \subseteq Row /\ lost' \subseteq Nat /\ faults' \in Nat
        BY <2>10 DEF Pruned, DeleteRow, CallShape
      <3> DEFINE call == [op[c] EXCEPT !.phase = "pruning", !.victim = NoSeq]
      <3>2. call \in Call /\ call.phase = "pruning"
        BY DEF Call, Phase
      <3>3. op' = [op EXCEPT ![c] = call]
        BY <2>10 DEF Pruned
      <3>4. op' \in [Caller -> Call] /\ CallShape'
        BY <3>2, <3>3, CallChanged
      <3> QED
        BY <2>10, <3>1, <3>4 DEF Pruned
    <2>11. CASE Finish(c)
      BY <2>11, IdleTyped DEF Finish, CallShape, Idle
    <2>12. ASSUME NEW dead \in SUBSET Path, NEW forget \in SUBSET Path, StartPrune(c, dead, forget)
           PROVE  TypeInv'
      BY <2>12 DEF StartPrune, CallShape, Call, Phase, AnyHash, Idle
    <2>13. ASSUME NEW p \in Path, Drop(c, p) PROVE TypeInv'
      <3>1. StartPrune(c, {p}, {}) /\ {p} \in SUBSET Path /\ {} \in SUBSET Path
        BY <2>13 DEF Drop
      <3> HIDE DEF TypeInv
      <3> QED
        BY <2>12, <3>1
    <2>14. CASE DropPaths(c)
      BY <2>12, <2>14 DEF DropPaths, LivePaths, Positional
    <2>15. ASSUME NEW r \in replayable, DiscardFrom(c, r.seq) PROVE TypeInv'
      BY <2>12, <2>15 DEF DiscardFrom
    <2> QED
      BY <1>2, <2>1, <2>2, <2>3, <2>4, <2>5, <2>6, <2>7, <2>8, <2>9, <2>10, <2>11,
         <2>13, <2>14, <2>15 DEF CallStep
  <1>3. CASE Crash
    <2>1. live' \in [Path -> Nat \cup {NoSeq}]
      BY <1>3 DEF Crash
    <2>2. op' \in [Caller -> Call] /\ CallShape'
      BY <1>3, IdleTyped DEF Crash, CallShape, Idle
    <2>3. up' \in BOOLEAN
      BY <1>3 DEF Crash
    <2>4. /\ rows' \subseteq Row /\ replayable' \subseteq Row /\ lost' \subseteq Nat
          /\ nextSeq' \in Nat /\ faults' \in Nat /\ crashes' \in Nat
      BY <1>3 DEF Crash
    <2> QED
      BY <2>1, <2>2, <2>3, <2>4
  <1>4. CASE UNCHANGED vars
    BY <1>4 DEF vars, CallShape
  <1> QED
    BY <1>1, <1>2, <1>3, <1>4 DEF Next

(* Every variable keeps its type. *)
THEOREM TypeCorrect == Spec => []TypeOK
  <1>1. Spec => []TypeInv
    BY TypeInit, TypeStep, PTL DEF Spec
  <1>2. TypeInv => TypeOK
    BY DEF TypeInv
  <1> QED
    BY <1>1, <1>2, PTL

-----------------------------------------------------------------------------
(* The numbers of the rows.  A number is reserved before the write that uses
   it is awaited, so what keeps rows apart is that reserved numbers differ
   from one another and from the stored ones, and that all are behind the
   counter - which a load must therefore put past every stored key. *)

Appending == {c \in Caller : op[c].phase = "appending"}

NumbersInv ==
  /\ up => \A r \in rows : r.seq < nextSeq
  /\ ~up => \A c \in Caller : op[c].phase = "idle"
  /\ \A c \in Appending :
       /\ op[c].row.seq < nextSeq
       /\ \A r \in rows : r.seq # op[c].row.seq
       /\ \A d \in Appending : c # d => op[c].row.seq # op[d].row.seq

LEMMA NumbersInit == Init => NumbersInv
  BY DEF Init, NumbersInv, Appending, Idle

LEMMA FreshSeqsBound ==
  ASSUME rows \subseteq Row, NEW n \in FreshSeqs
  PROVE  n \in Nat /\ \A r \in rows : r.seq < n
  BY FreshSeqsTyped DEF FreshSeqs

(* A step that adds no row, leaves the counter and starts no append keeps the numbers. *)
LEMMA NumbersKept ==
  ASSUME NumbersInv, op \in [Caller -> Call], up' = up, nextSeq' = nextSeq, rows' \subseteq rows,
         NEW c \in Caller, up,
         op'[c].phase # "appending",
         \A d \in Caller \ {c} : op'[d] = op[d]
  PROVE  NumbersInv'
  BY DEF NumbersInv, Appending

LEMMA NumbersStep == TypeInv /\ NumbersInv /\ [Next]_vars => NumbersInv'
  <1> SUFFICES ASSUME TypeInv, NumbersInv, [Next]_vars PROVE NumbersInv'
    OBVIOUS
  <1>0. /\ op \in [Caller -> Call] /\ nextSeq \in Nat /\ rows \subseteq Row
        /\ up \in BOOLEAN /\ CallShape
    BY DEF TypeInv, TypeOK
  <1>1. ASSUME NEW u \in Unreadable, Load(u) PROVE NumbersInv'
    BY <1>0, <1>1, FreshSeqsBound DEF Load, NumbersInv, Appending
  <1>2. ASSUME NEW u \in Unreadable, Adopt(u) PROVE NumbersInv'
    <2>1. PICK n \in FreshSeqs : nextSeq' = IF n > nextSeq THEN n ELSE nextSeq
      BY <1>2 DEF Adopt
    <2>2. nextSeq' \in Nat /\ nextSeq' >= nextSeq
      BY <1>0, <2>1, FreshSeqsBound
    <2>3. \A c \in Appending : op[c].row.seq \in Nat
      BY <1>0 DEF Appending, CallShape, Row
    <2>4. \A r \in rows : r.seq \in Nat
      BY <1>0 DEF Row
    <2> QED
      BY <1>0, <1>2, <2>2, <2>3, <2>4 DEF Adopt, NumbersInv, Appending
  <1>3. ASSUME NEW c \in Caller, CallStep(c) PROVE NumbersInv'
    <2>1. ASSUME NEW p \in Path, NEW h \in AnyHash, Dispatch(c, p, h) PROVE NumbersInv'
      BY <1>0, <2>1, NumbersKept DEF Dispatch, Idle
    <2>2. ASSUME NEW v \in Val, Record(c, v) PROVE NumbersInv'
      <3> DEFINE row  == [seq |-> nextSeq, path |-> op[c].path, hash |-> op[c].hash, val |-> v]
                 call == [op[c] EXCEPT !.phase = "appending", !.row = row]
      <3>1. op' = [op EXCEPT ![c] = call] /\ call.row.seq = nextSeq /\ call.phase = "appending"
        BY <1>0, <2>2 DEF Record, Call
      <3>2. /\ op[c].phase = "running" /\ nextSeq' = nextSeq + 1 /\ UNCHANGED <<rows, up>>
        BY <2>2 DEF Record
      <3> HIDE DEF call
      <3>3. op'[c] = call /\ \A d \in Caller \ {c} : op'[d] = op[d]
        BY <1>0, <3>1
      <3>4. up
        BY <1>0, <3>2 DEF NumbersInv
      <3>5. \A r \in rows : r.seq \in Nat
        BY <1>0 DEF Row
      <3>6. \A d \in Appending : op[d].row.seq \in Nat
        BY <1>0 DEF Appending, CallShape, Row
      <3> QED
        BY <1>0, <3>1, <3>2, <3>3, <3>4, <3>5, <3>6 DEF NumbersInv, Appending
    <2>3. CASE Append(c)
      <3>1. /\ c \in Appending /\ rows' = Put(op[c].row) /\ UNCHANGED <<up, nextSeq>>
            /\ op' = [op EXCEPT ![c] = [op[c] EXCEPT !.phase = "acking"]]
        BY <2>3 DEF Append, Appending
      <3>2. /\ op'[c].phase = "acking"
            /\ \A d \in Caller \ {c} : op'[d] = op[d]
        BY <1>0, <3>1 DEF Call
      <3> QED
        BY <1>0, <3>1, <3>2 DEF NumbersInv, Appending, Put
    <2>4. CASE AppendFails(c)
      <3>1. /\ c \in Appending /\ rows' \in {rows, Put(op[c].row)} /\ UNCHANGED <<up, nextSeq>>
            /\ op' = [op EXCEPT ![c] = Idle]
        BY <2>4 DEF AppendFails, Appending
      <3>2. /\ op'[c].phase = "idle"
            /\ \A d \in Caller \ {c} : op'[d] = op[d]
        BY <1>0, <3>1 DEF Idle
      <3> QED
        BY <1>0, <3>1, <3>2 DEF NumbersInv, Appending, Put
    <2>5. ASSUME Throw(c) \/ (\E v \in Val : Refuse(c, v)) \/ Finish(c) PROVE NumbersInv'
      <3>1. up
        BY <1>0, <2>5 DEF NumbersInv, Throw, Refuse, Finish
      <3>2. op' = [op EXCEPT ![c] = Idle] /\ UNCHANGED <<up, nextSeq, rows>>
        BY <2>5 DEF Throw, Refuse, Finish
      <3>3. op'[c].phase # "appending" /\ \A d \in Caller \ {c} : op'[d] = op[d]
        BY <1>0, <3>2 DEF Idle
      <3> QED
        BY <1>0, <3>1, <3>2, <3>3, NumbersKept
    <2>6. ASSUME Ack(c) \/ Prune(c) PROVE NumbersInv'
      <3>1. up
        BY <1>0, <2>6 DEF NumbersInv, Ack, Prune
      <3>2. UNCHANGED <<up, nextSeq, rows>>
        BY <2>6 DEF Ack, Prune
      <3>3. CASE Ack(c)
        <4>1. op'[c].phase # "appending" /\ \A d \in Caller \ {c} : op'[d] = op[d]
          BY <1>0, <3>3 DEF Ack, Call
        <4> QED
          BY <1>0, <3>1, <3>2, <4>1, NumbersKept
      <3>4. CASE Prune(c)
        <4>1. op'[c].phase # "appending" /\ \A d \in Caller \ {c} : op'[d] = op[d]
          BY <1>0, <3>4 DEF Prune, Call
        <4> QED
          BY <1>0, <3>1, <3>2, <4>1, NumbersKept
      <3> QED
        BY <2>6, <3>3, <3>4
    <2>7. ASSUME Replaced(c) \/ Pruned(c) PROVE NumbersInv'
      <3>1. up
        BY <1>0, <2>7 DEF NumbersInv, Replaced, Pruned
      <3>2. /\ op'[c].phase # "appending" /\ UNCHANGED <<up, nextSeq>> /\ rows' \subseteq rows
            /\ \A d \in Caller \ {c} : op'[d] = op[d]
        BY <1>0, <2>7 DEF Replaced, Pruned, DeleteRow, Call
      <3> QED
        BY <1>0, <3>1, <3>2, NumbersKept
    <2>8. ASSUME NEW dead, NEW forget, StartPrune(c, dead, forget) PROVE NumbersInv'
      <3>1. /\ op'[c].phase # "appending" /\ UNCHANGED <<up, nextSeq, rows>> /\ up
            /\ \A d \in Caller \ {c} : op'[d] = op[d]
        BY <1>0, <2>8 DEF StartPrune, Idle
      <3> QED
        BY <1>0, <3>1, NumbersKept
    <2>9. ASSUME (\E p \in Path : Drop(c, p)) \/ DropPaths(c) \/ (\E r \in replayable : DiscardFrom(c, r.seq))
          PROVE NumbersInv'
      BY <2>8, <2>9 DEF Drop, DropPaths, DiscardFrom
    <2> QED
      BY <1>3, <2>1, <2>2, <2>3, <2>4, <2>5, <2>6, <2>7, <2>9 DEF CallStep
  <1>4. CASE Crash
    BY <1>0, <1>4 DEF Crash, NumbersInv, Appending, Idle
  <1>5. CASE UNCHANGED vars
    BY <1>5 DEF vars, NumbersInv, Appending
  <1> QED
    BY <1>1, <1>2, <1>3, <1>4, <1>5 DEF Next

LEMMA RowKeptByStep == TypeInv /\ NumbersInv /\ [Next]_vars => [RowKept]_vars
  <1> SUFFICES ASSUME TypeInv, NumbersInv, Next PROVE RowKept
    BY DEF vars, RowKept
  <1>1. CASE rows' = rows
    BY <1>1 DEF RowKept
  <1>2. ASSUME NEW c \in Caller, Append(c) \/ AppendFails(c) PROVE RowKept
    <2>1. c \in Appending /\ rows' \in {rows, Put(op[c].row)}
      BY <1>2 DEF Append, AppendFails, Appending
    <2> QED
      BY <2>1 DEF NumbersInv, RowKept, Put
  <1>3. ASSUME NEW c \in Caller, Replaced(c) \/ Pruned(c) PROVE RowKept
    BY <1>3 DEF Replaced, Pruned, DeleteRow, RowKept
  <1>4. CASE Crash \/ \E u \in Unreadable : Load(u) \/ Adopt(u)
    BY <1>1, <1>4 DEF Crash, Load, Adopt
  <1>5. ASSUME NEW c \in Caller, CallStep(c), ~(Append(c) \/ AppendFails(c) \/ Replaced(c) \/ Pruned(c))
        PROVE  rows' = rows
    BY <1>5 DEF CallStep, Dispatch, Throw, Record, Refuse, Ack, Prune, Finish,
                Drop, DropPaths, DiscardFrom, StartPrune
  <1> QED
    BY <1>1, <1>2, <1>3, <1>4, <1>5 DEF Next

(* No append overwrites a row, for any number of concurrent callers, crashes,
   failed calls, unreadable rows and retries in place - overlapping ones
   included. *)
THEOREM RowsNeverOverwritten == Spec => NoRowOverwritten
  <1>1. Init => TypeInv /\ NumbersInv
    BY TypeInit, NumbersInit
  <1>2. TypeInv /\ NumbersInv /\ [Next]_vars => TypeInv' /\ NumbersInv' /\ [RowKept]_vars
    BY TypeStep, NumbersStep, RowKeptByStep
  <1> QED
    BY <1>1, <1>2, PTL DEF Spec, NoRowOverwritten

-----------------------------------------------------------------------------
(* The live entries.  Between the write of a row and its acknowledgement the
   row is in storage and not in memory; between the replacement of an entry
   and the delete of its row it is the other way round.  LiveInv says that
   the rows in those two positions are nobody else's. *)

Pending == {c \in Caller : op[c].phase \in {"appending", "acking"}}
Deleting == {c \in Caller : op[c].phase \in {"replacing", "deleting"}}

RowsApart == \A r, q \in rows : r.seq = q.seq => r = q

PendingOwned ==
  \A c \in Pending :
    /\ op[c].phase = "acking" => op[c].row \in rows
    /\ \A p \in Path : live[p] # op[c].row.seq
    /\ \A d \in Pending : c # d => op[c].row.seq # op[d].row.seq

VictimOwned ==
  \A c \in Deleting :
    /\ op[c].victim < nextSeq
    /\ \A p \in Path : live[p] # op[c].victim
    /\ \A d \in Pending : op[d].row.seq # op[c].victim

LiveInv == RowsApart /\ LiveIsStored /\ PendingOwned /\ VictimOwned

LEMMA LiveInit == Init => LiveInv
  BY DEF Init, LiveInv, RowsApart, LiveIsStored, PendingOwned, VictimOwned, Pending, Deleting, Idle

LEMMA RecoveredLiveStored ==
  ASSUME NEW S \in SUBSET Row, NEW p \in Path, RecoveredLive(S)[p] # NoSeq
  PROVE  \E r \in S : r.seq = RecoveredLive(S)[p] /\ r.path = p
  BY DEF RecoveredLive, Winners

(* When no call is in flight, what a load recovers is stored. *)
LEMMA LiveLoaded ==
  ASSUME rows \subseteq Row, RowsApart, \A c \in Caller : op[c].phase = "idle",
         NEW u, live' = RecoveredLive(rows \ u), rows' = rows, op' = op
  PROVE  LiveInv'
  BY RecoveredLiveStored
  DEF LiveInv, RowsApart, LiveIsStored, PendingOwned, VictimOwned, Pending, Deleting

(* Every live entry is behind the counter, and no two paths share a row. *)
LEMMA LiveNumbers ==
  ASSUME TypeInv, NumbersInv, LiveInv, up
  PROVE  \A p \in Path : live[p] # NoSeq =>
           /\ live[p] \in Nat /\ live[p] < nextSeq
           /\ \A q \in Path : q # p => live[q] # live[p]
  BY DEF TypeInv, TypeOK, NumbersInv, LiveInv, LiveIsStored, RowsApart

(* A call that becomes neither pending nor deleting disturbs nothing. *)
LEMMA LiveKept ==
  ASSUME LiveInv, op \in [Caller -> Call], UNCHANGED <<rows, live, nextSeq>>, NEW c \in Caller,
         op'[c].phase \notin {"appending", "acking", "replacing", "deleting"},
         \A d \in Caller \ {c} : op'[d] = op[d]
  PROVE  LiveInv'
  BY DEF LiveInv, RowsApart, LiveIsStored, PendingOwned, VictimOwned, Pending, Deleting

LEMMA LiveStep ==
  ASSUME RetryOverlaps = FALSE, TypeInv, NumbersInv, LiveInv, [Next]_vars
  PROVE  LiveInv'
  <1>0. /\ op \in [Caller -> Call] /\ nextSeq \in Nat /\ rows \subseteq Row
        /\ live \in [Path -> Nat \cup {NoSeq}] /\ up \in BOOLEAN /\ CallShape
    BY DEF TypeInv, TypeOK
  <1>1. ASSUME NEW u \in Unreadable, Load(u) \/ Adopt(u) PROVE LiveInv'
    <2>1. /\ \A c \in Caller : op[c].phase = "idle"
          /\ live' = RecoveredLive(rows \ u) /\ rows' = rows /\ op' = op
      BY <1>0, <1>1 DEF Load, Adopt, NumbersInv
    <2> QED
      BY <1>0, <2>1, LiveLoaded DEF LiveInv
  <1>2. ASSUME NEW c \in Caller, CallStep(c) PROVE LiveInv'
    <2>1. ASSUME NEW p \in Path, NEW h \in AnyHash, Dispatch(c, p, h) PROVE LiveInv'
      <3>1. UNCHANGED <<rows, live, nextSeq>>
        BY <2>1 DEF Dispatch
      <3>2. /\ op'[c].phase \notin {"appending", "acking", "replacing", "deleting"}
            /\ \A d \in Caller \ {c} : op'[d] = op[d]
        BY <1>0, <2>1 DEF Dispatch, Idle
      <3> QED
        BY <1>0, <3>1, <3>2, LiveKept
    <2>2. ASSUME Throw(c) \/ (\E v \in Val : Refuse(c, v)) \/ Finish(c) PROVE LiveInv'
      <3>1. op' = [op EXCEPT ![c] = Idle] /\ UNCHANGED <<rows, live, nextSeq>>
        BY <2>2 DEF Throw, Refuse, Finish
      <3>2. op'[c].phase = "idle" /\ \A d \in Caller \ {c} : op'[d] = op[d]
        BY <1>0, <3>1 DEF Idle
      <3> QED
        BY <1>0, <3>1, <3>2, LiveKept
    <2>3. ASSUME NEW dead, NEW forget, StartPrune(c, dead, forget) PROVE LiveInv'
      <3>1. /\ op'[c].phase = "pruning" /\ UNCHANGED <<rows, live, nextSeq>>
            /\ \A d \in Caller \ {c} : op'[d] = op[d]
        BY <1>0, <2>3 DEF StartPrune, Idle
      <3> QED
        BY <1>0, <3>1, LiveKept
    <2>4. ASSUME (\E p \in Path : Drop(c, p)) \/ DropPaths(c) \/ (\E r \in replayable : DiscardFrom(c, r.seq))
          PROVE LiveInv'
      BY <2>3, <2>4 DEF Drop, DropPaths, DiscardFrom
    <2>5. ASSUME NEW v \in Val, Record(c, v) PROVE LiveInv'
      <3> DEFINE row  == [seq |-> nextSeq, path |-> op[c].path, hash |-> op[c].hash, val |-> v]
                 call == [op[c] EXCEPT !.phase = "appending", !.row = row]
      <3>1. op' = [op EXCEPT ![c] = call] /\ call.row.seq = nextSeq /\ call.phase = "appending"
        BY <1>0, <2>5 DEF Record, Call
      <3>2. /\ op[c].phase = "running" /\ nextSeq' = nextSeq + 1 /\ UNCHANGED <<rows, live>>
        BY <2>5 DEF Record
      <3> HIDE DEF call
      <3>3. op'[c] = call /\ \A d \in Caller \ {c} : op'[d] = op[d]
        BY <1>0, <3>1
      <3>4. up
        BY <1>0, <3>2 DEF NumbersInv
      <3>5. \A p \in Path : live[p] # nextSeq
        BY <1>0, <3>4, LiveNumbers DEF NoSeq
      <3>6. \A d \in Pending : op[d].row.seq # nextSeq
        BY <1>0, <3>4 DEF Pending, Appending, NumbersInv, LiveInv, PendingOwned, Row
      <3>7. \A d \in Deleting : op[d].victim # nextSeq /\ op[d].victim < nextSeq'
        BY <1>0, <3>2 DEF Deleting, LiveInv, VictimOwned, CallShape
      <3>8. c \notin Deleting'
        BY <3>1, <3>3 DEF Deleting
      <3> QED
        BY <3>1, <3>2, <3>3, <3>5, <3>6, <3>7, <3>8
        DEF LiveInv, RowsApart, LiveIsStored, PendingOwned, VictimOwned, Pending, Deleting
    <2>6. ASSUME Append(c) \/ AppendFails(c) PROVE LiveInv'
      <3>1. c \in Appending /\ c \in Pending
        BY <2>6 DEF Append, AppendFails, Appending, Pending
      <3>2. op[c].row \in Row /\ Put(op[c].row) = rows \cup {op[c].row}
        BY <1>0, <3>1 DEF Appending, NumbersInv, CallShape, Put
      <3>3. /\ UNCHANGED <<live, nextSeq>>
            /\ op'[c].phase \in {"acking", "idle"}
            /\ op'[c].phase = "acking" => rows' = Put(op[c].row) /\ op'[c].row = op[c].row
            /\ rows' \in {rows, Put(op[c].row)}
            /\ \A d \in Caller \ {c} : op'[d] = op[d]
        <4>1. CASE Append(c)
          BY <1>0, <4>1 DEF Append, Call
        <4>2. CASE AppendFails(c)
          BY <1>0, <4>2 DEF AppendFails, Idle
        <4> QED
          BY <2>6, <4>1, <4>2
      <3>4. RowsApart' /\ LiveIsStored'
        BY <1>0, <3>1, <3>2, <3>3 DEF LiveInv, RowsApart, LiveIsStored, NumbersInv
      <3>5. PendingOwned' /\ VictimOwned'
        BY <3>1, <3>2, <3>3 DEF LiveInv, PendingOwned, VictimOwned, Pending, Deleting
      <3> QED
        BY <3>4, <3>5 DEF LiveInv
    <2>7. CASE Ack(c)
      <3> DEFINE r == op[c].row
      <3>1. /\ c \in Pending /\ c \notin Deleting /\ r \in rows /\ r \in Row
            /\ r.path \in Path /\ r.seq \in Nat /\ up
        BY <1>0, <2>7 DEF Ack, Pending, Deleting, LiveInv, PendingOwned, CallShape, Row, NumbersInv
      <3>2. /\ live' = [live EXCEPT ![r.path] = r.seq]
            /\ UNCHANGED <<rows, nextSeq>>
        BY <2>7 DEF Ack
      <3>3. /\ op'[c].phase \in {"pruning", "replacing"}
            /\ op'[c].phase = "replacing" => live[r.path] # NoSeq /\ op'[c].victim = live[r.path]
            /\ \A d \in Caller \ {c} : op'[d] = op[d]
        BY <1>0, <2>7 DEF Ack, Call
      <3>4. RowsApart' /\ LiveIsStored'
        BY <1>0, <3>1, <3>2 DEF LiveInv, RowsApart, LiveIsStored
      <3>5. PendingOwned'
        <4>1. ASSUME NEW d \in Pending' PROVE d \in Pending /\ d # c /\ op'[d] = op[d]
          BY <3>3, <4>1 DEF Pending
        <4> QED
          BY <1>0, <3>1, <3>2, <4>1 DEF LiveInv, PendingOwned
      <3>6. VictimOwned'
        <4>1. ASSUME NEW d \in Pending' PROVE d \in Pending /\ d # c /\ op'[d] = op[d]
          BY <3>3, <4>1 DEF Pending
        <4>2. ASSUME NEW d \in Deleting', d # c
              PROVE  /\ op'[d].victim < nextSeq'
                     /\ \A p \in Path : live'[p] # op'[d].victim
                     /\ \A e \in Pending' : op'[e].row.seq # op'[d].victim
          <5>1. d \in Deleting /\ op'[d] = op[d]
            BY <3>3, <4>2 DEF Deleting
          <5> QED
            BY <1>0, <3>1, <3>2, <4>1, <5>1 DEF LiveInv, VictimOwned
        <4>3. ASSUME c \in Deleting'
              PROVE  /\ op'[c].victim < nextSeq'
                     /\ \A p \in Path : live'[p] # op'[c].victim
                     /\ \A e \in Pending' : op'[e].row.seq # op'[c].victim
          <5>1. op'[c].victim = live[r.path] /\ live[r.path] # NoSeq
            BY <3>3, <4>3 DEF Deleting
          <5>2. /\ live[r.path] < nextSeq
                /\ \A q \in Path : q # r.path => live[q] # live[r.path]
            BY <3>1, <5>1, LiveNumbers
          <5> QED
            BY <1>0, <3>1, <3>2, <4>1, <5>1, <5>2 DEF LiveInv, PendingOwned
        <4> QED
          BY <4>2, <4>3 DEF VictimOwned
      <3> QED
        BY <3>4, <3>5, <3>6 DEF LiveInv
    <2>8. ASSUME Replaced(c) \/ Pruned(c) PROVE LiveInv'
      <3>1. /\ c \in Deleting /\ UNCHANGED <<live, nextSeq>>
            /\ rows' \subseteq rows /\ \A r \in rows : r.seq # op[c].victim => r \in rows'
        BY <2>8 DEF Replaced, Pruned, DeleteRow, Deleting
      <3>2. op'[c].phase = "pruning" /\ \A d \in Caller \ {c} : op'[d] = op[d]
        <4>1. CASE Replaced(c)
          BY <1>0, <4>1 DEF Replaced, Call
        <4>2. CASE Pruned(c)
          BY <1>0, <4>2 DEF Pruned, Call
        <4> QED
          BY <2>8, <4>1, <4>2
      <3>3. RowsApart' /\ LiveIsStored'
        BY <3>1 DEF LiveInv, RowsApart, LiveIsStored, VictimOwned
      <3>4. PendingOwned' /\ VictimOwned'
        BY <3>1, <3>2 DEF LiveInv, PendingOwned, VictimOwned, Pending, Deleting
      <3> QED
        BY <3>3, <3>4 DEF LiveInv
    <2>9. CASE Prune(c)
      <3>1. PICK p \in op[c].todo :
              /\ live' = [live EXCEPT ![p] = NoSeq]
              /\ live[p] = NoSeq => op' = [op EXCEPT ![c].todo = @ \ {p}]
              /\ live[p] # NoSeq => op' = [op EXCEPT ![c].phase = "deleting", ![c].todo = @ \ {p},
                                                    ![c].victim = live[p]]
        BY <2>9 DEF Prune
      <3>2. /\ op[c].phase = "pruning" /\ UNCHANGED <<rows, nextSeq>> /\ p \in Path /\ up
        BY <1>0, <2>9 DEF Prune, Call, NumbersInv
      <3>3. /\ live[p] = NoSeq => op'[c].phase = "pruning"
            /\ live[p] # NoSeq => op'[c].phase = "deleting" /\ op'[c].victim = live[p]
            /\ \A d \in Caller \ {c} : op'[d] = op[d]
        BY <1>0, <3>1, <3>2 DEF Call
      <3>4. RowsApart' /\ LiveIsStored'
        BY <1>0, <3>1, <3>2 DEF LiveInv, RowsApart, LiveIsStored
      <3>5. \A d \in Pending' : d \in Pending /\ op'[d] = op[d]
        BY <3>3 DEF Pending
      <3>6. \A d \in Pending : op[d].row.seq \in Nat
        BY <1>0 DEF Pending, CallShape, Row
      <3>7. PendingOwned'
        BY <1>0, <3>1, <3>2, <3>5, <3>6 DEF LiveInv, PendingOwned, NoSeq
      <3>8. \A d \in Deleting' : d # c => d \in Deleting /\ op'[d] = op[d] /\ op[d].victim \in Nat
        BY <1>0, <3>3 DEF Deleting, CallShape
      <3>9. c \in Deleting' =>
              /\ op'[c].victim = live[p] /\ live[p] \in Nat /\ live[p] < nextSeq
              /\ \A q \in Path : q # p => live[q] # live[p]
              /\ \A d \in Pending : op[d].row.seq # live[p]
        BY <3>2, <3>3, LiveNumbers DEF Deleting, LiveInv, PendingOwned
      <3>10. VictimOwned'
        BY <1>0, <3>1, <3>2, <3>5, <3>8, <3>9 DEF LiveInv, VictimOwned, NoSeq
      <3> QED
        BY <3>4, <3>7, <3>10 DEF LiveInv
    <2> QED
      BY <1>2, <2>1, <2>2, <2>4, <2>5, <2>6, <2>7, <2>8, <2>9 DEF CallStep
  <1>3. CASE Crash
    BY <1>0, <1>3 DEF Crash, LiveInv, RowsApart, LiveIsStored, PendingOwned, VictimOwned,
                      Pending, Deleting, Idle
  <1>4. CASE UNCHANGED vars
    BY <1>4 DEF vars, LiveInv, RowsApart, LiveIsStored, PendingOwned, VictimOwned, Pending, Deleting
  <1> QED
    BY <1>1, <1>2, <1>3, <1>4 DEF Next

(* Every live entry is stored under its number, for any number of concurrent
   callers, crashes, failed calls and unreadable rows, when a run retried in
   place finds no leg of the failed run still recording. *)
THEOREM LiveEntriesStored == RetryOverlaps = FALSE => (Spec => []LiveIsStored)
  <1> SUFFICES ASSUME RetryOverlaps = FALSE PROVE Spec => []LiveIsStored
    OBVIOUS
  <1>1. Init => TypeInv /\ NumbersInv /\ LiveInv
    BY TypeInit, NumbersInit, LiveInit
  <1>2. TypeInv /\ NumbersInv /\ LiveInv /\ [Next]_vars => TypeInv' /\ NumbersInv' /\ LiveInv'
    BY TypeStep, NumbersStep, LiveStep
  <1>3. LiveInv => LiveIsStored
    BY DEF LiveInv
  <1> QED
    BY <1>1, <1>2, <1>3, PTL DEF Spec

-----------------------------------------------------------------------------
(* Nothing is forgotten in storage.  What a step takes from the reasons a row
   has to be there it must give back as another one. *)

Handled(r) ==
  \E c \in Caller :
    \/ op[c].phase = "acking" /\ op[c].row = r
    \/ op[c].phase \in {"replacing", "deleting"} /\ op[c].victim = r.seq

LEMMA LeakInit == Init => NoLeakedRow
  BY DEF Init, NoLeakedRow

(* A step that adds no row, and takes no row from a call's hands. *)
LEMMA LeakKept ==
  ASSUME NoLeakedRow, up, rows' \subseteq rows, live' = live, lost \subseteq lost',
         \A r \in rows' : Handled(r) => Handled(r)' \/ r.seq \in lost'
  PROVE  NoLeakedRow'
  BY DEF NoLeakedRow, Handled

(* A call that handled no row moves on. *)
LEMMA HandledKept ==
  ASSUME NEW c \in Caller, op[c].phase \notin {"acking", "replacing", "deleting"},
         \A d \in Caller \ {c} : op'[d] = op[d], NEW r, Handled(r)
  PROVE  Handled(r)'
  BY DEF Handled

(* A load finds every row live, or notes it as stranded. *)
LEMMA LeakLoaded ==
  ASSUME rows \subseteq Row, NEW u, rows' = rows,
         replayable' = Winners(rows \ u), live' = RecoveredLive(rows \ u),
         lost' = {r.seq : r \in rows \ replayable'}
  PROVE  NoLeakedRow'
  <1>1. ASSUME NEW r \in replayable' PROVE live'[r.path] = r.seq
    <2>1. r \in Winners(rows \ u) /\ r.path \in Path /\ r.seq \in Nat
      BY <1>1 DEF Winners, Row
    <2>2. ASSUME NEW q \in Winners(rows \ u), q.path = r.path PROVE q.seq = r.seq
      BY <2>1, <2>2 DEF Winners, Row
    <2> QED
      BY <2>1, <2>2 DEF RecoveredLive
  <1> QED
    BY <1>1 DEF NoLeakedRow

LEMMA LeakStep ==
  ASSUME TypeInv, NumbersInv, NoLeakedRow, [Next]_vars
  PROVE  NoLeakedRow'
  <1>0. /\ op \in [Caller -> Call] /\ rows \subseteq Row /\ up \in BOOLEAN
        /\ live \in [Path -> Nat \cup {NoSeq}] /\ CallShape
    BY DEF TypeInv, TypeOK
  <1>1. ASSUME NEW u \in Unreadable, Load(u) \/ Adopt(u) PROVE NoLeakedRow'
    BY <1>0, <1>1, LeakLoaded DEF Load, Adopt
  <1>2. ASSUME NEW c \in Caller, CallStep(c) PROVE NoLeakedRow'
    <2>1. ASSUME \/ \E p \in Path, h \in AnyHash : Dispatch(c, p, h)
                 \/ Throw(c) \/ Finish(c)
                 \/ \E v \in Val : Record(c, v) \/ Refuse(c, v)
                 \/ \E dead, forget : StartPrune(c, dead, forget)
          PROVE  NoLeakedRow'
      <3>1. op[c].phase \in {"idle", "running", "pruning"} /\ UNCHANGED <<rows, live, lost>>
        BY <2>1 DEF Dispatch, Throw, Finish, Record, Refuse, StartPrune
      <3>2. \A d \in Caller \ {c} : op'[d] = op[d]
        BY <1>0, <2>1 DEF Dispatch, Throw, Finish, Record, Refuse, StartPrune
      <3>3. up
        BY <1>0, <2>1, <3>1 DEF NumbersInv, Dispatch, StartPrune, Throw, Finish, Record, Refuse
      <3> QED
        BY <3>1, <3>2, <3>3, LeakKept, HandledKept
    <2>2. ASSUME (\E p \in Path : Drop(c, p)) \/ DropPaths(c) \/ (\E r \in replayable : DiscardFrom(c, r.seq))
          PROVE  NoLeakedRow'
      BY <2>1, <2>2 DEF Drop, DropPaths, DiscardFrom
    <2>3. CASE Append(c)
      <3>1. /\ op[c].phase = "appending" /\ rows' = Put(op[c].row) /\ UNCHANGED <<up, live, lost>>
            /\ op'[c].phase = "acking" /\ op'[c].row = op[c].row
            /\ \A d \in Caller \ {c} : op'[d] = op[d]
        BY <1>0, <2>3 DEF Append, Call
      <3>2. \A r : Handled(r) => Handled(r)'
        BY <3>1, HandledKept
      <3>3. Handled(op[c].row)'
        BY <3>1 DEF Handled
      <3> QED
        BY <3>1, <3>2, <3>3 DEF NoLeakedRow, Handled, Put
    <2>4. CASE AppendFails(c)
      <3>1. /\ op[c].phase = "appending" /\ UNCHANGED <<up, live>>
            /\ \/ UNCHANGED <<rows, lost>>
               \/ rows' = Put(op[c].row) /\ lost' = lost \cup {op[c].row.seq}
            /\ \A d \in Caller \ {c} : op'[d] = op[d]
        BY <1>0, <2>4 DEF AppendFails
      <3>2. \A r : Handled(r) => Handled(r)'
        BY <3>1, HandledKept
      <3> QED
        BY <3>1, <3>2 DEF NoLeakedRow, Handled, Put
    <2>5. CASE Ack(c)
      <3> DEFINE r == op[c].row
      <3>1. /\ op[c].phase = "acking" /\ r.path \in Path /\ UNCHANGED <<rows, up, lost>>
            /\ live' = [live EXCEPT ![r.path] = r.seq]
        BY <1>0, <2>5 DEF Ack, CallShape, Row
      <3>2. /\ live[r.path] # NoSeq => op'[c].phase = "replacing" /\ op'[c].victim = live[r.path]
            /\ \A d \in Caller \ {c} : op'[d] = op[d]
        BY <1>0, <2>5 DEF Ack, Call
      <3>3. \A q : Handled(q) => Handled(q)' \/ q = r
        BY <3>1, <3>2 DEF Handled
      <3>4. ASSUME NEW q \in rows, live[q.path] = q.seq, q.path = r.path PROVE Handled(q)'
        <4>1. q.seq \in Nat
          BY <1>0 DEF Row
        <4>2. live[r.path] # NoSeq /\ live[r.path] = q.seq
          BY <3>4, <4>1 DEF NoSeq
        <4> QED
          BY <3>2, <4>2 DEF Handled
      <3>5. live'[r.path] = r.seq /\ \A p \in Path : p # r.path => live'[p] = live[p]
        BY <1>0, <3>1
      <3>6. ASSUME up, NEW q \in rows PROVE live'[q.path] = q.seq \/ q.seq \in lost \/ Handled(q)'
        <4>1. q.path \in Path
          BY <1>0 DEF Row
        <4> QED
          BY <3>3, <3>4, <3>5, <3>6, <4>1 DEF NoLeakedRow, Handled
      <3> QED
        BY <3>1, <3>6 DEF NoLeakedRow, Handled
    <2>6. ASSUME Replaced(c) \/ Pruned(c) PROVE NoLeakedRow'
      <3>1. op[c].phase \in {"replacing", "deleting"} /\ DeleteRow(op[c].victim) /\ UNCHANGED <<up, live>>
        BY <2>6 DEF Replaced, Pruned
      <3>2. \A d \in Caller \ {c} : op'[d] = op[d]
        BY <1>0, <2>6 DEF Replaced, Pruned
      <3>3. /\ rows' \subseteq rows /\ lost \subseteq lost'
            /\ \A r \in rows' : r.seq = op[c].victim => r.seq \in lost'
        BY <3>1 DEF DeleteRow
      <3>4. \A r \in rows' : Handled(r) => Handled(r)' \/ r.seq \in lost'
        BY <3>1, <3>2, <3>3 DEF Handled
      <3>5. up
        BY <1>0, <3>1 DEF NumbersInv
      <3> QED
        BY <3>1, <3>3, <3>4, <3>5, LeakKept
    <2>7. CASE Prune(c)
      <3>1. PICK p \in op[c].todo :
              /\ live' = [live EXCEPT ![p] = NoSeq]
              /\ live[p] = NoSeq => op' = [op EXCEPT ![c].todo = @ \ {p}]
              /\ live[p] # NoSeq => op' = [op EXCEPT ![c].phase = "deleting", ![c].todo = @ \ {p},
                                                    ![c].victim = live[p]]
        BY <2>7 DEF Prune
      <3>2. op[c].phase = "pruning" /\ UNCHANGED <<rows, up, lost>> /\ p \in Path
        BY <1>0, <2>7 DEF Prune, Call
      <3>3. /\ live[p] # NoSeq => op'[c].phase = "deleting" /\ op'[c].victim = live[p]
            /\ \A d \in Caller \ {c} : op'[d] = op[d]
        BY <1>0, <3>1, <3>2 DEF Call
      <3>4. \A r : Handled(r) => Handled(r)'
        BY <3>2, <3>3, HandledKept
      <3>5. ASSUME NEW r \in rows, live[r.path] = r.seq PROVE live'[r.path] = r.seq \/ Handled(r)'
        <4>1. r.seq \in Nat /\ r.path \in Path
          BY <1>0 DEF Row
        <4>2. CASE r.path = p
          BY <3>3, <3>5, <4>1, <4>2 DEF Handled, NoSeq
        <4>3. CASE r.path # p
          BY <1>0, <3>1, <3>5, <4>1, <4>3
        <4> QED
          BY <4>2, <4>3
      <3> QED
        BY <3>2, <3>4, <3>5 DEF NoLeakedRow, Handled
    <2> QED
      BY <1>2, <2>1, <2>2, <2>3, <2>4, <2>5, <2>6, <2>7 DEF CallStep
  <1>3. CASE Crash
    BY <1>3 DEF Crash, NoLeakedRow
  <1>4. CASE UNCHANGED vars
    BY <1>4 DEF vars, NoLeakedRow
  <1> QED
    BY <1>1, <1>2, <1>3, <1>4 DEF Next

(* Storage holds nothing the ledger forgot, however many callers race and
   whatever fails - retries in place that overlap abandoned legs included
   (step-ledger.ts:377-378, 500-507, 605-616). *)
THEOREM NoRowLeaks == Spec => []NoLeakedRow
  <1>1. Init => TypeInv /\ NumbersInv /\ NoLeakedRow
    BY TypeInit, NumbersInit, LeakInit
  <1>2. TypeInv /\ NumbersInv /\ NoLeakedRow /\ [Next]_vars => TypeInv' /\ NumbersInv' /\ NoLeakedRow'
    BY TypeStep, NumbersStep, LeakStep
  <1> QED
    BY <1>1, <1>2, PTL DEF Spec

-----------------------------------------------------------------------------
(* Replay.  ReplayIsDurable survives an append because a path that is being
   recorded has nothing replayable: the dispatch that let the step run took
   what was recorded there. *)

Working == {c \in Caller : op[c].phase \in {"running", "appending", "acking", "replacing"}}

WorkOf(c) == IF op[c].phase = "running" THEN op[c].path ELSE op[c].row.path

NotReplayed == \A c \in Working, r \in replayable : r.path # WorkOf(c)

ReplayInv == NotReplayed /\ ReplayIsDurable

LEMMA ReplayInit == Init => ReplayInv
  BY DEF Init, ReplayInv, NotReplayed, ReplayIsDurable

(* A step that leaves the rows and the live entries alone, and lets no call
   begin to work. *)
LEMMA ReplayKept ==
  ASSUME ReplayInv, UNCHANGED <<rows, live, lost>>, replayable' \subseteq replayable,
         NEW c \in Caller, c \notin Working' \/ (c \in Working /\ WorkOf(c)' = WorkOf(c)),
         \A d \in Caller \ {c} : op'[d] = op[d]
  PROVE  ReplayInv'
  BY DEF ReplayInv, NotReplayed, ReplayIsDurable, Working, WorkOf

(* What a load recovers is stored, live, and newest but for the rows noted as
   stranded. *)
LEMMA ReplayLoaded ==
  ASSUME rows \subseteq Row, RowsApart, NEW u, rows' = rows, Working' = {},
         replayable' = Winners(rows \ u), live' = RecoveredLive(rows \ u),
         lost' = {r.seq : r \in rows \ replayable'}
  PROVE  ReplayInv'
  <1>1. ASSUME NEW r \in replayable'
        PROVE  /\ r \in rows' /\ live'[r.path] = r.seq
               /\ \A q \in rows' : q.path = r.path /\ q.seq \notin lost' => q.seq <= r.seq
    <2>1. r \in Winners(rows \ u) /\ r.path \in Path /\ r.seq \in Nat /\ r \in rows
      BY <1>1 DEF Winners, Row
    <2>2. ASSUME NEW q \in Winners(rows \ u), q.path = r.path PROVE q.seq = r.seq
      BY <2>1, <2>2 DEF Winners, Row
    <2>3. live'[r.path] = r.seq
      BY <2>1, <2>2 DEF RecoveredLive
    <2>4. ASSUME NEW q \in rows, q.path = r.path, q.seq \notin lost' PROVE q.seq <= r.seq
      <3>1. q \in Winners(rows \ u)
        BY <2>4
      <3>2. q.seq = r.seq
        BY <2>2, <2>4, <3>1
      <3> QED
        BY <2>1, <3>2
    <2> QED
      BY <2>1, <2>3, <2>4
  <1> QED
    BY <1>1 DEF ReplayInv, NotReplayed, ReplayIsDurable

LEMMA ReplayStep ==
  ASSUME RetryOverlaps = FALSE, TypeInv, NumbersInv, LiveInv, ReplayInv, [Next]_vars
  PROVE  ReplayInv'
  <1>0. /\ op \in [Caller -> Call] /\ rows \subseteq Row /\ replayable \subseteq Row
        /\ live \in [Path -> Nat \cup {NoSeq}] /\ CallShape /\ RowsApart
    BY DEF TypeInv, TypeOK, LiveInv
  <1>1. ASSUME NEW u \in Unreadable, Load(u) \/ Adopt(u) PROVE ReplayInv'
    <2>1. Working' = {}
      BY <1>1 DEF Load, Adopt, NumbersInv, TypeInv, TypeOK, Working
    <2> QED
      BY <1>0, <1>1, <2>1, ReplayLoaded DEF Load, Adopt
  <1>2. ASSUME NEW c \in Caller, CallStep(c) PROVE ReplayInv'
    <2>1. ASSUME NEW p \in Path, NEW h \in AnyHash, Dispatch(c, p, h) PROVE ReplayInv'
      <3>1. UNCHANGED <<rows, live, lost>> /\ op[c].phase = "idle" /\ replayable' \subseteq replayable
        BY <2>1 DEF Dispatch, Take
      <3>2. CASE Answers(p, h) # {}
        <4>1. op' = op /\ c \notin Working'
          BY <2>1, <3>1, <3>2 DEF Dispatch, Working
        <4> QED
          BY <3>1, <4>1, ReplayKept
      <3>3. CASE Answers(p, h) = {}
        <4>1. /\ op'[c].phase = "running" /\ op'[c].path = p
              /\ \A d \in Caller \ {c} : op'[d] = op[d]
          BY <1>0, <2>1, <3>3 DEF Dispatch, Idle
        <4>2. \A r \in replayable' : r.path # p
          BY <2>1, <3>3 DEF Dispatch, Take, Diverged
        <4>3. NotReplayed'
          BY <3>1, <4>1, <4>2 DEF ReplayInv, NotReplayed, Working, WorkOf
        <4> QED
          BY <3>1, <4>3 DEF ReplayInv, ReplayIsDurable
      <3> QED
        BY <3>2, <3>3
    <2>2. ASSUME \/ Throw(c) \/ Finish(c) \/ \E v \in Val : Refuse(c, v)
                 \/ \E dead, forget : StartPrune(c, dead, forget)
          PROVE  ReplayInv'
      <3>1. /\ UNCHANGED <<rows, live, lost>> /\ replayable' \subseteq replayable
            /\ op'[c].phase \in {"idle", "pruning"}
            /\ \A d \in Caller \ {c} : op'[d] = op[d]
        <4>1. CASE Throw(c) \/ Finish(c)
          BY <1>0, <4>1 DEF Throw, Finish, Idle
        <4>2. ASSUME NEW v \in Val, Refuse(c, v)
              PROVE  /\ UNCHANGED <<rows, live, lost, replayable>> /\ op'[c].phase = "idle"
                     /\ \A d \in Caller \ {c} : op'[d] = op[d]
          BY <1>0, <4>2 DEF Refuse, Idle
        <4>3. ASSUME NEW dead, NEW forget, StartPrune(c, dead, forget)
              PROVE  /\ UNCHANGED <<rows, live, lost, replayable>> /\ op'[c].phase = "pruning"
                     /\ \A d \in Caller \ {c} : op'[d] = op[d]
          BY <1>0, <4>3 DEF StartPrune, Idle
        <4> QED
          BY <2>2, <4>1, <4>2, <4>3
      <3> QED
        BY <3>1, ReplayKept DEF Working
    <2>3. ASSUME (\E p \in Path : Drop(c, p)) \/ DropPaths(c) \/ (\E r \in replayable : DiscardFrom(c, r.seq))
          PROVE  ReplayInv'
      BY <2>2, <2>3 DEF Drop, DropPaths, DiscardFrom
    <2>4. ASSUME NEW v \in Val, Record(c, v) PROVE ReplayInv'
      <3> DEFINE row  == [seq |-> nextSeq, path |-> op[c].path, hash |-> op[c].hash, val |-> v]
                 call == [op[c] EXCEPT !.phase = "appending", !.row = row]
      <3>1. op' = [op EXCEPT ![c] = call] /\ call.row.path = op[c].path /\ call.phase = "appending"
        BY <1>0, <2>4 DEF Record, Call
      <3> HIDE DEF call
      <3>2. op[c].phase = "running" /\ UNCHANGED <<rows, live, lost, replayable>>
        BY <2>4 DEF Record
      <3>3. op'[c] = call /\ \A d \in Caller \ {c} : op'[d] = op[d]
        BY <1>0, <3>1
      <3>4. c \in Working /\ WorkOf(c)' = WorkOf(c)
        BY <3>1, <3>2, <3>3 DEF Working, WorkOf
      <3> QED
        BY <3>2, <3>3, <3>4, ReplayKept
    <2>5. ASSUME Append(c) \/ AppendFails(c) PROVE ReplayInv'
      <3>1. /\ c \in Working /\ c \in Appending /\ WorkOf(c) = op[c].row.path
            /\ UNCHANGED <<live, replayable>> /\ lost \subseteq lost'
            /\ rows' \in {rows, Put(op[c].row)}
        BY <2>5 DEF Append, AppendFails, Working, Appending, WorkOf
      <3>2. /\ op'[c].phase \in {"acking", "idle"}
            /\ op'[c].phase = "acking" => op'[c].row = op[c].row
            /\ \A d \in Caller \ {c} : op'[d] = op[d]
        <4>1. CASE Append(c)
          BY <1>0, <4>1 DEF Append, Call
        <4>2. CASE AppendFails(c)
          BY <1>0, <4>2 DEF AppendFails, Idle
        <4> QED
          BY <2>5, <4>1, <4>2
      <3>3. rows' \subseteq rows \cup {op[c].row} /\ rows \subseteq rows'
        BY <3>1 DEF Put, NumbersInv
      <3>4. NotReplayed'
        BY <3>1, <3>2 DEF ReplayInv, NotReplayed, Working, WorkOf
      <3>5. \A r \in replayable : r.path # op[c].row.path
        BY <3>1 DEF ReplayInv, NotReplayed
      <3>6. ReplayIsDurable'
        BY <3>1, <3>3, <3>5 DEF ReplayInv, ReplayIsDurable
      <3> QED
        BY <3>4, <3>6 DEF ReplayInv
    <2>6. CASE Ack(c)
      <3> DEFINE r == op[c].row
      <3>1. /\ c \in Working /\ WorkOf(c) = r.path /\ UNCHANGED <<rows, lost, replayable>>
            /\ live' = [live EXCEPT ![r.path] = r.seq]
        BY <2>6 DEF Ack, Working, WorkOf
      <3>2. /\ op'[c].phase \in {"pruning", "replacing"} /\ op'[c].row = r
            /\ \A d \in Caller \ {c} : op'[d] = op[d]
        BY <1>0, <2>6 DEF Ack, Call
      <3>3. NotReplayed'
        BY <3>1, <3>2 DEF ReplayInv, NotReplayed, Working, WorkOf
      <3>4. \A q \in replayable : q.path \in Path /\ q.path # r.path
        BY <1>0, <3>1 DEF ReplayInv, NotReplayed, Row
      <3>5. ReplayIsDurable'
        BY <1>0, <3>1, <3>4 DEF ReplayInv, ReplayIsDurable
      <3> QED
        BY <3>3, <3>5 DEF ReplayInv
    <2>7. ASSUME Replaced(c) \/ Pruned(c) PROVE ReplayInv'
      <3>1. /\ c \in Deleting /\ UNCHANGED <<live, replayable>> /\ lost \subseteq lost'
            /\ rows' \subseteq rows /\ \A q \in rows : q.seq # op[c].victim => q \in rows'
        BY <2>7 DEF Replaced, Pruned, DeleteRow, Deleting
      <3>2. op'[c].phase = "pruning" /\ \A d \in Caller \ {c} : op'[d] = op[d]
        <4>1. CASE Replaced(c)
          BY <1>0, <4>1 DEF Replaced, Call
        <4>2. CASE Pruned(c)
          BY <1>0, <4>2 DEF Pruned, Call
        <4> QED
          BY <2>7, <4>1, <4>2
      <3>3. NotReplayed'
        BY <3>1, <3>2 DEF ReplayInv, NotReplayed, Working, WorkOf
      <3>4. \A r \in replayable : r.seq # op[c].victim
        BY <1>0, <3>1 DEF ReplayInv, ReplayIsDurable, LiveInv, VictimOwned, Row
      <3>5. ReplayIsDurable'
        BY <3>1, <3>4 DEF ReplayInv, ReplayIsDurable
      <3> QED
        BY <3>3, <3>5 DEF ReplayInv
    <2>8. CASE Prune(c)
      <3>1. PICK p \in op[c].todo :
              /\ live' = [live EXCEPT ![p] = NoSeq]
              /\ live[p] = NoSeq => op' = [op EXCEPT ![c].todo = @ \ {p}] /\ UNCHANGED replayable
              /\ live[p] # NoSeq =>
                   /\ op' = [op EXCEPT ![c].phase = "deleting", ![c].todo = @ \ {p},
                                       ![c].victim = live[p]]
                   /\ replayable' = {r \in replayable : r.path # p}
        BY <2>8 DEF Prune
      <3>2. op[c].phase = "pruning" /\ UNCHANGED <<rows, lost>> /\ p \in Path
        BY <1>0, <2>8 DEF Prune, Call
      <3>3. /\ op'[c].phase \in {"pruning", "deleting"}
            /\ \A d \in Caller \ {c} : op'[d] = op[d]
        BY <1>0, <3>1, <3>2 DEF Call
      <3>4. \A r \in replayable : r.seq \in Nat /\ r.path \in Path /\ live[r.path] = r.seq
        BY <1>0 DEF ReplayInv, ReplayIsDurable, Row
      <3>5. \A r \in replayable' : r \in replayable /\ r.path # p
        BY <3>1, <3>4 DEF NoSeq
      <3>6. NotReplayed'
        BY <3>3, <3>5 DEF ReplayInv, NotReplayed, Working, WorkOf
      <3>7. ReplayIsDurable'
        BY <1>0, <3>1, <3>2, <3>4, <3>5 DEF ReplayInv, ReplayIsDurable
      <3> QED
        BY <3>6, <3>7 DEF ReplayInv
    <2> QED
      BY <1>2, <2>1, <2>2, <2>3, <2>4, <2>5, <2>6, <2>7, <2>8 DEF CallStep
  <1>3. CASE Crash
    BY <1>3 DEF Crash, ReplayInv, NotReplayed, ReplayIsDurable
  <1>4. CASE UNCHANGED vars
    BY <1>4 DEF vars, ReplayInv, NotReplayed, ReplayIsDurable, Working, WorkOf
  <1> QED
    BY <1>1, <1>2, <1>3, <1>4 DEF Next

(* A dispatch is answered with what a process restarted now would be answered
   with, for any number of callers, crashes, failed calls and unreadable rows,
   when a run retried in place finds no leg of the failed run still recording
   (step-ledger.ts:414-424, 605-616). *)
THEOREM ReplayedIsDurable == RetryOverlaps = FALSE => (Spec => []ReplayIsDurable)
  <1> SUFFICES ASSUME RetryOverlaps = FALSE PROVE Spec => []ReplayIsDurable
    OBVIOUS
  <1> DEFINE IInv == TypeInv /\ NumbersInv /\ LiveInv /\ ReplayInv
  <1>1. Init => IInv
    BY TypeInit, NumbersInit, LiveInit, ReplayInit
  <1>2. IInv /\ [Next]_vars => IInv'
    BY TypeStep, NumbersStep, LiveStep, ReplayStep
  <1>3. IInv => ReplayIsDurable
    BY DEF ReplayInv
  <1> HIDE DEF IInv
  <1> QED
    BY <1>1, <1>2, <1>3, PTL DEF Spec

=============================================================================
