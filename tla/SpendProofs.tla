------------------------------ MODULE SpendProofs ------------------------------
(***************************************************************************)
(* Theorems about paid dispatches for any finite set of calls, any         *)
(* reconciliations, write-offs and restores under way together, and any    *)
(* number of failed storage calls and crashes.                             *)
(***************************************************************************)
EXTENDS Spend, TLAPS, FiniteSetTheorems

Phases == {"new", "opening", "sent", "counted", "refused", "cut", "left", "over", "gone"}
Early == {"new", "opening", "sent"}
Doings == {"put", "remove", "leave"}
TaskPhases == {"idle", "list", "hold", "get", "ready"}

(* Every variable an obligation reads keeps its type. *)
Types ==
  /\ rec \in [Call -> Record] /\ root \in Ctx
  /\ call \in [Call -> Phases] /\ on \in [Call -> Ctx \cup {0}]
  /\ live \subseteq Call /\ writes \in [Call -> Seq(Doings)]
  /\ hold \in [Call -> Holding \cup {None}] /\ heldCost \in [Ctx -> Nat]
  /\ settling \in [Call -> {"no", "get", "remove"}]
  /\ task \in [Task -> [pc : TaskPhases, kind : {"adopt", "reconcile", "writeOff"}, seen : [Call -> Record]]]
  /\ charging \in [Call -> Nat] /\ mem \in [Call -> Nat] /\ kept \in [Call -> Nat] /\ twice \in [Call -> Nat]

(* What ends a dispatch is the last of its writes. *)
QueuedAt(d) ==
  /\ \A i \in 1 .. Len(writes[d]) :
       /\ writes[d][i] = "remove" => call[d] \in {"counted", "refused"}
       /\ writes[d][i] = "leave" => call[d] = "cut"
       /\ writes[d][i] # "put" => i = Len(writes[d])
  /\ call[d] \in {"counted", "refused"} /\ writes[d] # <<>> => writes[d][Len(writes[d])] = "remove"
  /\ call[d] \in {"new", "left"} => writes[d] = <<>>
Queued == \A d \in Call : QueuedAt(d)

(* A call that is not over is neither held nor settled nor charged. *)
Charges(d) == mem[d] + kept[d] + charging[d]
Seen(t, d) ==
  task[t].seen[d] # "none" =>
    /\ call[d] # "new" /\ task[t].pc \in {"hold", "get", "ready"}
    /\ task[t].pc # "hold" => call[d] \notin Early
UntouchedAt(d) ==
  /\ call[d] \in {"opening", "sent"} => d \in live
  /\ call[d] = "new" => rec[d] = "none"
  /\ call[d] \in Early => hold[d] = None /\ settling[d] = "no" /\ Charges(d) = 0
  /\ settling[d] # "no" => hold[d] # None
Untouched == \A d \in Call : UntouchedAt(d) /\ \A t \in Task : Seen(t, d)

(* An unreadable record has no ceiling. *)
Unbounded ==
  \A d \in Call : hold[d] # None => (hold[d].unreadable => hold[d].ceiling # "bounded")

(* A record that may be taken has a bill that was not charged. *)
Cutoff == {"cut", "left", "over", "gone"}
OnceAt(d) ==
  /\ Charges(d) <= 1 + twice[d]
  /\ settling[d] = "remove" =>
       /\ Charges(d) <= twice[d]
       /\ call[d] \in Cutoff /\ writes[d] # <<>> => Charges(d) < twice[d]
  /\ call[d] \in Cutoff /\ (rec[d] # "none" \/ writes[d] # <<>>) => Charges(d) <= twice[d]
Once == \A d \in Call : OnceAt(d)

(* Whoever was billed pays, is recorded, or was lost. *)
AccountedAt(d) ==
  /\ d \in billed /\ Charges(d) = 0 => rec[d] # "none" \/ d \in lost
  /\ call[d] \in Early \cup {"refused"} => d \notin billed
  /\ call[d] = "sent" => rec[d] # "none" \/ d \in lost
  /\ call[d] = "counted" => Charges(d) > 0 \/ d \in lost
Accounted == \A d \in Call : AccountedAt(d)

(* Without overlaps and failures a call that ended for good has no record once
   its writes are done, and is not settled before. *)
CalmAt(d) ==
  /\ twice[d] = 0
  /\ writes[d] # <<>> => settling[d] = "no" /\ charging[d] = 0 /\ kept[d] = 0
  /\ call[d] \in {"counted", "refused"} /\ writes[d] = <<>> => rec[d] = "none"
Calm == calm => \A d \in Call : CalmAt(d)

-----------------------------------------------------------------------------
(* Types. *)

LEMMA FreshTyped ==
  ASSUME NEW r, NEW c \in Ctx \cup {0}
  PROVE  /\ Fresh(r, c) \in Holding /\ Fresh(r, c) # None
         /\ Fresh(r, c).ceiling = "asking" /\ Fresh(r, c).ctx = c /\ ~Fresh(r, c).settling
  <1>1. (r = "torn") \in BOOLEAN
    OBVIOUS
  <1>2. Fresh(r, c) \in Holding
    BY <1>1 DEF Fresh, Holding
  <1>3. Fresh(r, c) # None
    BY <1>2, SpendAssumption
  <1>4. Fresh(r, c).ceiling = "asking" /\ Fresh(r, c).ctx = c /\ ~Fresh(r, c).settling
    BY DEF Fresh
  <1> QED
    BY <1>2, <1>3, <1>4

LEMMA HoldTyped ==
  ASSUME Types, NEW d \in Call, hold[d] # None
  PROVE  /\ hold[d] \in Holding
         /\ \A c \in Ctx \cup {0} :
              /\ [hold[d] EXCEPT !.ctx = c] \in Holding
              /\ [hold[d] EXCEPT !.ctx = c] # None
              /\ [hold[d] EXCEPT !.ctx = c].ctx = c
              /\ [hold[d] EXCEPT !.ctx = c].ceiling = hold[d].ceiling
              /\ [hold[d] EXCEPT !.ctx = c].unreadable = hold[d].unreadable
         /\ \A b \in BOOLEAN :
              /\ [hold[d] EXCEPT !.settling = b] \in Holding
              /\ [hold[d] EXCEPT !.settling = b] # None
              /\ [hold[d] EXCEPT !.settling = b].ctx = hold[d].ctx
              /\ [hold[d] EXCEPT !.settling = b].ceiling = hold[d].ceiling
              /\ [hold[d] EXCEPT !.settling = b].unreadable = hold[d].unreadable
  <1>1. hold[d] \in Holding
    BY DEF Types
  <1>2. PICK c0 \in Ctx \cup {0}, u0 \in BOOLEAN, k0 \in {"asking", "bounded", "unbounded"}, s0 \in BOOLEAN :
          hold[d] = [ctx |-> c0, unreadable |-> u0, ceiling |-> k0, settling |-> s0]
    BY <1>1 DEF Holding
  <1>3. \A c \in Ctx \cup {0} :
          /\ [hold[d] EXCEPT !.ctx = c] = [ctx |-> c, unreadable |-> u0, ceiling |-> k0, settling |-> s0]
          /\ [ctx |-> c, unreadable |-> u0, ceiling |-> k0, settling |-> s0] \in Holding
    BY <1>2 DEF Holding
  <1>4. \A b \in BOOLEAN :
          /\ [hold[d] EXCEPT !.settling = b] = [ctx |-> c0, unreadable |-> u0, ceiling |-> k0, settling |-> b]
          /\ [ctx |-> c0, unreadable |-> u0, ceiling |-> k0, settling |-> b] \in Holding
    BY <1>2 DEF Holding
  <1> QED
    BY <1>1, <1>2, <1>3, <1>4, SpendAssumption

(* What hold makes of a call: held, on the context given or where it was. *)
LEMMA HeldTyped ==
  ASSUME Types, Unbounded, NEW d \in Call, NEW r, NEW c \in Ctx \cup {0}
  PROVE  /\ Held(d, r, c) \in Holding /\ Held(d, r, c) # None
         /\ Held(d, r, c).unreadable => Held(d, r, c).ceiling # "bounded"
         /\ Bounded(d) => /\ Held(d, r, c).ceiling = "bounded"
                          /\ Held(d, r, c).ctx = IF c = 0 THEN hold[d].ctx ELSE c
         /\ ~Bounded(d) => Held(d, r, c).ceiling # "bounded"
  <1>1. CASE hold[d] = None
    BY <1>1, FreshTyped DEF Held, Bounded
  <1>2. CASE hold[d] # None /\ Reread(d, r)
    <2>1. hold[d].ctx \in Ctx \cup {0}
      BY <1>2, HoldTyped DEF Holding
    <2> QED
      BY <1>2, <2>1, FreshTyped DEF Held, Bounded, Unbounded, Reread
  <1>3. CASE hold[d] # None /\ ~Reread(d, r)
    BY <1>3, HoldTyped DEF Held, Bounded, Unbounded
  <1> QED
    BY <1>1, <1>2, <1>3

LEMMA CtxFinite == \A D \in SUBSET Call : IsFiniteSet(D) /\ Cardinality(D) \in Nat
  BY SpendAssumption, FS_Subset, FS_CardinalityType

LEMMA HoldAllTyped ==
  ASSUME Types, Unbounded, NEW D \in SUBSET Call, NEW r, NEW c \in Ctx \cup {0}, HoldAll(D, r, c)
  PROVE  /\ hold' \in [Call -> Holding \cup {None}] /\ heldCost' \in [Ctx -> Nat]
         /\ \A d \in Call : hold'[d] = None => hold[d] = None /\ d \notin D
         /\ \A d \in Call \ D : hold'[d] = hold[d]
         /\ Unbounded'
  <1>1. hold' = [d \in Call |-> IF d \in D THEN Held(d, r[d], c) ELSE hold[d]]
    BY DEF HoldAll
  <1>2. \A d \in Call : Held(d, r[d], c) \in Holding /\ Held(d, r[d], c) # None
          /\ (Held(d, r[d], c).unreadable => Held(d, r[d], c).ceiling # "bounded")
    BY HeldTyped
  <1>3. heldCost' \in [Ctx -> Nat]
    <2> DEFINE moved == {d \in D : c # 0 /\ Bounded(d) /\ hold[d].ctx # c}
    <2> DEFINE from(k) == Cardinality({d \in moved : hold[d].ctx = k})
    <2> DEFINE all == Cardinality(moved)
    <2>1. all \in Nat /\ \A k \in Ctx : from(k) \in Nat
      BY CtxFinite
    <2>2. heldCost' = [k \in Ctx |-> Less(heldCost[k], from(k)) + (IF k = c THEN all ELSE 0)]
      BY DEF HoldAll
    <2> HIDE DEF from, all
    <2>3. \A k \in Ctx : Less(heldCost[k], from(k)) + (IF k = c THEN all ELSE 0) \in Nat
      BY <2>1 DEF Less, Types
    <2> QED
      BY <2>2, <2>3
  <1>4. /\ hold' \in [Call -> Holding \cup {None}]
        /\ \A d \in Call : hold'[d] = IF d \in D THEN Held(d, r[d], c) ELSE hold[d]
    BY <1>1, <1>2 DEF Types
  <1>5. Unbounded'
    BY <1>2, <1>4 DEF Unbounded
  <1> QED
    BY <1>2, <1>3, <1>4, <1>5

LEMMA SeenTyped ==
  /\ Unseen \in [Call -> Record] /\ NoTask.seen = Unseen
  /\ \A d \in Call, r \in Record : /\ Only(d, r) \in [Call -> Record] /\ Only(d, r)[d] = r
                                   /\ \A x \in Call \ {d} : Only(d, r)[x] = "none"
  BY DEF Unseen, Only, Record, NoTask

LEMMA BeginTyped ==
  ASSUME Types, NEW t \in Task, NEW kind \in {"adopt", "reconcile", "writeOff"}, NEW pc \in TaskPhases,
         NEW seen \in [Call -> Record], Begin(t, kind, pc, seen)
  PROVE  /\ task' \in [Task -> [pc : TaskPhases, kind : {"adopt", "reconcile", "writeOff"}, seen : [Call -> Record]]]
         /\ task'[t].pc = pc /\ task'[t].seen = seen
         /\ \A u \in Task \ {t} : task'[u] = task[u]
  BY DEF Types, Begin

LEMMA NoTaskTyped ==
  NoTask \in [pc : TaskPhases, kind : {"adopt", "reconcile", "writeOff"}, seen : [Call -> Record]]
  BY DEF NoTask, TaskPhases, Record

LEMMA ReleaseTyped ==
  ASSUME Types, Unbounded, NEW d \in Call, Release(d)
  PROVE  /\ hold' \in [Call -> Holding \cup {None}] /\ heldCost' \in [Ctx -> Nat] /\ Unbounded'
         /\ hold'[d] = None /\ \A x \in Call \ {d} : hold'[x] = hold[x]
  BY DEF Types, Unbounded, Release, Less

LEMMA SettleTyped ==
  ASSUME Types, Unbounded, NEW D \in SUBSET Call, Settle(D)
  PROVE  /\ hold' \in [Call -> Holding \cup {None}] /\ Unbounded'
         /\ settling' \in [Call -> {"no", "get", "remove"}]
         /\ \A d \in Call : (hold'[d] = None <=> hold[d] = None)
         /\ \A d \in Call : settling'[d] = settling[d] \/ (settling'[d] = "get" /\ hold[d] # None /\ d \in D)
         /\ \A d \in Call : hold[d] # None =>
              hold'[d].ctx = hold[d].ctx /\ hold'[d].ceiling = hold[d].ceiling
  <1> DEFINE begun == {d \in D : hold[d] # None /\ ~hold[d].settling}
  <1>1. /\ hold' = [d \in Call |-> IF d \in begun THEN [hold[d] EXCEPT !.settling = TRUE] ELSE hold[d]]
        /\ settling' = [d \in Call |-> IF d \in begun THEN "get" ELSE settling[d]]
    BY DEF Settle
  <1>2. \A d \in Call : hold[d] # None =>
          /\ [hold[d] EXCEPT !.settling = TRUE] \in Holding
          /\ [hold[d] EXCEPT !.settling = TRUE] # None
          /\ [hold[d] EXCEPT !.settling = TRUE].ctx = hold[d].ctx
          /\ [hold[d] EXCEPT !.settling = TRUE].ceiling = hold[d].ceiling
          /\ [hold[d] EXCEPT !.settling = TRUE].unreadable = hold[d].unreadable
    BY HoldTyped
  <1>3. \A d \in begun : d \in D /\ hold[d] # None
    OBVIOUS
  <1> HIDE DEF begun
  <1>4. /\ hold' \in [Call -> Holding \cup {None}]
        /\ settling' \in [Call -> {"no", "get", "remove"}]
    BY <1>1, <1>2, <1>3 DEF Types
  <1> QED
    BY <1>1, <1>2, <1>3, <1>4 DEF Unbounded

(* A price that is known, and a settlement that failed. *)
LEMMA PriceTyped ==
  ASSUME Types, Unbounded, NEW d \in Call, Price(d)
  PROVE  /\ hold' \in [Call -> Holding \cup {None}] /\ heldCost' \in [Ctx -> Nat] /\ Unbounded'
         /\ hold[d] # None /\ hold'[d] # None /\ \A x \in Call \ {d} : hold'[x] = hold[x]
         /\ hold'[d].ctx = hold[d].ctx
  <1>1. \A k \in {"bounded", "unbounded"} :
          /\ [hold[d] EXCEPT !.ceiling = k] \in Holding /\ [hold[d] EXCEPT !.ceiling = k] # None
          /\ [hold[d] EXCEPT !.ceiling = k].ceiling = k
          /\ [hold[d] EXCEPT !.ceiling = k].ctx = hold[d].ctx
          /\ [hold[d] EXCEPT !.ceiling = k].unreadable = hold[d].unreadable
    <2>1. hold[d] \in Holding
      BY DEF Price, Types
    <2>2. PICK c0 \in Ctx \cup {0}, u0 \in BOOLEAN, k0 \in {"asking", "bounded", "unbounded"}, s0 \in BOOLEAN :
            hold[d] = [ctx |-> c0, unreadable |-> u0, ceiling |-> k0, settling |-> s0]
      BY <2>1 DEF Holding
    <2>3. \A k \in {"bounded", "unbounded"} :
            /\ [hold[d] EXCEPT !.ceiling = k] = [ctx |-> c0, unreadable |-> u0, ceiling |-> k, settling |-> s0]
            /\ [ctx |-> c0, unreadable |-> u0, ceiling |-> k, settling |-> s0] \in Holding
      BY <2>2 DEF Holding
    <2> QED
      BY <2>2, <2>3, SpendAssumption
  <1>2. \E k \in {"bounded", "unbounded"} :
          hold' = [hold EXCEPT ![d] = [hold[d] EXCEPT !.ceiling = k]] /\ (k = "bounded" => ~hold[d].unreadable)
    BY DEF Price
  <1>3. heldCost' \in [Ctx -> Nat]
    <2>2. CASE heldCost' = [k \in Ctx |-> heldCost[k] + (IF k = hold[d].ctx THEN 1 ELSE 0)]
      <3> DEFINE c == hold[d].ctx
      <3>1. heldCost' = [k \in Ctx |-> heldCost[k] + (IF k = c THEN 1 ELSE 0)]
        BY <2>2
      <3> HIDE DEF c
      <3>2. \A k \in Ctx : heldCost[k] + (IF k = c THEN 1 ELSE 0) \in Nat
        BY DEF Types
      <3> QED
        BY <3>1, <3>2
    <2>3. CASE heldCost' = heldCost
      BY <2>3 DEF Types
    <2> QED
      BY <2>2, <2>3 DEF Price
  <1>4. /\ hold' \in [Call -> Holding \cup {None}]
        /\ hold'[d] # None /\ \A x \in Call \ {d} : hold'[x] = hold[x]
        /\ hold'[d].ctx = hold[d].ctx
        /\ hold'[d].unreadable => hold'[d].ceiling # "bounded"
    <2>1. PICK k \in {"bounded", "unbounded"} :
            hold' = [hold EXCEPT ![d] = [hold[d] EXCEPT !.ceiling = k]] /\ (k = "bounded" => ~hold[d].unreadable)
      BY <1>2
    <2>2. hold'[d] = [hold[d] EXCEPT !.ceiling = k] /\ \A x \in Call \ {d} : hold'[x] = hold[x]
      BY <2>1 DEF Types
    <2>3. hold' \in [Call -> Holding \cup {None}]
      BY <1>1, <2>1 DEF Types
    <2> QED
      BY <1>1, <2>1, <2>2, <2>3
  <1>5. hold[d] # None
    BY DEF Price
  <1>6. Unbounded'
    BY <1>4 DEF Unbounded
  <1> QED
    BY <1>3, <1>4, <1>5, <1>6

LEMMA TakeFailsTyped ==
  ASSUME Types, Unbounded, Untouched, NEW d \in Call, TakeFails(d)
  PROVE  /\ hold' \in [Call -> Holding \cup {None}] /\ Unbounded'
         /\ hold[d] # None /\ hold'[d] # None /\ \A x \in Call \ {d} : hold'[x] = hold[x]
         /\ hold'[d].ctx = hold[d].ctx /\ hold'[d].ceiling = hold[d].ceiling
  <1>1. hold[d] # None
    BY DEF TakeFails, Untouched, UntouchedAt
  <1>2. hold' = [hold EXCEPT ![d] = [hold[d] EXCEPT !.settling = FALSE]]
    BY DEF TakeFails
  <1>3. /\ [hold[d] EXCEPT !.settling = FALSE] \in Holding
        /\ [hold[d] EXCEPT !.settling = FALSE] # None
        /\ [hold[d] EXCEPT !.settling = FALSE].ctx = hold[d].ctx
        /\ [hold[d] EXCEPT !.settling = FALSE].ceiling = hold[d].ceiling
        /\ [hold[d] EXCEPT !.settling = FALSE].unreadable = hold[d].unreadable
    BY <1>1, HoldTyped
  <1> QED
    BY <1>1, <1>2, <1>3 DEF Types, Unbounded

LEMMA OneMore ==
  ASSUME NEW f \in [Call -> Nat], NEW d \in Call
  PROVE  [f EXCEPT ![d] = f[d] + 1] \in [Call -> Nat]
  OBVIOUS

LEMMA TypesInit == Init => Types /\ Unbounded
  <1> SUFFICES ASSUME Init PROVE Types /\ Unbounded
    OBVIOUS
  <1>1. 1 \in Ctx
    BY SpendAssumption DEF Ctx
  <1>2. <<>> \in Seq(Doings)
    OBVIOUS
  <1>3. task \in [Task -> [pc : TaskPhases, kind : {"adopt", "reconcile", "writeOff"}, seen : [Call -> Record]]]
    BY NoTaskTyped DEF Init
  <1>4. [d \in Call |-> 0] \in [Call -> Nat]
    OBVIOUS
  <1>5. charging \in [Call -> Nat] /\ mem \in [Call -> Nat] /\ kept \in [Call -> Nat] /\ twice \in [Call -> Nat]
    BY <1>4 DEF Init
  <1>6. /\ rec \in [Call -> Record] /\ call \in [Call -> Phases] /\ on \in [Call -> Ctx \cup {0}]
        /\ live \subseteq Call /\ settling \in [Call -> {"no", "get", "remove"}]
    BY DEF Init, Record, Phases
  <1>7. /\ hold \in [Call -> Holding \cup {None}] /\ heldCost \in [Ctx -> Nat] /\ root \in Ctx
    BY <1>1 DEF Init
  <1>8. writes \in [Call -> Seq(Doings)]
    BY <1>2 DEF Init
  <1> QED
    BY <1>3, <1>5, <1>6, <1>7, <1>8 DEF Init, Types, Unbounded

LEMMA WritesTyped ==
  ASSUME Types, NEW d \in Call
  PROVE  /\ writes[d] \in Seq(Doings)
         /\ \A w \in Doings : Append(writes[d], w) \in Seq(Doings)
         /\ writes[d] # <<>> => Tail(writes[d]) \in Seq(Doings) /\ Head(writes[d]) = writes[d][1]
  BY DEF Types

LEMMA TypesStep ==
  ASSUME Types, Unbounded, Untouched, [Next]_vars
  PROVE  Types' /\ Unbounded'
  <1> USE DEF process, calls, holds, settle, ledger, bounds
  <1>0. /\ call \in [Call -> Phases] /\ on \in [Call -> Ctx \cup {0}] /\ live \in SUBSET Call /\ root \in Ctx
        /\ charging \in [Call -> Nat] /\ mem \in [Call -> Nat] /\ kept \in [Call -> Nat]
    BY DEF Types
  <1>00. \A d \in Call : /\ [charging EXCEPT ![d] = charging[d] + 1] \in [Call -> Nat]
                         /\ [mem EXCEPT ![d] = mem[d] + 1] \in [Call -> Nat]
                         /\ [kept EXCEPT ![d] = kept[d] + 1] \in [Call -> Nat]
    BY <1>0, OneMore
  <1>1. ASSUME NEW d \in Call,
               Open(d) \/ Opened(d) \/ OpenFails(d) \/ Completes(d) \/ Refused(d) \/ Cut(d) \/ NoteGeneration(d)
        PROVE  Types' /\ Unbounded'
    <2>1. writes' \in [Call -> Seq(Doings)]
      <3>1. \/ writes' = writes
            \/ \E w \in Doings : writes' = [writes EXCEPT ![d] = Append(writes[d], w)]
        BY <1>1 DEF Open, Opened, OpenFails, Sent, Completes, Refused, Cut, NoteGeneration, Ends, Doings
      <3>2. CASE writes' = writes
        BY <3>2 DEF Types
      <3>3. ASSUME NEW w \in Doings, writes' = [writes EXCEPT ![d] = Append(writes[d], w)]
            PROVE  writes' \in [Call -> Seq(Doings)]
        <4>1. Append(writes[d], w) \in Seq(Doings)
          BY WritesTyped
        <4> QED
          BY <3>3, <4>1 DEF Types
      <3> QED
        BY <3>1, <3>2, <3>3
    <2>2. rec' \in [Call -> Record]
      BY <1>1, SMTT(30) DEF Types, Open, Opened, OpenFails, Sent, Completes, Refused, Cut, NoteGeneration, Ends, Record
    <2>3. /\ call' = call \/ \E pc \in Phases : call' = [call EXCEPT ![d] = pc]
          /\ on' = on \/ on' = [on EXCEPT ![d] = root]
          /\ live' \subseteq live \cup {d}
      BY <1>1 DEF Open, Opened, OpenFails, Sent, Completes, Refused, Cut, NoteGeneration, Ends, Phases
    <2>4. mem' = mem \/ mem' = [mem EXCEPT ![d] = mem[d] + 1]
      BY <1>1 DEF Open, Opened, OpenFails, Sent, Completes, Refused, Cut, NoteGeneration, Ends
    <2>6. call' \in [Call -> Phases] /\ on' \in [Call -> Ctx \cup {0}] /\ live' \subseteq Call /\ mem' \in [Call -> Nat]
      <3>1. call' \in [Call -> Phases] /\ live' \subseteq Call
        BY <1>0, <2>3
      <3>2. on' \in [Call -> Ctx \cup {0}]
        BY <1>0, <2>3
      <3>3. mem' \in [Call -> Nat]
        BY <1>0, <1>00, <2>4
      <3> QED
        BY <3>1, <3>2, <3>3
    <2>5. UNCHANGED <<root, hold, heldCost, settling, task, charging, kept, twice>>
      BY <1>1 DEF Open, Opened, OpenFails, Sent, Completes, Refused, Cut, NoteGeneration, Ends
    <2> QED
      BY <2>1, <2>2, <2>5, <2>6 DEF Types, Unbounded
  <1>2. ASSUME NEW d \in Call, Write(d) \/ WriteFails(d)
        PROVE  Types' /\ Unbounded'
    <2>1. writes[d] # <<>> /\ writes' = [writes EXCEPT ![d] = Tail(writes[d])]
      BY <1>2 DEF Write, WriteFails, Doing, Wrote
    <2>2. writes' \in [Call -> Seq(Doings)]
      BY <2>1, WritesTyped DEF Types
    <2>3. rec' \in [Call -> Record]
      BY <1>2 DEF Types, Write, WriteFails, Landed, Record
    <2>4. UNCHANGED <<root, call, on, live, hold, heldCost, settling, task, charging, mem, kept, twice>>
      BY <1>2 DEF Write, WriteFails
    <2> QED
      BY <2>2, <2>3, <2>4 DEF Types, Unbounded
  <1>3. ASSUME NEW d \in Call, Price(d)
        PROVE  Types' /\ Unbounded'
    BY <1>3, PriceTyped DEF Types, Price
  <1>4. ASSUME NEW d \in Call, Leave(d)
        PROVE  Types' /\ Unbounded'
    <2>1. on[d] \in Ctx \cup {0} /\ HoldAll({d}, [x \in Call |-> "bare"], on[d]) /\ {d} \in SUBSET Call
      BY <1>4 DEF Types, Leave
    <2>2. hold' \in [Call -> Holding \cup {None}] /\ heldCost' \in [Ctx -> Nat] /\ Unbounded'
      BY <2>1, HoldAllTyped
    <2>3. writes' \in [Call -> Seq(Doings)]
      BY <1>4, WritesTyped DEF Types, Leave, Wrote, Doing
    <2> QED
      BY <1>4, <2>2, <2>3 DEF Types, Leave, Phases
  <1>5. ASSUME NEW d \in Call, LookUp(d) \/ LookedUp(d)
        PROVE  Types' /\ Unbounded'
    BY <1>5 DEF Types, Unbounded, LookUp, LookedUp, Phases
  <1>6. ASSUME NEW d \in Call, Bill(d)
        PROVE  Types' /\ Unbounded'
    BY <1>6, SettleTyped DEF Types, Bill
  <1>7. ASSUME NEW d \in Call, GetsNone(d)
        PROVE  Types' /\ Unbounded'
    BY <1>7, ReleaseTyped DEF Types, GetsNone
  <1>8. ASSUME NEW d \in Call, Get(d)
        PROVE  Types' /\ Unbounded'
    BY <1>8 DEF Types, Unbounded, Get
  <1>9. ASSUME NEW d \in Call, Take(d)
        PROVE  Types' /\ Unbounded'
    <2>1. charging' \in [Call -> Nat] /\ mem' \in [Call -> Nat]
      <3>1. \/ mem' = [mem EXCEPT ![d] = mem[d] + 1] /\ charging' = charging
            \/ charging' = [charging EXCEPT ![d] = charging[d] + 1] /\ mem' = mem
        BY <1>9 DEF Take, Charge
      <3> QED
        BY <1>0, <1>00, <3>1
    <2> QED
      BY <1>9, <2>1, ReleaseTyped DEF Types, Take, Record
  <1>10. ASSUME NEW d \in Call, TakeFails(d)
         PROVE  Types' /\ Unbounded'
    BY <1>10, TakeFailsTyped DEF Types, TakeFails, Record
  <1>11. ASSUME NEW d \in Call, Charged(d) \/ ChargeFails(d)
         PROVE  Types' /\ Unbounded'
    <2>1. charging[d] \in Nat /\ charging[d] > 0 /\ charging' = [charging EXCEPT ![d] = charging[d] - 1]
      BY <1>11 DEF Types, Charged, ChargeFails
    <2>2. charging' \in [Call -> Nat]
      BY <2>1 DEF Types
    <2>3. /\ mem' = mem \/ mem' = [mem EXCEPT ![d] = mem[d] + 1]
          /\ kept' = kept \/ kept' = [kept EXCEPT ![d] = kept[d] + 1]
      BY <1>11 DEF Charged, ChargeFails
    <2>4. mem' \in [Call -> Nat] /\ kept' \in [Call -> Nat]
      BY <1>0, <1>00, <2>3
    <2>5. UNCHANGED <<rec, root, call, on, live, writes, hold, heldCost, settling, task, twice>>
      BY <1>11 DEF Charged, ChargeFails
    <2> QED
      BY <2>2, <2>4, <2>5 DEF Types, Unbounded
  <1>12. ASSUME NEW t \in Task, Reconcile(t) \/ Restore(t) \/ List(t) \/ Adopted(t)
         PROVE  Types' /\ Unbounded'
    <2>1. \E kind \in {"adopt", "reconcile", "writeOff"}, pc \in TaskPhases, seen \in [Call -> Record] :
            Begin(t, kind, pc, seen)
      <3>1. CASE Reconcile(t) \/ Restore(t) \/ Adopted(t)
        BY <3>1, SeenTyped DEF Reconcile, Restore, Adopted, TaskPhases
      <3>2. CASE List(t)
        BY <3>2 DEF Types, List, TaskPhases
      <3> QED
        BY <1>12, <3>1, <3>2
    <2>2. task' \in [Task -> [pc : TaskPhases, kind : {"adopt", "reconcile", "writeOff"}, seen : [Call -> Record]]]
      BY <2>1, BeginTyped
    <2>3. root' \in Ctx
      BY <1>12, SpendAssumption DEF Types, Ctx, Reconcile, Restore, List, Adopted
    <2>4. UNCHANGED <<rec, call, on, live, writes, hold, heldCost, settling, charging, mem, kept, twice>>
      BY <1>12 DEF Reconcile, Restore, List, Adopted
    <2> QED
      BY <2>2, <2>3, <2>4 DEF Types, Unbounded
  <1>13. ASSUME NEW t \in Task, TaskFails(t) \/ Reconciled(t)
         PROVE  Types' /\ Unbounded'
    <2>1. task' \in [Task -> [pc : TaskPhases, kind : {"adopt", "reconcile", "writeOff"}, seen : [Call -> Record]]]
      BY <1>13, NoTaskTyped DEF Types, TaskFails, Reconciled
    <2> QED
      BY <1>13, <2>1 DEF Types, Unbounded, TaskFails, Reconciled
  <1>14. ASSUME NEW t \in Task, WrittenOff(t)
         PROVE  Types' /\ Unbounded'
    <2>1. task' \in [Task -> [pc : TaskPhases, kind : {"adopt", "reconcile", "writeOff"}, seen : [Call -> Record]]]
      BY <1>14, NoTaskTyped DEF Types, WrittenOff
    <2>2. Settle(Pending(t)) /\ Pending(t) \in SUBSET Call
      BY <1>14 DEF WrittenOff, Pending
    <2> QED
      BY <1>14, <2>1, <2>2, SettleTyped DEF Types, WrittenOff
  <1>15. ASSUME NEW t \in Task, NEW d \in Call, WriteOff(t, d)
         PROVE  Types' /\ Unbounded'
    <2>1. \E pc \in TaskPhases : Begin(t, "writeOff", pc, Only(d, "bare")) /\ "bare" \in Record
      BY <1>15 DEF WriteOff, TaskPhases, Record
    <2>2. task' \in [Task -> [pc : TaskPhases, kind : {"adopt", "reconcile", "writeOff"}, seen : [Call -> Record]]]
      BY <2>1, BeginTyped, SeenTyped
    <2> QED
      BY <1>15, <2>2 DEF Types, Unbounded, WriteOff
  <1>16. ASSUME NEW t \in Task, HoldListed(t)
         PROVE  Types' /\ Unbounded'
    <2>1. /\ HoldAll(Unsettled(t), task[t].seen, IF task[t].kind = "adopt" THEN root ELSE 0)
          /\ Unsettled(t) \in SUBSET Call
          /\ (IF task[t].kind = "adopt" THEN root ELSE 0) \in Ctx \cup {0}
      BY <1>16 DEF HoldListed, Unsettled, Pending, Types
    <2>2. hold' \in [Call -> Holding \cup {None}] /\ heldCost' \in [Ctx -> Nat] /\ Unbounded'
      BY <2>1, HoldAllTyped
    <2>3. \E kind \in {"adopt", "reconcile", "writeOff"}, pc \in TaskPhases, seen \in [Call -> Record] :
            Begin(t, kind, pc, seen)
      BY <1>16 DEF Types, HoldListed, TaskPhases, Record
    <2>4. task' \in [Task -> [pc : TaskPhases, kind : {"adopt", "reconcile", "writeOff"}, seen : [Call -> Record]]]
      BY <2>3, BeginTyped
    <2> QED
      BY <1>16, <2>2, <2>4 DEF Types, HoldListed
  <1>17. ASSUME NEW t \in Task, GetWrittenOff(t)
         PROVE  Types' /\ Unbounded'
    <2>1. \E kind \in {"adopt", "reconcile", "writeOff"}, pc \in TaskPhases, seen \in [Call -> Record] :
            Begin(t, kind, pc, seen)
      BY <1>17, SeenTyped DEF GetWrittenOff, TaskPhases, Pending
    <2>2. task' \in [Task -> [pc : TaskPhases, kind : {"adopt", "reconcile", "writeOff"}, seen : [Call -> Record]]]
      BY <2>1, BeginTyped
    <2>3. /\ hold' \in [Call -> Holding \cup {None}] /\ heldCost' \in [Ctx -> Nat] /\ Unbounded'
      <3>1. CASE UNCHANGED holds
        BY <3>1 DEF Types, Unbounded
      <3>2. ASSUME NEW d \in Call, NEW r \in Record, HoldAll({d}, Only(d, r), 0)
            PROVE  hold' \in [Call -> Holding \cup {None}] /\ heldCost' \in [Ctx -> Nat] /\ Unbounded'
        BY <3>2, HoldAllTyped
      <3> QED
        BY <1>17, <3>1, <3>2 DEF GetWrittenOff, Pending
    <2> QED
      BY <1>17, <2>2, <2>3 DEF Types, GetWrittenOff
  <1>18. ASSUME Checkpoint
         PROVE  Types' /\ Unbounded'
    <2>1. mem' \in [Call -> Nat] /\ kept' \in [Call -> Nat]
      BY <1>18 DEF Types, Checkpoint
    <2> QED
      BY <1>18, <2>1 DEF Types, Unbounded, Checkpoint
  <1>19. ASSUME RunEnds \/ Restart \/ UNCHANGED vars
         PROVE  Types' /\ Unbounded'
    BY <1>19 DEF Types, Unbounded, RunEnds, Restart, vars
  <1>20. ASSUME Crash
         PROVE  Types' /\ Unbounded'
    <2>1. /\ task' \in [Task -> [pc : TaskPhases, kind : {"adopt", "reconcile", "writeOff"}, seen : [Call -> Record]]]
          /\ <<>> \in Seq(Doings)
      BY <1>20, NoTaskTyped DEF Crash
    <2>2. writes' \in [Call -> Seq(Doings)] /\ rec' \in [Call -> Record] /\ live' \subseteq Call
      BY <1>20, <2>1 DEF Crash
    <2>3. call' \in [Call -> Phases]
      BY <1>20 DEF Crash, Types, Phases
    <2>4. charging' \in [Call -> Nat] /\ mem' \in [Call -> Nat] /\ heldCost' \in [Ctx -> Nat]
      BY <1>20 DEF Crash
    <2> QED
      BY <1>20, <2>1, <2>2, <2>3, <2>4 DEF Types, Unbounded, Crash
  <1> QED
    BY <1>1, <1>2, <1>3, <1>4, <1>5, <1>6, <1>7, <1>8, <1>9, <1>10, <1>11, <1>12, <1>13, <1>14, <1>15, <1>16,
       <1>17, <1>18, <1>19, <1>20 DEF Next

-----------------------------------------------------------------------------
(* What contexts hold. *)

HeldOn(k) == {d \in Call : Bounded(d) /\ hold[d].ctx = k}

LEMMA AddUpIsHeldOn == HoldsAddUp <=> \A k \in Ctx : heldCost[k] = Cardinality(HeldOn(k))
  BY DEF HoldsAddUp, HeldOn

LEMMA HeldOnFinite ==
  \A k : /\ IsFiniteSet(HeldOn(k)) /\ Cardinality(HeldOn(k)) \in Nat
  BY CtxFinite DEF HeldOn

LEMMA TakenAway ==
  ASSUME NEW S, IsFiniteSet(S), NEW T \in SUBSET S
  PROVE  Cardinality(S \ T) = Less(Cardinality(S), Cardinality(T))
  <1>1. /\ IsFiniteSet(T) /\ Cardinality(T) <= Cardinality(S) /\ S \cap T = T
        /\ Cardinality(S) \in Nat /\ Cardinality(T) \in Nat
    BY FS_Subset, FS_CardinalityType
  <1>2. Cardinality(S \ T) = Cardinality(S) - Cardinality(S \cap T)
    BY <1>1, FS_Difference
  <1> QED
    BY <1>1, <1>2 DEF Less

LEMMA PutTogether ==
  ASSUME NEW S, IsFiniteSet(S), NEW T, IsFiniteSet(T), S \cap T = {}
  PROVE  Cardinality(S \cup T) = Cardinality(S) + Cardinality(T)
  <1>1. Cardinality(S \cup T) = Cardinality(S) + Cardinality(T) - Cardinality(S \cap T)
    BY FS_Union
  <1>2. Cardinality(S \cap T) = 0 /\ Cardinality(S) \in Nat /\ Cardinality(T) \in Nat
    BY FS_EmptySet, FS_CardinalityType
  <1> QED
    BY <1>1, <1>2

(* What moves leaves each context it was held on, and reaches the one given. *)
LEMMA HoldAllAddsUp ==
  ASSUME Types, Unbounded, HoldsAddUp, NEW D \in SUBSET Call, NEW r, NEW c \in Ctx \cup {0}, HoldAll(D, r, c)
  PROVE  HoldsAddUp'
  <1> DEFINE moved == {d \in D : c # 0 /\ Bounded(d) /\ hold[d].ctx # c}
  <1> DEFINE from(k) == {d \in moved : hold[d].ctx = k}
  <1>1. \A d \in Call : hold'[d] = IF d \in D THEN Held(d, r[d], c) ELSE hold[d]
    BY DEF HoldAll
  <1>2. \A d \in Call : /\ Bounded(d)' <=> Bounded(d)
                        /\ Bounded(d) => hold'[d].ctx = IF d \in D /\ c # 0 THEN c ELSE hold[d].ctx
    BY <1>1, HeldTyped DEF Bounded
  <1>3. \A k \in Ctx : heldCost'[k] = Less(heldCost[k], Cardinality(from(k)))
                                      + (IF k = c THEN Cardinality(moved) ELSE 0)
    BY DEF HoldAll
  <1> HIDE DEF moved, from
  <1>4. ASSUME NEW k \in Ctx PROVE heldCost'[k] = Cardinality(HeldOn(k)')
    <2>1. from(k) \subseteq HeldOn(k) /\ IsFiniteSet(HeldOn(k)) /\ heldCost[k] = Cardinality(HeldOn(k))
      BY HeldOnFinite, AddUpIsHeldOn DEF HeldOn, moved, from
    <2>2. CASE k # c
      <3>1. HeldOn(k)' = HeldOn(k) \ from(k)
        BY <1>2, <2>2 DEF HeldOn, moved, from
      <3>2. Cardinality(HeldOn(k) \ from(k)) = Less(heldCost[k], Cardinality(from(k)))
        BY <2>1, TakenAway
      <3>3. Cardinality(HeldOn(k) \ from(k)) \in Nat
        BY CtxFinite DEF HeldOn
      <3> QED
        <4>1. heldCost'[k] = Less(heldCost[k], Cardinality(from(k))) + 0
          BY <1>3, <2>2
        <4> QED
          BY <3>1, <3>2, <3>3, <4>1
    <2>3. CASE k = c
      <3>1. c # 0 /\ from(k) = {}
        BY <2>3 DEF Ctx, moved, from
      <3>2. HeldOn(k)' = HeldOn(k) \cup moved /\ HeldOn(k) \cap moved = {}
        BY <1>2, <2>3, <3>1 DEF HeldOn, moved
      <3>3. IsFiniteSet(moved) /\ Cardinality(moved) \in Nat
        BY CtxFinite DEF moved
      <3>4. Cardinality(HeldOn(k) \cup moved) = heldCost[k] + Cardinality(moved)
        BY <2>1, <3>2, <3>3, PutTogether
      <3>5. Less(heldCost[k], Cardinality(from(k))) = heldCost[k]
        <4>1. heldCost[k] \in Nat /\ Cardinality(from(k)) = 0
          BY <3>1, FS_EmptySet DEF Types
        <4> QED
          BY <4>1 DEF Less
      <3> QED
        BY <1>3, <2>3, <3>2, <3>4, <3>5
    <2> QED
      BY <2>2, <2>3
  <1> QED
    BY <1>4 DEF HoldsAddUp, HeldOn

LEMMA ReleaseAddsUp ==
  ASSUME Types, Unbounded, HoldsAddUp, NEW d \in Call, Release(d)
  PROVE  HoldsAddUp'
  <1>1. /\ ~Bounded(d)' /\ hold'[d] = None
        /\ \A x \in Call \ {d} : (Bounded(x)' <=> Bounded(x)) /\ hold'[x] = hold[x]
    BY ReleaseTyped DEF Bounded
  <1>2. ASSUME NEW k \in Ctx PROVE heldCost'[k] = Cardinality(HeldOn(k)')
    <2>1. /\ IsFiniteSet(HeldOn(k)) /\ heldCost[k] = Cardinality(HeldOn(k))
          /\ heldCost'[k] = IF d \in HeldOn(k) THEN Less(heldCost[k], 1) ELSE heldCost[k]
      BY HeldOnFinite, AddUpIsHeldOn DEF Release, HeldOn
    <2>2. CASE d \in HeldOn(k)
      <3>1. HeldOn(k)' = HeldOn(k) \ {d} /\ {d} \in SUBSET HeldOn(k)
        BY <1>1, <2>2 DEF HeldOn
      <3>2. Cardinality({d}) = 1
        BY FS_Singleton
      <3>3. Cardinality(HeldOn(k) \ {d}) = Less(Cardinality(HeldOn(k)), 1)
        BY <2>1, <3>1, <3>2, TakenAway
      <3> QED
        BY <2>1, <2>2, <3>1, <3>3
    <2>3. CASE d \notin HeldOn(k)
      <3>1. HeldOn(k)' = HeldOn(k)
        BY <1>1, <2>3 DEF HeldOn
      <3> QED
        BY <2>1, <2>3, <3>1
    <2> QED
      BY <2>2, <2>3
  <1> QED
    BY <1>2 DEF HoldsAddUp, HeldOn

LEMMA PriceAddsUp ==
  ASSUME Types, Unbounded, HoldsAddUp, NEW d \in Call, Price(d)
  PROVE  HoldsAddUp'
  <1>1. /\ ~Bounded(d) /\ hold'[d] # None /\ hold'[d].ctx = hold[d].ctx
        /\ \A x \in Call \ {d} : (Bounded(x)' <=> Bounded(x)) /\ hold'[x] = hold[x]
    BY PriceTyped DEF Bounded, Price
  <1>2. \/ Bounded(d)' /\ heldCost' = [k \in Ctx |-> heldCost[k] + (IF k = hold[d].ctx THEN 1 ELSE 0)]
        \/ ~Bounded(d)' /\ heldCost' = heldCost
    <2>1. hold[d] \in Holding
      BY DEF Types, Price
    <2> QED
      BY <1>1, <2>1 DEF Bounded, Price, Types, Holding
  <1>3. ASSUME NEW k \in Ctx PROVE heldCost'[k] = Cardinality(HeldOn(k)')
    <2>1. /\ IsFiniteSet(HeldOn(k)) /\ heldCost[k] = Cardinality(HeldOn(k)) /\ d \notin HeldOn(k)
          /\ IsFiniteSet({d}) /\ Cardinality({d}) = 1 /\ heldCost[k] \in Nat
      <3>1. d \notin HeldOn(k)
        BY <1>1 DEF HeldOn
      <3>2. heldCost[k] \in Nat
        BY DEF Types
      <3>3. IsFiniteSet(HeldOn(k)) /\ heldCost[k] = Cardinality(HeldOn(k))
        BY HeldOnFinite, AddUpIsHeldOn
      <3>4. IsFiniteSet({d}) /\ Cardinality({d}) = 1
        BY FS_Singleton
      <3> QED
        BY <3>1, <3>2, <3>3, <3>4
    <2>2. CASE Bounded(d)' /\ hold[d].ctx = k
      <3>1. HeldOn(k)' = HeldOn(k) \cup {d} /\ HeldOn(k) \cap {d} = {}
        BY <1>1, <2>1, <2>2 DEF HeldOn
      <3>2. Cardinality(HeldOn(k) \cup {d}) = heldCost[k] + 1
        BY <2>1, <3>1, PutTogether
      <3>3. heldCost'[k] = heldCost[k] + 1
        BY <1>2, <2>2
      <3> QED
        BY <3>1, <3>2, <3>3
    <2>3. CASE ~(Bounded(d)' /\ hold[d].ctx = k)
      <3>1. HeldOn(k)' = HeldOn(k)
        BY <1>1, <2>1, <2>3 DEF HeldOn
      <3>2. heldCost'[k] = heldCost[k]
        BY <1>2, <2>1, <2>3
      <3> QED
        BY <2>1, <3>1, <3>2
    <2> QED
      BY <2>2, <2>3
  <1> QED
    BY <1>3 DEF HoldsAddUp, HeldOn

LEMMA SameHoldsAddUp ==
  ASSUME HoldsAddUp, heldCost' = heldCost,
         \A d \in Call : (Bounded(d)' <=> Bounded(d)) /\ (Bounded(d) => hold'[d].ctx = hold[d].ctx)
  PROVE  HoldsAddUp'
  <1>1. \A k \in Ctx : HeldOn(k)' = HeldOn(k)
    BY DEF HeldOn
  <1>2. \A k \in Ctx : heldCost'[k] = Cardinality(HeldOn(k)')
    BY <1>1, AddUpIsHeldOn
  <1> QED
    BY <1>2 DEF HoldsAddUp, HeldOn

LEMMA AddsUpStep ==
  ASSUME Types, Unbounded, Untouched, HoldsAddUp, [Next]_vars
  PROVE  HoldsAddUp'
  <1> USE DEF process, calls, holds, settle, ledger, bounds
  <1>1. ASSUME UNCHANGED holds PROVE HoldsAddUp'
    BY <1>1, SameHoldsAddUp DEF Bounded
  <1>2. ASSUME NEW d \in Call, Leave(d) PROVE HoldsAddUp'
    <2>1. on[d] \in Ctx \cup {0} /\ HoldAll({d}, [x \in Call |-> "bare"], on[d]) /\ {d} \in SUBSET Call
      BY <1>2 DEF Types, Leave
    <2> QED
      BY <2>1, HoldAllAddsUp
  <1>3. ASSUME NEW d \in Call, Price(d) PROVE HoldsAddUp'
    BY <1>3, PriceAddsUp
  <1>4. ASSUME NEW d \in Call, GetsNone(d) \/ Take(d) PROVE HoldsAddUp'
    BY <1>4, ReleaseAddsUp DEF GetsNone, Take
  <1>5. ASSUME NEW D \in SUBSET Call, Settle(D), UNCHANGED heldCost PROVE HoldsAddUp'
    BY <1>5, SettleTyped, SameHoldsAddUp DEF Bounded
  <1>6. ASSUME NEW d \in Call, TakeFails(d) PROVE HoldsAddUp'
    BY <1>6, TakeFailsTyped, SameHoldsAddUp DEF Bounded, TakeFails
  <1>7. ASSUME NEW t \in Task, HoldListed(t) PROVE HoldsAddUp'
    <2>1. /\ HoldAll(Unsettled(t), task[t].seen, IF task[t].kind = "adopt" THEN root ELSE 0)
          /\ Unsettled(t) \in SUBSET Call
          /\ (IF task[t].kind = "adopt" THEN root ELSE 0) \in Ctx \cup {0}
      BY <1>7 DEF HoldListed, Unsettled, Pending, Types
    <2> QED
      BY <2>1, HoldAllAddsUp
  <1>8. ASSUME NEW t \in Task, GetWrittenOff(t) PROVE HoldsAddUp'
    <2>1. ASSUME NEW d \in Call, NEW r \in Record, HoldAll({d}, Only(d, r), 0) PROVE HoldsAddUp'
      BY <2>1, HoldAllAddsUp
    <2> QED
      BY <1>1, <1>8, <2>1 DEF GetWrittenOff, Pending
  <1>9. ASSUME Crash PROVE HoldsAddUp'
    <2>1. \A k \in Ctx : HeldOn(k)' = {} /\ heldCost'[k] = 0
      BY <1>9 DEF Crash, HeldOn, Bounded
    <2>2. \A k \in Ctx : heldCost'[k] = Cardinality(HeldOn(k)')
      BY <2>1, FS_EmptySet
    <2> QED
      BY <2>2 DEF HoldsAddUp, HeldOn
  <1>10. ASSUME NEW d \in Call, Bill(d) PROVE HoldsAddUp'
    BY <1>5, <1>10 DEF Bill
  <1>11. ASSUME NEW t \in Task, WrittenOff(t) PROVE HoldsAddUp'
    BY <1>5, <1>11 DEF WrittenOff, Pending
  <1> QED
    BY <1>1, <1>2, <1>3, <1>4, <1>6, <1>7, <1>8, <1>9, <1>10, <1>11, ZenonT(40)
    DEF Next, Open, Opened, OpenFails, NoteGeneration, Completes, Refused, Cut, Ends, Write, WriteFails, LookUp,
        LookedUp, Get, Charged, ChargeFails, Reconcile, Restore, List, TaskFails, Adopted, Reconciled,
        WriteOff, Checkpoint, RunEnds, Restart, vars

-----------------------------------------------------------------------------
(* Dispatches. *)

LEMMA QueuedStep ==
  ASSUME Types, Untouched, Queued, [Next]_vars
  PROVE  Queued'
  <1> SUFFICES ASSUME NEW x \in Call PROVE QueuedAt(x)'
    BY DEF Queued
  <1> USE DEF process, calls, holds, settle, ledger, bounds
  <1>0. /\ QueuedAt(x) /\ writes[x] \in Seq(Doings) /\ call[x] \in Phases
        /\ writes \in [Call -> Seq(Doings)] /\ call \in [Call -> Phases]
    BY DEF Queued, Types
  <1>1. ASSUME UNCHANGED <<writes, call>> PROVE QueuedAt(x)'
    BY <1>0, <1>1 DEF QueuedAt
  <1>2. ASSUME writes'[x] = <<>>, call'[x] \notin {"counted", "refused"} \/ call'[x] = call[x] PROVE QueuedAt(x)'
    BY <1>0, <1>2 DEF QueuedAt
  <1>3. ASSUME writes'[x] = writes[x], call'[x] = call[x] PROVE QueuedAt(x)'
    BY <1>3, <1>0 DEF QueuedAt
  <1>4. ASSUME NEW d \in Call, Open(d) \/ Opened(d) \/ OpenFails(d) \/ LookUp(d) PROVE QueuedAt(x)'
    <2>1. writes' = writes /\ \E pc \in {"opening", "sent", "over"} : call' = [call EXCEPT ![d] = pc]
      BY <1>4 DEF Open, Opened, OpenFails, Sent, LookUp
    <2>2. call[d] \in {"new", "opening", "left"}
      BY <1>4 DEF Open, Opened, OpenFails, Sent, LookUp
    <2> QED
      BY <1>0, <1>3, <2>1, <2>2 DEF QueuedAt
  <1>5. ASSUME NEW d \in Call, NEW w \in Doings, NEW pc \in {"sent", "counted", "refused", "cut"}, call[d] = "sent",
               writes' = [writes EXCEPT ![d] = Append(writes[d], w)], call' = [call EXCEPT ![d] = pc],
               w = "put" => pc = "sent", w = "remove" <=> pc \in {"counted", "refused"}, w = "leave" <=> pc = "cut"
        PROVE  QueuedAt(x)'
    <2>1. CASE x # d
      BY <1>0, <1>3, <1>5, <2>1
    <2>2. CASE x = d
      <3>1. \A i \in 1 .. Len(writes[x]) : writes[x][i] = "put"
        <4>1. \A i \in 1 .. Len(writes[x]) : writes[x][i] \in Doings
          BY <1>0
        <4> QED
          BY <1>0, <1>5, <2>2, <4>1 DEF QueuedAt, Doings
      <3>2. /\ writes'[x] = Append(writes[x], w) /\ call'[x] = pc
            /\ Len(writes'[x]) = Len(writes[x]) + 1 /\ writes'[x][Len(writes[x]) + 1] = w
            /\ \A i \in 1 .. Len(writes[x]) : writes'[x][i] = writes[x][i]
            /\ Len(writes[x]) \in Nat
        BY <1>0, <1>5, <2>2
      <3>3. \A i \in 1 .. Len(writes'[x]) : i = Len(writes'[x]) \/ writes'[x][i] = "put"
        BY <3>1, <3>2
      <3>4. writes'[x] # <<>>
        BY <3>2
      <3> QED
        BY <1>5, <3>2, <3>3, <3>4 DEF QueuedAt, Doings
    <2> QED
      BY <2>1, <2>2
  <1>6. ASSUME NEW d \in Call, NoteGeneration(d) \/ Completes(d) \/ Refused(d) \/ Cut(d) PROVE QueuedAt(x)'
    <2>1. /\ call[d] = "sent"
          /\ \E w \in Doings, pc \in {"sent", "counted", "refused", "cut"} :
               /\ writes' = [writes EXCEPT ![d] = Append(writes[d], w)]
               /\ call' = [call EXCEPT ![d] = pc]
               /\ (w = "put" => pc = "sent") /\ (w = "remove" <=> pc \in {"counted", "refused"})
               /\ (w = "leave" <=> pc = "cut")
      <3>1. CASE NoteGeneration(d)
        <4>1. call' = [call EXCEPT ![d] = "sent"]
          BY <1>0, <3>1 DEF NoteGeneration
        <4> QED
          BY <3>1, <4>1 DEF NoteGeneration, Doings
      <3>2. CASE Completes(d) \/ Refused(d) \/ Cut(d)
        BY <3>2 DEF Completes, Refused, Cut, Ends, Doings
      <3> QED
        BY <1>6, <3>1, <3>2
    <2> QED
      BY <1>5, <2>1
  <1>7. ASSUME NEW d \in Call, Write(d) \/ WriteFails(d) \/ Leave(d) PROVE QueuedAt(x)'
    <2>1. CASE x # d
      <3>1. writes'[x] = writes[x] /\ call'[x] = call[x]
        BY <1>0, <1>7, <2>1 DEF Write, WriteFails, Leave, Wrote
      <3> QED
        BY <1>3, <3>1
    <2>2. CASE x = d
      <3>1. writes[x] # <<>> /\ writes'[x] = Tail(writes[x])
        BY <1>0, <1>7, <2>2 DEF Write, WriteFails, Leave, Wrote, Doing
      <3>2. /\ Len(writes'[x]) = Len(writes[x]) - 1 /\ Len(writes[x]) \in Nat /\ Len(writes[x]) > 0
            /\ \A i \in 1 .. Len(writes'[x]) : writes'[x][i] = writes[x][i + 1]
            /\ Head(writes[x]) = writes[x][1]
        BY <1>0, <3>1
      <3>3. CASE call'[x] = call[x]
        <4>1. \A i \in 1 .. Len(writes'[x]) :
                /\ i + 1 \in 1 .. Len(writes[x])
                /\ writes'[x][i] = writes[x][i + 1]
          BY <3>2
        <4>2. \A i \in 1 .. Len(writes'[x]) :
                /\ writes'[x][i] = "remove" => call[x] \in {"counted", "refused"}
                /\ writes'[x][i] = "leave" => call[x] = "cut"
                /\ writes'[x][i] # "put" => i = Len(writes'[x])
          BY <1>0, <3>2, <4>1 DEF QueuedAt
        <4>3. ASSUME call[x] \in {"counted", "refused"}, writes'[x] # <<>>
              PROVE  writes'[x][Len(writes'[x])] = "remove"
          <5>1. Len(writes'[x]) \in 1 .. Len(writes'[x])
            <6>1. writes'[x] \in Seq(Doings)
              BY <1>0, <3>1
            <6> QED
              BY <4>3, <6>1
          <5>2. writes'[x][Len(writes'[x])] = writes[x][Len(writes[x])]
            BY <3>2, <5>1
          <5> QED
            BY <1>0, <3>1, <4>3, <5>2 DEF QueuedAt
        <4>4. call[x] \notin {"new", "left"}
          BY <1>0, <3>1 DEF QueuedAt
        <4> QED
          BY <3>3, <4>2, <4>3, <4>4 DEF QueuedAt
      <3>4. CASE Leave(d)
        <4>1. writes[x][1] = "leave" /\ call'[x] = "left" /\ 1 \in 1 .. Len(writes[x])
          BY <1>0, <2>2, <3>1, <3>2, <3>4 DEF Leave, Doing
        <4>2. Len(writes[x]) = 1
          BY <1>0, <4>1 DEF QueuedAt
        <4>3. writes'[x] = <<>>
          <5>1. writes'[x] \in Seq(Doings)
            BY <1>0, <3>1
          <5>2. Len(writes'[x]) = 0
            BY <3>2, <4>2
          <5> QED
            BY <5>1, <5>2
        <4> QED
          BY <1>2, <4>1, <4>3
      <3> QED
        BY <1>7, <3>3, <3>4 DEF Write, WriteFails
    <2> QED
      BY <2>1, <2>2
  <1>8. ASSUME Crash PROVE QueuedAt(x)'
    <2>1. writes'[x] = <<>> /\ (call'[x] = "gone" \/ call'[x] = call[x])
      BY <1>8 DEF Crash
    <2> QED
      BY <1>2, <2>1
  <1> QED
    BY <1>1, <1>4, <1>6, <1>7, <1>8, ZenonT(40)
    DEF Next, Price, Bill, LookedUp, GetsNone, Get, Take, TakeFails, Charged, ChargeFails, Reconcile, Restore,
        List, HoldListed, GetWrittenOff, TaskFails, Adopted, Reconciled, WrittenOff, WriteOff, Checkpoint, RunEnds,
        Restart, vars

(* What is charged is nothing, or something. *)
LEMMA ChargesTyped ==
  ASSUME Types, NEW d \in Call
  PROVE  /\ Charges(d) \in Nat /\ mem[d] \in Nat /\ kept[d] \in Nat /\ charging[d] \in Nat
         /\ Charges(d) = 0 <=> mem[d] = 0 /\ kept[d] = 0 /\ charging[d] = 0
  BY DEF Types, Charges

LEMMA Onward ==
  ASSUME Types, Queued, Untouched, [Next]_vars, NEW x \in Call
  PROVE  /\ call[x] # "new" => call'[x] # "new"
         /\ call[x] \notin Early => call'[x] \notin Early
  <1> USE DEF process, calls, holds, settle, ledger, bounds
  <1>0. call \in [Call -> Phases]
    BY DEF Types
  <1>1. CASE call' = call
    BY <1>1
  <1>2. ASSUME NEW d \in Call, Open(d) \/ Opened(d) \/ OpenFails(d) \/ Completes(d) \/ Refused(d) \/ Cut(d) \/ Leave(d)
               \/ LookUp(d)
        PROVE  /\ call[x] # "new" => call'[x] # "new"
               /\ call[x] \notin Early => call'[x] \notin Early
    <2>1. \E pc \in Phases : /\ call' = [call EXCEPT ![d] = pc] /\ pc # "new"
                             /\ pc \in Early => call[d] \in Early
      BY <1>2 DEF Open, Opened, OpenFails, Sent, Completes, Refused, Cut, Ends, Leave, LookUp, Phases, Early
    <2> QED
      BY <1>0, <2>1 DEF Early
  <1>3. CASE Crash
    <2>1. call'[x] = call[x] \/ call'[x] = "gone"
      BY <1>3 DEF Crash
    <2> QED
      BY <2>1 DEF Early
  <1> QED
    BY <1>1, <1>2, <1>3, ZenonT(40)
    DEF Next, NoteGeneration, Write, WriteFails, Price, Bill, LookedUp, GetsNone, Get, Take, TakeFails, Charged,
        ChargeFails, Reconcile, Restore, List, HoldListed, GetWrittenOff, TaskFails, Adopted, Reconciled,
        WrittenOff, WriteOff, Checkpoint, RunEnds, Restart, vars

(* What a reconciliation holds, and what a write-off settles, is over. *)
LEMMA ListedIsOver ==
  ASSUME Types, Untouched, NEW t \in Task, NEW d \in Call, task[t].seen[d] # "none",
         task[t].pc \in {"get", "ready"} \/ (task[t].pc = "hold" /\ d \notin live)
  PROVE  call[d] \notin Early
  BY DEF Untouched, UntouchedAt, Seen, Early

LEMMA UntouchedStep ==
  ASSUME Types, Unbounded, Queued, Untouched, [Next]_vars, NEW x \in Call
  PROVE  UntouchedAt(x)'
  <1> USE DEF process, calls, holds, settle, ledger, bounds
  <1>0. /\ UntouchedAt(x) /\ call \in [Call -> Phases] /\ rec \in [Call -> Record]
        /\ live \subseteq Call /\ settling \in [Call -> {"no", "get", "remove"}]
        /\ hold \in [Call -> Holding \cup {None}]
        /\ charging \in [Call -> Nat] /\ mem \in [Call -> Nat] /\ kept \in [Call -> Nat]
    BY DEF Untouched, Types
  <1>1. ASSUME UNCHANGED <<call, live, rec, hold, settling, mem, kept, charging>> PROVE UntouchedAt(x)'
    BY <1>0, <1>1 DEF UntouchedAt, Charges
  <1>2. ASSUME UNCHANGED <<rec, hold, settling, mem, kept, charging>>,
               NEW d \in Call, Open(d)
        PROVE UntouchedAt(x)'
    BY <1>0, <1>2 DEF UntouchedAt, Open, Charges, Early
  <1>3. ASSUME NEW d \in Call, Opened(d) \/ OpenFails(d) PROVE UntouchedAt(x)'
    <2>1. /\ call[d] = "opening" /\ call' = [call EXCEPT ![d] = "sent"]
          /\ rec' = rec \/ rec' = [rec EXCEPT ![d] = "bare"]
          /\ UNCHANGED <<live, hold, settling, mem, kept, charging>>
      BY <1>3 DEF Opened, OpenFails, Sent
    <2> QED
      BY <1>0, <2>1 DEF UntouchedAt, Charges, Early
  <1>4. ASSUME NEW d \in Call, Completes(d) \/ Refused(d) \/ Cut(d) PROVE UntouchedAt(x)'
    <2>1. /\ \E pc \in {"counted", "refused", "cut"} : call' = [call EXCEPT ![d] = pc]
          /\ live' = live \ {d} /\ call[d] = "sent"
          /\ UNCHANGED <<rec, hold, settling, kept, charging>>
          /\ mem' = mem \/ mem' = [mem EXCEPT ![d] = mem[d] + 1]
      BY <1>4 DEF Completes, Refused, Cut, Ends
    <2>2. CASE x # d
      BY <1>0, <2>1, <2>2 DEF UntouchedAt, Charges
    <2>3. CASE x = d
      <3>1. call'[x] \notin Early \cup {"new"} /\ hold'[x] = hold[x] /\ settling'[x] = settling[x]
        BY <1>0, <2>1, <2>3 DEF Early
      <3> QED
        BY <1>0, <3>1 DEF UntouchedAt, Early
    <2> QED
      BY <2>2, <2>3
  <1>5. ASSUME NEW d \in Call, Write(d) \/ WriteFails(d) PROVE UntouchedAt(x)'
    <2>1. call[d] # "new"
      BY <1>5 DEF Queued, QueuedAt, Write, WriteFails, Doing
    <2>2. /\ UNCHANGED <<call, live, hold, settling, mem, kept, charging>>
          /\ \A y \in Call \ {d} : rec'[y] = rec[y]
      BY <1>0, <1>5 DEF Write, WriteFails, Landed
    <2> QED
      BY <1>0, <2>1, <2>2 DEF UntouchedAt, Charges
  <1>6. ASSUME NEW d \in Call, call[d] \notin Early,
               UNCHANGED <<call, live, rec, mem, kept, charging, settling>>,
               \A y \in Call \ {d} : hold'[y] = hold[y], hold'[d] # None
        PROVE  UntouchedAt(x)'
    BY <1>0, <1>6 DEF UntouchedAt, Charges
  <1>7. ASSUME NEW d \in Call, Price(d) PROVE UntouchedAt(x)'
    <2>1. call[d] \notin Early
      BY <1>7 DEF Price, Untouched, UntouchedAt
    <2> QED
      BY <1>6, <1>7, <2>1, PriceTyped DEF Price
  <1>8. ASSUME NEW d \in Call, Leave(d) PROVE UntouchedAt(x)'
    <2>1. call[d] = "cut"
      <3>1. writes[d] # <<>> /\ writes[d] \in Seq(Doings) /\ Head(writes[d]) = "leave"
        BY <1>8 DEF Leave, Doing, Types
      <3>2. 1 \in 1 .. Len(writes[d]) /\ writes[d][1] = "leave"
        BY <3>1
      <3> QED
        BY <3>2 DEF Queued, QueuedAt
    <2>2. on[d] \in Ctx \cup {0} /\ HoldAll({d}, [y \in Call |-> "bare"], on[d]) /\ {d} \in SUBSET Call
      BY <1>8 DEF Types, Leave
    <2>3. hold'[d] # None /\ \A y \in Call \ {d} : hold'[y] = hold[y]
      BY <2>2, HoldAllTyped
    <2>4. /\ call' = [call EXCEPT ![d] = "left"]
          /\ UNCHANGED <<live, rec, mem, kept, charging, settling>>
      BY <1>8 DEF Leave
    <2>5. call'[x] \in Early => call[x] \in Early /\ x # d /\ call'[x] = call[x]
      BY <1>0, <2>4 DEF Early
    <2>6. call'[x] = "new" => call[x] = "new"
      BY <1>0, <2>4
    <2>7. call'[x] \in {"opening", "sent"} => call[x] \in {"opening", "sent"}
      BY <1>0, <2>4
    <2> QED
      BY <1>0, <2>3, <2>4, <2>5, <2>6, <2>7 DEF UntouchedAt, Charges
  <1>9. ASSUME NEW d \in Call, LookUp(d) PROVE UntouchedAt(x)'
    <2>1. /\ call[d] = "left" /\ call' = [call EXCEPT ![d] = "over"]
          /\ UNCHANGED <<live, rec, hold, mem, kept, charging, settling>>
      BY <1>9 DEF LookUp
    <2> QED
      BY <1>0, <2>1 DEF UntouchedAt, Charges, Early
  <1>10. ASSUME NEW D \in SUBSET Call, Settle(D), UNCHANGED <<call, live, rec, mem, kept, charging>>
         PROVE  UntouchedAt(x)'
    <2>1. /\ hold'[x] = None <=> hold[x] = None
          /\ settling'[x] = settling[x] \/ (settling'[x] = "get" /\ hold[x] # None)
      BY <1>10, SettleTyped
    <2> QED
      BY <1>0, <1>10, <2>1 DEF UntouchedAt, Charges
  <1>11. ASSUME NEW d \in Call, settling[d] # "no" \/ Charges(d) # 0,
                UNCHANGED <<call, live>>, rec'[d] = rec[d] \/ rec'[d] \in Record,
                \A y \in Call \ {d} : /\ rec'[y] = rec[y] /\ hold'[y] = hold[y] /\ settling'[y] = settling[y]
                                      /\ mem'[y] = mem[y] /\ kept'[y] = kept[y] /\ charging'[y] = charging[y],
                settling'[d] # "no" => hold'[d] # None
         PROVE  UntouchedAt(x)'
    <2>1. call[d] \notin Early
      BY <1>11 DEF Untouched, UntouchedAt
    <2> QED
      BY <1>0, <1>11, <2>1 DEF UntouchedAt, Charges, Early
  <1>12. ASSUME NEW d \in Call, GetsNone(d) \/ Get(d) \/ Take(d) PROVE UntouchedAt(x)'
    <2>1. settling[d] # "no" /\ UNCHANGED <<call, live>>
      BY <1>12 DEF GetsNone, Get, Take
    <2>2. \A y \in Call \ {d} : /\ rec'[y] = rec[y] /\ settling'[y] = settling[y]
                                /\ mem'[y] = mem[y] /\ kept'[y] = kept[y] /\ charging'[y] = charging[y]
      BY <1>0, <1>12 DEF GetsNone, Get, Take, Charge
    <2>3. \A y \in Call \ {d} : hold'[y] = hold[y]
      BY <1>12, ReleaseTyped DEF GetsNone, Get, Take
    <2>4. settling'[d] # "no" => hold'[d] # None
      BY <1>0, <1>12 DEF GetsNone, Get, Take, Untouched, UntouchedAt
    <2>5. rec'[d] = rec[d] \/ rec'[d] \in Record
      BY <1>0, <1>12 DEF GetsNone, Get, Take, Record
    <2> QED
      BY <1>11, <2>1, <2>2, <2>3, <2>4, <2>5
  <1>13. ASSUME NEW d \in Call, TakeFails(d) PROVE UntouchedAt(x)'
    <2>1. /\ settling[d] # "no" /\ settling' = [settling EXCEPT ![d] = "no"]
          /\ UNCHANGED <<call, live, mem, kept, charging>>
          /\ rec' = rec \/ rec' = [rec EXCEPT ![d] = "none"]
      BY <1>13 DEF TakeFails
    <2>2. \A y \in Call \ {d} : hold'[y] = hold[y]
      BY <1>13, TakeFailsTyped
    <2>3. settling'[d] = "no" /\ \A y \in Call \ {d} : rec'[y] = rec[y] /\ settling'[y] = settling[y]
      BY <1>0, <2>1
    <2>4. rec'[d] = rec[d] \/ rec'[d] \in Record
      BY <1>0, <2>1 DEF Record
    <2> QED
      BY <1>11, <2>1, <2>2, <2>3, <2>4
  <1>14. ASSUME NEW d \in Call, Charged(d) \/ ChargeFails(d) PROVE UntouchedAt(x)'
    <2>1. charging[d] > 0 /\ UNCHANGED <<call, live, rec, hold, settling>>
      BY <1>14 DEF Charged, ChargeFails
    <2>2. Charges(d) # 0
      BY <2>1, ChargesTyped
    <2>3. \A y \in Call \ {d} : mem'[y] = mem[y] /\ kept'[y] = kept[y] /\ charging'[y] = charging[y]
      BY <1>0, <1>14 DEF Charged, ChargeFails
    <2>4. settling'[d] # "no" => hold'[d] # None
      BY <2>1 DEF Untouched, UntouchedAt
    <2> QED
      BY <1>11, <2>1, <2>2, <2>3, <2>4
  <1>15. ASSUME NEW D \in SUBSET Call, NEW r, NEW c \in Ctx \cup {0}, HoldAll(D, r, c), \A d \in D : call[d] \notin Early,
                UNCHANGED <<call, live, rec, mem, kept, charging, settling>>
         PROVE  UntouchedAt(x)'
    <2>1. /\ hold'[x] = None => hold[x] = None
          /\ x \notin D => hold'[x] = hold[x]
      BY <1>15, HoldAllTyped
    <2> QED
      BY <1>0, <1>15, <2>1 DEF UntouchedAt, Charges
  <1>16. ASSUME NEW t \in Task, HoldListed(t) PROVE UntouchedAt(x)'
    <2>1. /\ HoldAll(Unsettled(t), task[t].seen, IF task[t].kind = "adopt" THEN root ELSE 0)
          /\ Unsettled(t) \in SUBSET Call /\ task[t].pc = "hold"
          /\ (IF task[t].kind = "adopt" THEN root ELSE 0) \in Ctx \cup {0}
      BY <1>16 DEF HoldListed, Unsettled, Pending, Types
    <2>2. \A d \in Unsettled(t) : call[d] \notin Early
      BY <2>1, ListedIsOver DEF Unsettled, Pending
    <2> QED
      BY <1>15, <1>16, <2>1, <2>2 DEF HoldListed
  <1>17. ASSUME NEW t \in Task, GetWrittenOff(t) PROVE UntouchedAt(x)'
    <2>1. UNCHANGED <<call, live, rec, mem, kept, charging, settling>> /\ task[t].pc = "get"
      BY <1>17 DEF GetWrittenOff
    <2>2. ASSUME NEW d \in Pending(t), NEW r \in Record, HoldAll({d}, Only(d, r), 0) PROVE UntouchedAt(x)'
      <3>1. d \in Call /\ {d} \in SUBSET Call /\ call[d] \notin Early
        BY <2>1, ListedIsOver DEF Pending
      <3> QED
        BY <1>15, <2>1, <2>2, <3>1
    <2> QED
      BY <1>1, <1>17, <2>1, <2>2 DEF GetWrittenOff
  <1>18. ASSUME Checkpoint PROVE UntouchedAt(x)'
    <2>1. /\ UNCHANGED <<call, live, rec, hold, settling, charging>>
          /\ kept'[x] = IF x \in Stored THEN kept[x] + mem[x] ELSE kept[x]
          /\ mem'[x] = IF x \in Stored THEN 0 ELSE mem[x]
      BY <1>18 DEF Checkpoint
    <2>2. Charges(x)' = Charges(x)
      BY <1>0, <2>1 DEF Charges
    <2> QED
      BY <1>0, <2>1, <2>2 DEF UntouchedAt
  <1>19. ASSUME Crash PROVE UntouchedAt(x)'
    <2>1. /\ call'[x] = (IF call[x] = "new" \/ kept[x] > 0 THEN call[x] ELSE "gone")
          /\ hold'[x] = None /\ settling'[x] = "no" /\ mem'[x] = 0 /\ charging'[x] = 0 /\ kept'[x] = kept[x]
          /\ rec'[x] \in Left(x)
      BY <1>19 DEF Crash
    <2>2. call[x] \in Early => kept[x] = 0 /\ settling[x] = "no"
      BY <1>0, ChargesTyped DEF UntouchedAt
    <2>3. call'[x] \in Early => call[x] = "new" /\ kept[x] = 0 /\ call'[x] = "new"
      BY <2>1, <2>2 DEF Early
    <2>4. call[x] = "new" => rec'[x] = "none"
      <3>1. call[x] = "new" => writes[x] = <<>> /\ settling[x] = "no" /\ rec[x] = "none"
        BY <1>0, <2>2 DEF Queued, QueuedAt, UntouchedAt, Early
      <3> QED
        BY <2>1, <3>1 DEF Left, Doing
    <2> QED
      BY <2>1, <2>3, <2>4 DEF UntouchedAt, Charges, Early
  <1>20. ASSUME NEW d \in Call, Bill(d) PROVE UntouchedAt(x)'
    BY <1>10, <1>20 DEF Bill
  <1>21. ASSUME NEW t \in Task, WrittenOff(t) PROVE UntouchedAt(x)'
    BY <1>10, <1>21 DEF WrittenOff, Pending
  <1>22. ASSUME NEW d \in Call, Open(d) PROVE UntouchedAt(x)'
    BY <1>2, <1>22 DEF Open
  <1> QED
    BY <1>1, <1>22, <1>3, <1>4, <1>5, <1>7, <1>8, <1>9, <1>12, <1>13, <1>14, <1>16, <1>17, <1>18, <1>19, <1>20, <1>21
    DEF Next, NoteGeneration, LookedUp, Reconcile, Restore, List, TaskFails, Adopted, Reconciled,
        WriteOff, RunEnds, Restart, vars

LEMMA SeenStep ==
  ASSUME Types, Queued, Untouched, [Next]_vars, NEW t \in Task, NEW x \in Call
  PROVE  Seen(t, x)'
  <1> USE DEF process, calls, holds, settle, ledger, bounds
  <1>0. Seen(t, x) /\ UntouchedAt(x)
    BY DEF Untouched
  <1>1. ASSUME task'[t] = task[t] PROVE Seen(t, x)'
    BY <1>0, <1>1, Onward DEF Seen
  <1>2. ASSUME task'[t].seen[x] = "none" PROVE Seen(t, x)'
    BY <1>2 DEF Seen
  <1>3. ASSUME NEW u \in Task, NEW kind \in {"adopt", "reconcile", "writeOff"}, NEW pc \in TaskPhases,
               NEW seen \in [Call -> Record], Begin(u, kind, pc, seen),
               u = t => seen[x] = "none"
        PROVE  Seen(t, x)'
    <2>1. u # t => task'[t] = task[t]
      BY <1>3, BeginTyped
    <2>2. u = t => task'[t].seen[x] = "none"
      BY <1>3, BeginTyped
    <2> QED
      BY <1>1, <1>2, <2>1, <2>2
  <1>4. ASSUME NEW u \in Task, Reconcile(u) \/ Restore(u) \/ Adopted(u) PROVE Seen(t, x)'
    <2>1. \E kind \in {"adopt", "reconcile", "writeOff"} : Begin(u, kind, "list", Unseen)
      BY <1>4 DEF Reconcile, Restore, Adopted
    <2>2. "list" \in TaskPhases /\ Unseen \in [Call -> Record] /\ Unseen[x] = "none"
      BY SeenTyped DEF TaskPhases, Unseen
    <2> QED
      BY <1>3, <2>1, <2>2
  <1>5. ASSUME NEW u \in Task, task' = [task EXCEPT ![u] = NoTask] PROVE Seen(t, x)'
    <2>1. task'[t] = task[t] \/ task'[t] = NoTask
      BY <1>5 DEF Types
    <2>2. NoTask.seen[x] = "none"
      BY DEF NoTask
    <2> QED
      BY <1>1, <1>2, <2>1, <2>2
  <1>6. ASSUME NEW u \in Task, List(u) PROVE Seen(t, x)'
    <2>1. PICK seen \in [Call -> Record] : /\ \A d \in Call : Reads(d, seen[d])
                                           /\ Begin(u, task[u].kind, "hold", seen)
      BY <1>6 DEF List
    <2>2. task[u].kind \in {"adopt", "reconcile", "writeOff"} /\ "hold" \in TaskPhases
      BY DEF Types, TaskPhases
    <2>3. CASE u # t
      BY <1>1, <2>1, <2>2, <2>3, BeginTyped
    <2>4. CASE u = t
      <3>1. task'[t].pc = "hold" /\ task'[t].seen = seen
        BY <2>1, <2>2, <2>4, BeginTyped
      <3>2. seen[x] # "none" => call[x] # "new"
        BY <1>0, <2>1 DEF Reads, Doing, Queued, QueuedAt, UntouchedAt
      <3> QED
        BY <3>1, <3>2, Onward DEF Seen
    <2> QED
      BY <2>3, <2>4
  <1>7. ASSUME NEW u \in Task, HoldListed(u) PROVE Seen(t, x)'
    <2> DEFINE seen == [d \in Call |-> IF d \in Unsettled(u) THEN task[u].seen[d] ELSE "none"]
    <2>1. Begin(u, task[u].kind, "ready", seen) /\ task[u].pc = "hold"
      BY <1>7 DEF HoldListed
    <2>2. /\ task[u].kind \in {"adopt", "reconcile", "writeOff"} /\ "ready" \in TaskPhases
          /\ seen \in [Call -> Record]
      BY DEF Types, TaskPhases, Record
    <2>3. seen[x] # "none" => x \notin live /\ task[u].seen[x] # "none"
      BY DEF Unsettled
    <2> HIDE DEF seen
    <2>4. CASE u # t
      BY <1>1, <2>1, <2>2, <2>4, BeginTyped
    <2>5. CASE u = t
      <3>1. task'[t].pc = "ready" /\ task'[t].seen = seen
        BY <2>1, <2>2, <2>5, BeginTyped
      <3>2. seen[x] # "none" => call[x] \notin Early
        BY <2>1, <2>3, ListedIsOver
      <3> QED
        BY <3>1, <3>2, Onward DEF Seen, Early
    <2> QED
      BY <2>4, <2>5
  <1>8. ASSUME NEW u \in Task, NEW d \in Call, NEW r \in Record, NEW pc \in {"get", "ready"},
               Begin(u, "writeOff", pc, Only(d, r)), call[d] \notin Early
        PROVE  Seen(t, x)'
    <2>1. Only(d, r) \in [Call -> Record] /\ pc \in TaskPhases /\ (x # d => Only(d, r)[x] = "none")
      BY SeenTyped DEF TaskPhases
    <2>2. CASE u # t
      BY <1>1, <1>8, <2>1, <2>2, BeginTyped
    <2>3. CASE u = t
      <3>1. task'[t].pc = pc /\ task'[t].seen = Only(d, r)
        BY <1>8, <2>1, <2>3, BeginTyped
      <3>2. x = d => call[x] \notin Early
        BY <1>8
      <3> QED
        BY <2>1, <3>1, <3>2, Onward DEF Seen, Early
    <2> QED
      BY <2>2, <2>3
  <1>9. ASSUME NEW u \in Task, GetWrittenOff(u) PROVE Seen(t, x)'
    <2>1. task[u].pc = "get"
      BY <1>9 DEF GetWrittenOff
    <2>2. PICK d \in Pending(u), r \in Record :
            Begin(u, "reconcile", "idle", Unseen) \/ Begin(u, "writeOff", "ready", Only(d, r))
      BY <1>9 DEF GetWrittenOff
    <2>3. d \in Call /\ call[d] \notin Early
      BY <2>1, ListedIsOver DEF Pending
    <2>4. "idle" \in TaskPhases /\ Unseen \in [Call -> Record] /\ Unseen[x] = "none"
      BY SeenTyped DEF TaskPhases, Unseen
    <2>5. CASE Begin(u, "reconcile", "idle", Unseen)
      BY <1>3, <2>4, <2>5
    <2>6. CASE Begin(u, "writeOff", "ready", Only(d, r))
      BY <1>8, <2>3, <2>6
    <2> QED
      BY <2>2, <2>5, <2>6
  <1>10. ASSUME NEW u \in Task, NEW d \in Call, WriteOff(u, d) PROVE Seen(t, x)'
    <2>1. call[d] \notin Early
      BY <1>10 DEF WriteOff, Untouched, UntouchedAt, Early
    <2>2. "bare" \in Record
      BY DEF Record
    <2> QED
      BY <1>8, <1>10, <2>1, <2>2 DEF WriteOff
  <1>11. ASSUME Crash PROVE Seen(t, x)'
    BY <1>2, <1>11 DEF Crash, NoTask
  <1>12. ASSUME NEW u \in Task, Reconciled(u) \/ WrittenOff(u) \/ TaskFails(u) PROVE Seen(t, x)'
    BY <1>5, <1>12 DEF Reconciled, WrittenOff, TaskFails
  <1>13. ASSUME task' = task PROVE Seen(t, x)'
    BY <1>1, <1>13
  <1>14. ASSUME NEW d \in Call,
                \/ Open(d) \/ Opened(d) \/ OpenFails(d) \/ NoteGeneration(d)
                \/ Completes(d) \/ Refused(d) \/ Cut(d) \/ Write(d) \/ WriteFails(d)
                \/ Price(d) \/ Leave(d) \/ LookUp(d)
                \/ Bill(d) \/ LookedUp(d) \/ GetsNone(d) \/ Get(d) \/ Take(d) \/ TakeFails(d)
                \/ Charged(d) \/ ChargeFails(d)
         PROVE  task' = task
    BY <1>14
    DEF Open, Opened, OpenFails, NoteGeneration, Completes, Refused, Cut, Ends, Write, WriteFails, Price, Leave, LookUp,
        Bill, LookedUp, GetsNone, Get, Take, TakeFails, Charged, ChargeFails
  <1> QED
    BY <1>4, <1>6, <1>7, <1>9, <1>10, <1>11, <1>12, <1>13, <1>14
    DEF Next, Checkpoint, RunEnds, Restart, vars

-----------------------------------------------------------------------------
(* What is charged. *)

(* A step of another call, or of a task, leaves a call's record, dispatch,
   settlement and bills alone. *)
Same(x) ==
  /\ call'[x] = call[x] /\ rec'[x] = rec[x] /\ writes'[x] = writes[x] /\ settling'[x] = settling[x]
  /\ mem'[x] = mem[x] /\ kept'[x] = kept[x] /\ charging'[x] = charging[x] /\ twice'[x] = twice[x]
  /\ x \in billed' => x \in billed
  /\ x \in lost => x \in lost'
OfCall(d) ==
  \/ Open(d) \/ Opened(d) \/ OpenFails(d) \/ NoteGeneration(d)
  \/ Completes(d) \/ Refused(d) \/ Cut(d) \/ Write(d) \/ WriteFails(d)
  \/ Leave(d) \/ LookUp(d) \/ GetsNone(d) \/ Get(d) \/ Take(d) \/ TakeFails(d)
  \/ Charged(d) \/ ChargeFails(d)

(* A settlement of it may begin. *)
Begins(x) ==
  /\ call'[x] = call[x] /\ rec'[x] = rec[x] /\ writes'[x] = writes[x]
  /\ settling'[x] = "get" /\ hold[x] # None
  /\ mem'[x] = mem[x] /\ kept'[x] = kept[x] /\ charging'[x] = charging[x] /\ twice'[x] = twice[x]
  /\ billed' = billed /\ lost' = lost /\ calm' = calm /\ Free

LEMMA Elsewhere ==
  ASSUME Types, NEW d \in Call, NEW x \in Call, x # d, OfCall(d)
  PROVE  Same(x)
  <1> USE DEF process, calls, holds, settle, ledger, bounds
  <1>0. /\ rec \in [Call -> Record] /\ call \in [Call -> Phases] /\ writes \in [Call -> Seq(Doings)]
        /\ settling \in [Call -> {"no", "get", "remove"}]
        /\ charging \in [Call -> Nat] /\ mem \in [Call -> Nat] /\ kept \in [Call -> Nat] /\ twice \in [Call -> Nat]
    BY DEF Types
  <1>1. CASE Open(d) \/ Opened(d) \/ OpenFails(d) \/ NoteGeneration(d)
    BY <1>0, <1>1 DEF Same, Open, Opened, OpenFails, Sent, NoteGeneration
  <1>2. CASE Completes(d) \/ Refused(d) \/ Cut(d)
    BY <1>0, <1>2 DEF Same, Completes, Refused, Cut, Ends
  <1>3. CASE Write(d) \/ WriteFails(d) \/ Leave(d) \/ LookUp(d)
    BY <1>0, <1>3 DEF Same, Write, WriteFails, Landed, Wrote, Leave, LookUp
  <1>4. CASE GetsNone(d) \/ Get(d) \/ Take(d) \/ TakeFails(d)
    BY <1>0, <1>4 DEF Same, GetsNone, Get, Take, TakeFails, Charge
  <1>5. CASE Charged(d) \/ ChargeFails(d)
    BY <1>0, <1>5 DEF Same, Charged, ChargeFails
  <1> QED
    BY <1>1, <1>2, <1>3, <1>4, <1>5 DEF OfCall

(* Every step is one of its own, a checkpoint, a crash, the start of a
   settlement, or none of its business. *)
LEMMA StepOf ==
  ASSUME Types, Unbounded, [Next]_vars, NEW x \in Call
  PROVE  OfCall(x) \/ Checkpoint \/ Crash \/ Begins(x) \/ Same(x)
  <1> USE DEF process, calls, holds, settle, ledger, bounds
  <1>1. ASSUME NEW d \in Call, OfCall(d) PROVE OfCall(x) \/ Same(x)
    BY <1>1, Elsewhere
  <1>2. ASSUME NEW D \in SUBSET Call, Settle(D), Free, calm' = calm,
               UNCHANGED <<call, rec, writes, charging, ledger>>
        PROVE  Begins(x) \/ Same(x)
    <2>1. settling'[x] = settling[x] \/ (settling'[x] = "get" /\ hold[x] # None)
      BY <1>2, SettleTyped
    <2> QED
      BY <1>2, <2>1 DEF Begins, Same
  <1>3. ASSUME NEW d \in Call, Bill(d) PROVE Begins(x) \/ Same(x)
    BY <1>2, <1>3 DEF Bill
  <1>4. ASSUME NEW t \in Task, WrittenOff(t) PROVE Begins(x) \/ Same(x)
    BY <1>2, <1>4 DEF WrittenOff, Pending
  <1>5. ASSUME UNCHANGED <<call, rec, writes, settling, charging, ledger>> PROVE Same(x)
    BY <1>5 DEF Same
  <1> QED
    BY <1>1, <1>3, <1>4, <1>5, ZenonT(40)
    DEF OfCall, Next, Price, LookedUp, Reconcile, Restore, List, HoldListed, GetWrittenOff, TaskFails, Adopted,
        Reconciled, WriteOff, RunEnds, Restart, vars

LEMMA CrashOf ==
  ASSUME Crash, NEW x \in Call
  PROVE  /\ call'[x] = (IF call[x] = "new" \/ kept[x] > 0 THEN call[x] ELSE "gone")
         /\ settling'[x] = "no" /\ mem'[x] = 0 /\ charging'[x] = 0 /\ kept'[x] = kept[x]
         /\ writes'[x] = <<>> /\ twice'[x] = twice[x] /\ rec'[x] \in Left(x) /\ calm' = calm
         /\ x \in billed => x \in billed'
         /\ x \in billed' => x \in billed \/ call[x] = "sent"
         /\ x \in lost' <=> x \in lost \/ mem[x] + charging[x] > 0 \/ (rec'[x] = "none" /\ rec[x] # "none")
  <1>1. /\ call'[x] = (IF call[x] = "new" \/ kept[x] > 0 THEN call[x] ELSE "gone")
        /\ settling'[x] = "no" /\ mem'[x] = 0 /\ charging'[x] = 0 /\ kept'[x] = kept[x]
        /\ writes'[x] = <<>> /\ twice'[x] = twice[x] /\ rec'[x] \in Left(x) /\ calm' = calm
    BY DEF Crash
  <1>2. \E cut \in SUBSET {d \in Call : call[d] = "sent"} : billed' = billed \cup cut
    BY DEF Crash
  <1>3. lost' = lost \cup {d \in Call : mem[d] + charging[d] > 0 \/ (rec'[d] = "none" /\ rec[d] # "none")}
    BY DEF Crash
  <1>4. /\ x \in billed => x \in billed'
        /\ x \in billed' => x \in billed \/ call[x] = "sent"
    BY <1>2
  <1>5. x \in lost' <=> x \in lost \/ mem[x] + charging[x] > 0 \/ (rec'[x] = "none" /\ rec[x] # "none")
    BY <1>3
  <1> QED
    BY <1>1, <1>4, <1>5

LEMMA OnceStep ==
  ASSUME Types, Unbounded, Queued, Untouched, Once, [Next]_vars, NEW x \in Call
  PROVE  OnceAt(x)'
  <1> USE DEF process, calls, holds, settle, ledger, bounds
  <1>0. /\ rec \in [Call -> Record] /\ call \in [Call -> Phases] /\ writes \in [Call -> Seq(Doings)]
        /\ settling \in [Call -> {"no", "get", "remove"}]
        /\ charging \in [Call -> Nat] /\ mem \in [Call -> Nat] /\ kept \in [Call -> Nat] /\ twice \in [Call -> Nat]
    BY DEF Types
  <1>t. charging[x] \in Nat /\ mem[x] \in Nat /\ kept[x] \in Nat /\ twice[x] \in Nat
    BY <1>0
  <1>i. OnceAt(x) /\ UntouchedAt(x) /\ QueuedAt(x)
    BY DEF Once, Untouched, Queued
  <1>1. CASE Same(x)
    BY <1>i, <1>1 DEF Same, OnceAt, Charges
  <1>2. CASE Begins(x)
    BY <1>i, <1>2 DEF Begins, OnceAt, Charges
  <1>3. CASE Open(x) \/ Opened(x) \/ OpenFails(x) \/ NoteGeneration(x)
    <2>1. /\ call'[x] \notin Cutoff /\ settling'[x] = settling[x]
          /\ mem'[x] = mem[x] /\ kept'[x] = kept[x] /\ charging'[x] = charging[x] /\ twice'[x] = twice[x]
      BY <1>0, <1>3 DEF Open, Opened, OpenFails, Sent, NoteGeneration, Cutoff
    <2> QED
      BY <1>i, <2>1 DEF OnceAt, Charges
  <1>4. CASE Completes(x) \/ Refused(x) \/ Cut(x)
    <2>1. /\ call[x] = "sent" /\ settling'[x] = settling[x]
          /\ mem'[x] = mem[x] \/ (mem'[x] = mem[x] + 1 /\ call'[x] = "counted")
          /\ kept'[x] = kept[x] /\ charging'[x] = charging[x] /\ twice'[x] = twice[x]
      BY <1>0, <1>4 DEF Completes, Refused, Cut, Ends
    <2>2. mem[x] = 0 /\ kept[x] = 0 /\ charging[x] = 0 /\ settling[x] = "no"
      BY <1>i, <2>1, ChargesTyped DEF UntouchedAt, Early
    <2> QED
      BY <1>t, <2>1, <2>2 DEF OnceAt, Charges, Cutoff
  <1>5. CASE Write(x) \/ WriteFails(x) \/ Leave(x) \/ LookUp(x)
    <2>1. /\ settling'[x] = settling[x] /\ (writes'[x] # <<>> => writes[x] # <<>>)
          /\ mem'[x] = mem[x] /\ kept'[x] = kept[x] /\ charging'[x] = charging[x] /\ twice'[x] = twice[x]
      BY <1>0, <1>5 DEF Write, WriteFails, Wrote, Doing, Leave, LookUp
    <2>2. rec'[x] # "none" => rec[x] # "none" \/ writes[x] # <<>>
      BY <1>0, <1>5 DEF Write, WriteFails, Landed, Doing, Leave, LookUp
    <2>3. call'[x] \in Cutoff => call[x] \in Cutoff
      <3>1. CASE Leave(x)
        <4>1. writes[x] # <<>> /\ writes[x] \in Seq(Doings) /\ Head(writes[x]) = "leave"
          BY <1>0, <3>1 DEF Leave, Doing
        <4>2. 1 \in 1 .. Len(writes[x]) /\ writes[x][1] = "leave"
          BY <4>1
        <4> QED
          BY <1>i, <4>2 DEF QueuedAt, Cutoff
      <3>2. CASE LookUp(x)
        BY <3>2 DEF LookUp, Cutoff
      <3> QED
        BY <1>5, <3>1, <3>2 DEF Write, WriteFails
    <2>4. Charges(x)' = Charges(x)
      BY <2>1 DEF Charges
    <2> QED
      BY <1>i, <2>1, <2>2, <2>3, <2>4 DEF OnceAt
  <1>6. CASE GetsNone(x) \/ TakeFails(x)
    <2>1. /\ settling'[x] = "no" /\ call'[x] = call[x] /\ writes'[x] = writes[x]
          /\ rec'[x] # "none" => rec[x] # "none"
          /\ mem'[x] = mem[x] /\ kept'[x] = kept[x] /\ charging'[x] = charging[x] /\ twice'[x] = twice[x]
      BY <1>0, <1>6 DEF GetsNone, TakeFails
    <2> QED
      BY <1>i, <2>1 DEF OnceAt, Charges
  <1>7. CASE Get(x)
    <2>1. /\ settling[x] = "get" /\ rec[x] # "none" /\ call'[x] = call[x] /\ writes'[x] = writes[x]
          /\ mem'[x] = mem[x] /\ kept'[x] = kept[x] /\ charging'[x] = charging[x]
          /\ twice'[x] = IF call[x] \in {"counted", "refused"} \/ writes[x] # <<>> THEN twice[x] + 1 ELSE twice[x]
      BY <1>0, <1>7 DEF Get
    <2>2. call[x] \in {"counted", "refused"} \cup Cutoff
      BY <1>0, <1>i, <2>1 DEF UntouchedAt, Early, Cutoff, Phases
    <2> QED
      BY <1>t, <1>i, <2>1, <2>2 DEF OnceAt, Charges, Cutoff
  <1>8. CASE Take(x)
    <2>1. /\ settling[x] = "remove" /\ settling'[x] = "no" /\ rec'[x] = "none"
          /\ call'[x] = call[x] /\ writes'[x] = writes[x] /\ kept'[x] = kept[x] /\ twice'[x] = twice[x]
          /\ \/ mem'[x] = mem[x] + 1 /\ charging'[x] = charging[x]
             \/ mem'[x] = mem[x] /\ charging'[x] = charging[x] + 1
      BY <1>0, <1>8 DEF Take, Charge
    <2>2. Charges(x)' = Charges(x) + 1 /\ Charges(x) \in Nat
      BY <1>t, <2>1 DEF Charges
    <2> QED
      BY <1>t, <1>i, <2>1, <2>2 DEF OnceAt
  <1>9. CASE Charged(x) \/ ChargeFails(x)
    <2>1. /\ settling'[x] = settling[x] /\ call'[x] = call[x] /\ writes'[x] = writes[x] /\ rec'[x] = rec[x]
          /\ charging[x] > 0 /\ charging'[x] = charging[x] - 1 /\ twice'[x] = twice[x]
          /\ \/ mem'[x] = mem[x] + 1 /\ kept'[x] = kept[x]
             \/ mem'[x] = mem[x] /\ kept'[x] = kept[x] + 1
             \/ mem'[x] = mem[x] /\ kept'[x] = kept[x]
      BY <1>0, <1>9 DEF Charged, ChargeFails
    <2>2. Charges(x)' <= Charges(x) /\ Charges(x) \in Nat /\ Charges(x)' \in Nat
      BY <1>t, <2>1 DEF Charges
    <2> QED
      BY <1>t, <1>i, <2>1, <2>2 DEF OnceAt
  <1>10. CASE Checkpoint
    <2>1. /\ settling'[x] = settling[x] /\ call'[x] = call[x] /\ writes'[x] = writes[x] /\ rec'[x] = rec[x]
          /\ charging'[x] = charging[x] /\ twice'[x] = twice[x]
          /\ \/ mem'[x] = 0 /\ kept'[x] = kept[x] + mem[x]
             \/ mem'[x] = mem[x] /\ kept'[x] = kept[x]
      BY <1>0, <1>10 DEF Checkpoint
    <2> QED
      BY <1>t, <1>i, <2>1 DEF OnceAt, Charges
  <1>11. CASE Crash
    <2>1. Charges(x)' = kept[x] /\ twice'[x] = twice[x] /\ settling'[x] = "no" /\ writes'[x] = <<>>
      BY <1>t, <1>11, CrashOf DEF Charges
    <2>2. kept[x] <= Charges(x)
      BY <1>t DEF Charges
    <2>3. ASSUME call'[x] \in Cutoff, rec'[x] # "none", kept[x] > 0 PROVE kept[x] <= twice[x]
      <3>1. call[x] \in Cutoff
        BY <1>11, <2>3, CrashOf
      <3>2. rec[x] # "none" \/ writes[x] # <<>>
        BY <1>11, <2>3, <3>1, CrashOf DEF Left, Cutoff, Doing
      <3> QED
        BY <1>t, <1>i, <2>2, <3>1, <3>2 DEF OnceAt, Charges
    <2>4. kept[x] <= 1 + twice[x]
      BY <1>t, <1>i DEF OnceAt, Charges
    <2> QED
      BY <1>t, <2>1, <2>3, <2>4 DEF OnceAt
  <1> QED
    BY <1>1, <1>2, <1>3, <1>4, <1>5, <1>6, <1>7, <1>8, <1>9, <1>10, <1>11, StepOf DEF OfCall

LEMMA AccountedStep ==
  ASSUME Types, Unbounded, Queued, Untouched, Accounted, [Next]_vars, NEW x \in Call
  PROVE  AccountedAt(x)'
  <1> USE DEF process, calls, holds, settle, ledger, bounds
  <1>0. /\ rec \in [Call -> Record] /\ call \in [Call -> Phases] /\ writes \in [Call -> Seq(Doings)]
        /\ settling \in [Call -> {"no", "get", "remove"}]
        /\ charging \in [Call -> Nat] /\ mem \in [Call -> Nat] /\ kept \in [Call -> Nat] /\ twice \in [Call -> Nat]
    BY DEF Types
  <1>t. charging[x] \in Nat /\ mem[x] \in Nat /\ kept[x] \in Nat /\ twice[x] \in Nat /\ Charges(x) \in Nat
    BY <1>0 DEF Charges
  <1>i. AccountedAt(x) /\ UntouchedAt(x) /\ QueuedAt(x)
    BY DEF Accounted, Untouched, Queued
  <1>1. CASE Same(x)
    BY <1>i, <1>1 DEF Same, AccountedAt, Charges
  <1>2. CASE Begins(x)
    BY <1>i, <1>2 DEF Begins, AccountedAt, Charges
  <1>3. CASE Open(x) \/ Opened(x) \/ OpenFails(x) \/ NoteGeneration(x)
    <2>1. /\ call[x] \in Early /\ call'[x] \in Early
          /\ Charges(x)' = Charges(x) /\ billed' = billed /\ (x \in lost => x \in lost')
          /\ rec'[x] # "none" \/ rec'[x] = rec[x]
          /\ call'[x] = "sent" => call[x] = "sent" \/ rec'[x] # "none" \/ x \in lost'
      BY <1>0, <1>3 DEF Open, Opened, OpenFails, Sent, NoteGeneration, Early, Charges
    <2> QED
      BY <1>i, <2>1 DEF AccountedAt, Early
  <1>4. CASE Completes(x) \/ Refused(x) \/ Cut(x)
    <2>1. /\ call[x] = "sent" /\ rec'[x] = rec[x] /\ lost' = lost
          /\ kept'[x] = kept[x] /\ charging'[x] = charging[x]
          /\ \/ call'[x] = "counted" /\ mem'[x] = mem[x] + 1
             \/ call'[x] = "refused" /\ billed' = billed
             \/ call'[x] = "cut"
      BY <1>0, <1>4 DEF Completes, Refused, Cut, Ends
    <2> QED
      BY <1>t, <1>i, <2>1 DEF AccountedAt, Charges, Early
  <1>5. CASE Write(x) \/ WriteFails(x)
    <2>1. call' = call /\ billed' = billed /\ lost' = lost /\ Charges(x)' = Charges(x)
      BY <1>5 DEF Write, WriteFails, Charges
    <2>2. rec'[x] = "none" => rec[x] = "none" \/ call[x] \in {"counted", "refused"}
      <3>1. rec'[x] = "none" => rec[x] = "none" \/ Doing(x, "remove")
        BY <1>0, <1>5 DEF Write, WriteFails, Landed, Doing
      <3>2. ASSUME Doing(x, "remove") PROVE call[x] \in {"counted", "refused"}
        <4>1. writes[x] # <<>> /\ writes[x] \in Seq(Doings) /\ Head(writes[x]) = "remove"
          BY <1>0, <3>2 DEF Doing
        <4>2. 1 \in 1 .. Len(writes[x]) /\ writes[x][1] = "remove"
          BY <4>1
        <4> QED
          BY <1>i, <4>2 DEF QueuedAt
      <3> QED
        BY <3>1, <3>2
    <2> QED
      BY <1>t, <1>i, <2>1, <2>2 DEF AccountedAt, Early
  <1>6. CASE Leave(x) \/ LookUp(x)
    <2>1. call'[x] \in {"left", "over"} /\ billed' = billed /\ lost' = lost /\ Charges(x)' = Charges(x) /\ rec' = rec
      BY <1>0, <1>6 DEF Leave, LookUp, Charges
    <2> QED
      BY <1>i, <2>1 DEF AccountedAt, Early
  <1>7. CASE GetsNone(x) \/ Get(x) \/ Checkpoint
    <2>1. call' = call /\ billed' = billed /\ lost' = lost /\ rec' = rec
      BY <1>7 DEF GetsNone, Get, Checkpoint
    <2>2. /\ charging'[x] = charging[x]
          /\ \/ mem'[x] = mem[x] /\ kept'[x] = kept[x]
             \/ mem'[x] = 0 /\ kept'[x] = kept[x] + mem[x]
      BY <1>0, <1>7 DEF GetsNone, Get, Checkpoint
    <2>3. Charges(x)' = Charges(x)
      BY <1>t, <2>2 DEF Charges
    <2> QED
      BY <1>i, <2>1, <2>3 DEF AccountedAt
  <1>8. CASE Take(x)
    <2>1. /\ settling[x] # "no" /\ call'[x] = call[x] /\ billed' = billed /\ kept'[x] = kept[x]
          /\ \/ mem'[x] = mem[x] + 1 /\ charging'[x] = charging[x]
             \/ mem'[x] = mem[x] /\ charging'[x] = charging[x] + 1
      BY <1>0, <1>8 DEF Take, Charge
    <2>2. Charges(x)' > 0
      BY <1>t, <2>1 DEF Charges
    <2>3. call[x] \notin Early
      BY <1>i, <2>1 DEF UntouchedAt
    <2> QED
      BY <1>t, <1>i, <2>1, <2>2, <2>3 DEF AccountedAt, Early
  <1>9. CASE TakeFails(x)
    <2>1. /\ call' = call /\ billed' = billed /\ Charges(x)' = Charges(x) /\ (x \in lost => x \in lost')
          /\ rec'[x] = rec[x] \/ x \in lost'
      BY <1>9 DEF TakeFails, Charges
    <2> QED
      BY <1>i, <2>1 DEF AccountedAt
  <1>10. CASE Charged(x) \/ ChargeFails(x)
    <2>1. /\ call' = call /\ billed' = billed /\ rec' = rec /\ (x \in lost => x \in lost')
          /\ charging[x] > 0 /\ charging'[x] = charging[x] - 1
          /\ \/ mem'[x] = mem[x] + 1 /\ kept'[x] = kept[x]
             \/ mem'[x] = mem[x] /\ kept'[x] = kept[x] + 1
             \/ x \in lost'
      BY <1>0, <1>10 DEF Charged, ChargeFails
    <2>2. Charges(x)' = Charges(x) \/ x \in lost'
      BY <1>t, <2>1 DEF Charges
    <2> QED
      BY <1>i, <2>1, <2>2 DEF AccountedAt
  <1>11. CASE Crash
    <2>1. /\ Charges(x)' = kept[x]
          /\ x \in billed' => x \in billed \/ call[x] = "sent"
          /\ x \in lost' <=> x \in lost \/ mem[x] + charging[x] > 0 \/ (rec'[x] = "none" /\ rec[x] # "none")
      BY <1>t, <1>11, CrashOf DEF Charges
    <2>2. kept[x] > 0 => call[x] \notin Early
      BY <1>t, <1>i DEF UntouchedAt, Charges
    <2>3. call'[x] \in Early \cup {"refused", "counted"} =>
            call'[x] = call[x] /\ call[x] # "sent" /\ (call[x] = "counted" => kept[x] > 0)
      BY <1>11, <2>2, CrashOf DEF Early
    <2>4. Charges(x) = 0 \/ kept[x] > 0 \/ mem[x] + charging[x] > 0
      BY <1>t DEF Charges
    <2> QED
      BY <1>t, <1>i, <2>1, <2>3, <2>4 DEF AccountedAt, Early
  <1> QED
    BY <1>1, <1>2, <1>3, <1>4, <1>5, <1>6, <1>7, <1>8, <1>9, <1>10, <1>11, StepOf DEF OfCall

(* Whether storage calls overlap never changes. *)
LEMMA CalmStays ==
  ASSUME [Next]_vars
  PROVE  calm' = calm
  <1> USE DEF process, calls, holds, settle, ledger, bounds
  <1> QED
    BY ZenonT(40) DEF Next, Open, Opened, OpenFails, NoteGeneration, Completes, Refused, Cut, Ends, Write, WriteFails,
           Price, Leave, LookUp, Bill, LookedUp, GetsNone, Get, Take, TakeFails, Charged, ChargeFails, Reconcile, Restore,
           List, HoldListed, GetWrittenOff, TaskFails, Adopted, Reconciled, WrittenOff, WriteOff, Checkpoint,
           RunEnds, Crash, Restart, vars

LEMMA CalmStep ==
  ASSUME Types, Unbounded, Queued, Untouched, Calm, [Next]_vars, calm', NEW x \in Call
  PROVE  CalmAt(x)'
  <1> USE DEF process, calls, holds, settle, ledger, bounds
  <1>0. /\ rec \in [Call -> Record] /\ call \in [Call -> Phases] /\ writes \in [Call -> Seq(Doings)]
        /\ settling \in [Call -> {"no", "get", "remove"}]
        /\ charging \in [Call -> Nat] /\ mem \in [Call -> Nat] /\ kept \in [Call -> Nat] /\ twice \in [Call -> Nat]
    BY DEF Types
  <1>c. calm
    BY CalmStays
  <1>f. ~Fault
    BY <1>c DEF Fault
  <1>q. Free => writes[x] = <<>> /\ settling[x] = "no" /\ charging[x] = 0
    BY <1>c DEF Free, Quiet
  <1>i. CalmAt(x) /\ UntouchedAt(x) /\ QueuedAt(x)
    BY <1>c DEF Calm, Untouched, Queued
  <1>1. CASE Same(x)
    BY <1>i, <1>1 DEF Same, CalmAt
  <1>2. CASE Begins(x)
    BY <1>i, <1>q, <1>2 DEF Begins, CalmAt
  <1>3. CASE Open(x) \/ Opened(x) \/ LookUp(x) \/ Checkpoint \/ Charged(x)
    <2>1. /\ Checkpoint => Free
          /\ Charged(x) => charging[x] > 0
          /\ ~Checkpoint /\ ~Charged(x) => charging' = charging /\ kept' = kept
      BY <1>3 DEF Open, Opened, LookUp, Checkpoint, Charged
    <2>2. call'[x] \in {"counted", "refused"} => call'[x] = call[x] /\ rec'[x] = rec[x]
      BY <1>0, <1>3 DEF Open, Opened, Sent, LookUp, Checkpoint, Charged
    <2>3. writes[x] # <<>> => charging'[x] = charging[x] /\ kept'[x] = kept[x]
      BY <1>0, <1>i, <1>q, <2>1 DEF CalmAt
    <2>4. twice'[x] = twice[x] /\ settling'[x] = settling[x] /\ writes'[x] = writes[x]
      BY <1>0, <1>3 DEF Open, Opened, Sent, LookUp, Checkpoint, Charged
    <2> QED
      BY <1>i, <2>2, <2>3, <2>4 DEF CalmAt
  <1>4. CASE NoteGeneration(x) \/ Completes(x) \/ Refused(x) \/ Cut(x)
    <2>1. /\ call[x] = "sent" /\ Free /\ settling' = settling /\ charging' = charging /\ kept' = kept /\ twice' = twice
          /\ \E w \in Doings : writes'[x] = Append(writes[x], w)
      BY <1>0, <1>4 DEF NoteGeneration, Completes, Refused, Cut, Ends, Doings
    <2>2. kept[x] = 0 /\ writes[x] = <<>>
      BY <1>i, <1>q, <2>1, ChargesTyped DEF UntouchedAt, Early
    <2>3. writes'[x] # <<>>
      BY <2>1, <2>2
    <2> QED
      BY <1>i, <1>q, <2>1, <2>2, <2>3 DEF CalmAt
  <1>5. CASE Write(x) \/ Leave(x)
    <2>1. /\ settling' = settling /\ charging' = charging /\ kept' = kept /\ twice' = twice
          /\ writes[x] # <<>> /\ writes'[x] = Tail(writes[x]) /\ writes[x] \in Seq(Doings)
      BY <1>0, <1>5 DEF Write, Wrote, Leave, Doing
    <2>2. ASSUME call'[x] \in {"counted", "refused"}, writes'[x] = <<>> PROVE rec'[x] = "none"
      <3>1. Write(x) /\ call'[x] = call[x]
        BY <1>0, <1>5, <2>2 DEF Write, Leave
      <3>2. Len(writes[x]) = 1 /\ Head(writes[x]) = writes[x][1]
        <4>1. Len(Tail(writes[x])) = Len(writes[x]) - 1 /\ Len(writes[x]) \in Nat /\ Head(writes[x]) = writes[x][1]
          BY <2>1
        <4>2. Tail(writes[x]) = <<>>
          BY <2>1, <2>2
        <4>3. Len(<<>>) = 0
          OBVIOUS
        <4>4. Len(Tail(writes[x])) = Len(<<>>)
          BY <4>2, Zenon
        <4> QED
          BY <4>1, <4>3, <4>4
      <3>3. writes[x][1] = "remove"
        BY <1>i, <2>1, <2>2, <3>1, <3>2 DEF QueuedAt
      <3> QED
        BY <1>0, <3>1, <3>2, <3>3 DEF Write, Landed, Doing
    <2> QED
      BY <1>i, <2>1, <2>2 DEF CalmAt
  <1>6. CASE GetsNone(x) \/ Get(x) \/ Take(x)
    <2>1. /\ settling[x] # "no" /\ call'[x] = call[x] /\ writes'[x] = writes[x]
          /\ rec'[x] # "none" => rec'[x] = rec[x]
      BY <1>0, <1>6 DEF GetsNone, Get, Take
    <2>2. writes[x] = <<>>
      BY <1>i, <2>1 DEF CalmAt
    <2>3. Get(x) => call[x] \notin {"counted", "refused"}
      BY <1>i, <2>2 DEF Get, CalmAt
    <2>4. twice'[x] = twice[x]
      BY <1>0, <1>6, <2>2, <2>3 DEF GetsNone, Get, Take
    <2> QED
      BY <1>i, <2>1, <2>2, <2>4 DEF CalmAt
  <1>7. CASE Crash
    <2>1. ASSUME call'[x] \in {"counted", "refused"} PROVE rec'[x] = "none"
      <3>1. call'[x] = call[x] /\ kept[x] > 0
        BY <1>7, <2>1, CrashOf
      <3>2. writes[x] = <<>>
        BY <1>i, <3>1 DEF CalmAt
      <3>3. rec[x] = "none"
        BY <1>i, <2>1, <3>1, <3>2 DEF CalmAt
      <3> QED
        BY <1>7, <2>1, <3>1, <3>2, <3>3, CrashOf DEF Left, Doing
    <2> QED
      BY <1>i, <1>7, <2>1, CrashOf DEF CalmAt
  <1>8. ~(OpenFails(x) \/ WriteFails(x) \/ TakeFails(x) \/ ChargeFails(x))
    BY <1>f DEF OpenFails, WriteFails, TakeFails, ChargeFails
  <1> QED
    BY <1>1, <1>2, <1>3, <1>4, <1>5, <1>6, <1>7, <1>8, StepOf DEF OfCall

-----------------------------------------------------------------------------
(* What is pending is held on the context of the run in flight. *)

OnRoot(d) == rec[d] # "none" => hold[d] # None /\ hold[d].ctx = root

(* With no run in flight no dispatch is; one in flight is on the latest context. *)
AtRest == ~running => live = {} /\ \A d \in Call : writes[d] = <<>>
Made == \A d \in Call : d \in live \/ writes[d] # <<>> => on[d] = root
Last == \A d \in Call \ live : writes[d] # <<>> => writes[d][Len(writes[d])] # "put"

(* A restore lists whatever is pending and moves it to its own context. *)
Adopting(t) == task[t].kind = "adopt" /\ task[t].pc # "idle"
AdoptsAt(t) ==
  Adopting(t) =>
    /\ ~running /\ \A u \in Task : Adopting(u) => u = t
    /\ task[t].pc = "hold" => \A d \in Call : rec[d] # "none" => task[t].seen[d] # "none"
    /\ task[t].pc = "ready" => \A d \in Call : OnRoot(d)
Adopts == \A t \in Task : AdoptsAt(t)
Resumed == running => \A d \in Call \ live : writes[d] = <<>> => OnRoot(d)
Resumable == AtRest /\ Made /\ Last /\ Resumed /\ Adopts

LEMMA HeldCtx ==
  ASSUME Types, NEW d \in Call, NEW r, NEW c \in Ctx \cup {0}
  PROVE  /\ Held(d, r, c) # None
         /\ Held(d, r, c).ctx = IF c = 0 /\ hold[d] # None THEN hold[d].ctx ELSE c
  <1>1. CASE hold[d] = None
    BY <1>1, FreshTyped DEF Held
  <1>2. CASE hold[d] # None /\ Reread(d, r)
    <2>1. hold[d].ctx \in Ctx \cup {0}
      BY <1>2, HoldTyped DEF Holding
    <2> QED
      BY <1>2, <2>1, FreshTyped DEF Held
  <1>3. CASE hold[d] # None /\ ~Reread(d, r)
    BY <1>3, HoldTyped DEF Held
  <1> QED
    BY <1>1, <1>2, <1>3

LEMMA HoldAllCtx ==
  ASSUME Types, NEW D \in SUBSET Call, NEW r, NEW c \in Ctx \cup {0}, HoldAll(D, r, c), NEW d \in Call
  PROVE  /\ d \in D => hold'[d] # None /\ hold'[d].ctx = IF c = 0 /\ hold[d] # None THEN hold[d].ctx ELSE c
         /\ d \notin D => hold'[d] = hold[d]
  <1>1. hold'[d] = IF d \in D THEN Held(d, r[d], c) ELSE hold[d]
    BY DEF HoldAll
  <1> QED
    BY <1>1, HeldCtx

LEMMA TailLast ==
  ASSUME NEW s \in Seq(Doings), s # <<>>
  PROVE  /\ Tail(s) # <<>> => Tail(s)[Len(Tail(s))] = s[Len(s)]
         /\ Tail(s) = <<>> => s[Len(s)] = Head(s)
  <1>1. /\ Len(Tail(s)) = Len(s) - 1 /\ Len(s) \in Nat /\ Len(s) > 0 /\ Head(s) = s[1] /\ Tail(s) \in Seq(Doings)
        /\ \A i \in 1 .. Len(Tail(s)) : Tail(s)[i] = s[i + 1]
    OBVIOUS
  <1>2. ASSUME Tail(s) # <<>> PROVE Tail(s)[Len(Tail(s))] = s[Len(s)]
    <2>1. Len(Tail(s)) \in 1 .. Len(Tail(s))
      BY <1>1, <1>2
    <2> QED
      BY <1>1, <2>1
  <1>3. ASSUME Tail(s) = <<>> PROVE s[Len(s)] = Head(s)
    <2>1. Len(<<>>) = 0
      OBVIOUS
    <2>2. Len(Tail(s)) = Len(<<>>)
      BY <1>3, Zenon
    <2>3. Len(Tail(s)) = Len(s) - 1 /\ Len(s) \in Nat /\ Head(s) = s[1]
      OBVIOUS
    <2>4. Len(s) = 1
      BY <2>1, <2>2, <2>3
    <2> QED
      BY <2>3, <2>4
  <1> QED
    BY <1>2, <1>3

(* A hold stays where it is, goes with its record, or moves to the latest context. *)
HoldStays(d) ==
  hold[d] # None =>
    \/ hold'[d] # None /\ hold'[d].ctx \in {hold[d].ctx, root}
    \/ rec'[d] = "none"

LEMMA HoldsStay ==
  ASSUME Types, Unbounded, Untouched, Made, calm, Next, ~Crash, NEW d \in Call
  PROVE  HoldStays(d)
  <1> USE DEF process, calls, holds, settle, ledger, bounds
  <1>0. root \in Ctx /\ root # 0 /\ rec \in [Call -> Record] /\ settling \in [Call -> {"no", "get", "remove"}]
    BY DEF Types, Ctx
  <1>1. CASE hold' = hold
    BY <1>1 DEF HoldStays
  <1>2. ASSUME NEW e \in Call, Leave(e) PROVE HoldStays(d)
    <2>1. on[e] = root /\ HoldAll({e}, [x \in Call |-> "bare"], on[e]) /\ {e} \in SUBSET Call
      BY <1>2 DEF Leave, Doing, Made
    <2>2. HoldAll({e}, [x \in Call |-> "bare"], root) /\ root \in Ctx \cup {0}
      BY <1>0, <2>1
    <2>3. /\ d \in {e} => hold'[d] # None /\ hold'[d].ctx = IF root = 0 /\ hold[d] # None THEN hold[d].ctx ELSE root
          /\ d \notin {e} => hold'[d] = hold[d]
      BY <2>1, <2>2, HoldAllCtx
    <2> QED
      BY <1>0, <2>3 DEF HoldStays
  <1>3. ASSUME NEW e \in Call, Price(e) PROVE HoldStays(d)
    BY <1>3, PriceTyped DEF HoldStays
  <1>4. ASSUME NEW e \in Call, GetsNone(e) \/ Take(e) PROVE HoldStays(d)
    <2>1. Release(e) /\ rec'[e] = "none"
      BY <1>0, <1>4 DEF GetsNone, Take
    <2>2. d # e => hold'[d] = hold[d]
      BY <2>1, ReleaseTyped
    <2> QED
      BY <2>1, <2>2 DEF HoldStays
  <1>5. ASSUME NEW D \in SUBSET Call, Settle(D) PROVE HoldStays(d)
    BY <1>5, SettleTyped DEF HoldStays
  <1>6. ASSUME NEW t \in Task, HoldListed(t) PROVE HoldStays(d)
    <2>1. /\ HoldAll(Unsettled(t), task[t].seen, IF task[t].kind = "adopt" THEN root ELSE 0)
          /\ Unsettled(t) \in SUBSET Call
          /\ (IF task[t].kind = "adopt" THEN root ELSE 0) \in Ctx \cup {0}
      BY <1>0, <1>6 DEF HoldListed, Unsettled, Pending
    <2> QED
      BY <1>0, <2>1, HoldAllCtx, SMTT(30) DEF HoldStays
  <1>7. ASSUME NEW t \in Task, GetWrittenOff(t) PROVE HoldStays(d)
    <2>1. ASSUME NEW e \in Call, NEW r \in Record, HoldAll({e}, Only(e, r), 0) PROVE HoldStays(d)
      BY <2>1, HoldAllCtx DEF HoldStays
    <2> QED
      BY <1>1, <1>7, <2>1 DEF GetWrittenOff, Pending
  <1>8. ASSUME NEW e \in Call, Bill(e) PROVE HoldStays(d)
    BY <1>5, <1>8 DEF Bill
  <1>9. ASSUME NEW t \in Task, WrittenOff(t) PROVE HoldStays(d)
    BY <1>5, <1>9 DEF WrittenOff, Pending
  <1> QED
    BY <1>1, <1>2, <1>3, <1>4, <1>6, <1>7, <1>8, <1>9, ZenonT(40)
    DEF Next, Open, Opened, OpenFails, NoteGeneration, Completes, Refused, Cut, Ends, Write, WriteFails, LookUp,
        LookedUp, Get, TakeFails, Fault, Charged, ChargeFails, Reconcile, Restore, List, TaskFails, Adopted,
        Reconciled, WriteOff, Checkpoint, RunEnds, Restart

LEMMA ResumableStep ==
  ASSUME Types, Unbounded, Queued, Untouched, Resumable, calm, [Next]_vars
  PROVE  Resumable'
  <1> USE DEF process, calls, holds, settle, ledger, bounds
  <1>0. /\ rec \in [Call -> Record] /\ writes \in [Call -> Seq(Doings)] /\ on \in [Call -> Ctx \cup {0}]
        /\ root \in Ctx /\ root # 0 /\ live \subseteq Call
        /\ AtRest /\ Made /\ Last /\ Resumed /\ Adopts
    BY DEF Types, Ctx, Resumable
  <1>a. \A d \in Call : d \in live \/ writes[d] # <<>> => running /\ \A t \in Task : ~Adopting(t)
    BY <1>0 DEF AtRest, Adopts, AdoptsAt
  <1>b. \A d \in Call : call[d] \in {"opening", "sent"} => d \in live
    BY DEF Untouched, UntouchedAt
  (* Where nothing moves but records that go and holds that stay. *)
  <1>1. ASSUME NEW d \in Call, rec'[d] # "none" => rec[d] # "none", HoldStays(d), root' = root, OnRoot(d)
        PROVE  OnRoot(d)'
    BY <1>1 DEF OnRoot, HoldStays
  <1>2. ASSUME UNCHANGED <<running, root, live, on, writes, task>>,
               \A d \in Call : HoldStays(d) /\ (rec'[d] # "none" => rec[d] # "none")
        PROVE  Resumable'
    <2>1. \A d \in Call : OnRoot(d) => OnRoot(d)'
      BY <1>1, <1>2
    <2>2. AtRest' /\ Made' /\ Last'
      BY <1>0, <1>2 DEF AtRest, Made, Last
    <2>3. Resumed'
      BY <1>0, <1>2, <2>1 DEF Resumed
    <2>4. Adopts'
      BY <1>0, <1>2, <2>1 DEF Adopts, AdoptsAt, Adopting
    <2> QED
      BY <2>2, <2>3, <2>4 DEF Resumable
  <1>3. ASSUME NEW d \in Call, Open(d) PROVE Resumable'
    <2>1. /\ running /\ UNCHANGED <<running, root, rec, writes, hold, task>>
          /\ live' = live \cup {d} /\ on' = [on EXCEPT ![d] = root]
      BY <1>3 DEF Open
    <2>2. AtRest' /\ Made' /\ Last' /\ Resumed'
      BY <1>0, <2>1 DEF AtRest, Made, Last, Resumed, OnRoot
    <2>3. Adopts'
      BY <1>0, <2>1 DEF Adopts, AdoptsAt, Adopting, OnRoot
    <2> QED
      BY <2>2, <2>3 DEF Resumable
  (* A dispatch goes on: a run is in flight and nothing is restored. *)
  <1>4. ASSUME NEW d \in Call, d \in live \/ writes[d] # <<>>, UNCHANGED <<running, root, on, task>>,
               live' \in SUBSET live, d \in live \/ d \notin live',
               d \in live' \/ writes'[d] = <<>> \/ writes'[d][Len(writes'[d])] # "put",
               d \in live' \/ writes'[d] # <<>> \/ OnRoot(d)',
               \A x \in Call \ {d} : /\ rec'[x] = rec[x] /\ HoldStays(x) /\ writes'[x] = writes[x]
                                     /\ x \in live' <=> x \in live
        PROVE  Resumable'
    <2>1. running /\ on[d] = root /\ \A t \in Task : ~Adopting(t)
      BY <1>0, <1>4, <1>a DEF Made
    <2>2. AtRest' /\ Made'
      BY <1>0, <1>4, <2>1 DEF AtRest, Made
    <2>3. Last'
      BY <1>0, <1>4 DEF Last
    <2>4. Resumed'
      <3>1. \A x \in Call \ {d} : OnRoot(x) => OnRoot(x)'
        BY <1>1, <1>4
      <3> QED
        BY <1>0, <1>4, <2>1, <3>1 DEF Resumed
    <2>5. Adopts'
      BY <1>4, <2>1 DEF Adopts, AdoptsAt, Adopting
    <2> QED
      BY <2>2, <2>3, <2>4, <2>5 DEF Resumable
  <1>5. ASSUME NEW d \in Call, Opened(d) \/ NoteGeneration(d) PROVE Resumable'
    <2>1. /\ d \in live /\ UNCHANGED <<running, root, on, task, live, hold>>
          /\ \A x \in Call \ {d} : rec'[x] = rec[x] /\ writes'[x] = writes[x]
      BY <1>0, <1>5, <1>b DEF Opened, Sent, NoteGeneration
    <2> QED
      BY <1>4, <2>1 DEF HoldStays
  <1>6. ASSUME NEW d \in Call, Completes(d) \/ Refused(d) \/ Cut(d) PROVE Resumable'
    <2>1. /\ d \in live /\ UNCHANGED <<running, root, on, task, rec, hold>> /\ live' = live \ {d} /\ Free
          /\ \E then \in {"remove", "leave"} : writes' = [writes EXCEPT ![d] = Append(writes[d], then)]
      BY <1>6, <1>b DEF Completes, Refused, Cut, Ends
    <2>2. writes[d] = <<>>
      BY <2>1 DEF Free, Quiet
    <2>3. PICK then \in {"remove", "leave"} : writes' = [writes EXCEPT ![d] = Append(writes[d], then)]
      BY <2>1
    <2>4. writes'[d] = <<then>> /\ \A x \in Call \ {d} : writes'[x] = writes[x]
      BY <1>0, <2>2, <2>3
    <2>5. writes'[d] # <<>> /\ writes'[d][Len(writes'[d])] # "put"
      BY <2>4
    <2>6. /\ live' \in SUBSET live /\ (d \in live \/ d \notin live')
          /\ d \in live' \/ writes'[d] # <<>> \/ OnRoot(d)'
          /\ d \in live' \/ writes'[d] = <<>> \/ writes'[d][Len(writes'[d])] # "put"
      BY <2>1, <2>5
    <2>7. \A x \in Call \ {d} : /\ rec'[x] = rec[x] /\ HoldStays(x) /\ writes'[x] = writes[x]
                                /\ x \in live' <=> x \in live
      BY <2>1, <2>4 DEF HoldStays
    <2> QED
      BY <1>4, <2>1, <2>6, <2>7
  <1>7. ASSUME NEW d \in Call, Write(d) \/ Leave(d), \A x \in Call : HoldStays(x) PROVE Resumable'
    <2>1. /\ writes[d] # <<>> /\ writes[d] \in Seq(Doings)
          /\ writes'[d] = Tail(writes[d]) /\ \A x \in Call \ {d} : writes'[x] = writes[x]
          /\ UNCHANGED <<running, root, on, task, live>>
          /\ \A x \in Call \ {d} : rec'[x] = rec[x]
      BY <1>0, <1>7 DEF Write, Leave, Doing, Wrote, Landed
    <2>2. ASSUME d \notin live PROVE writes'[d] = <<>> \/ writes'[d][Len(writes'[d])] # "put"
      BY <1>0, <2>1, <2>2, TailLast DEF Last
    <2>3. ASSUME d \notin live, writes'[d] = <<>> PROVE OnRoot(d)'
      <3>1. Head(writes[d]) # "put"
        BY <1>0, <2>1, <2>3, TailLast DEF Last
      <3>2. CASE Write(d)
        <4>1. rec'[d] = "none"
          BY <1>0, <3>1, <3>2 DEF Write, Landed, Doing
        <4> QED
          BY <4>1 DEF OnRoot
      <3>3. CASE Leave(d)
        <4>1. on[d] = root
          BY <1>0, <2>1 DEF Made
        <4>2. /\ HoldAll({d}, [x \in Call |-> "bare"], root) /\ {d} \in SUBSET Call /\ d \in {d}
              /\ root \in Ctx \cup {0}
          BY <1>0, <3>3, <4>1 DEF Leave
        <4>3. hold'[d] # None /\ hold'[d].ctx = IF root = 0 /\ hold[d] # None THEN hold[d].ctx ELSE root
          BY <4>2, HoldAllCtx
        <4> QED
          BY <1>0, <2>1, <4>3 DEF OnRoot
      <3> QED
        BY <1>7, <3>2, <3>3
    <2>4. live' = live
      BY <2>1
    <2>5. /\ live' \in SUBSET live /\ (d \in live \/ d \notin live')
          /\ d \in live' \/ writes'[d] # <<>> \/ OnRoot(d)'
          /\ d \in live' \/ writes'[d] = <<>> \/ writes'[d][Len(writes'[d])] # "put"
      BY <2>2, <2>3, <2>4
    <2>6. \A x \in Call \ {d} : /\ rec'[x] = rec[x] /\ HoldStays(x) /\ writes'[x] = writes[x]
                                /\ x \in live' <=> x \in live
      BY <1>7, <2>1
    <2> QED
      BY <1>4, <2>1, <2>5, <2>6
  (* A task goes on, or begins. *)
  <1>8. ASSUME NEW t \in Task, UNCHANGED <<rec, running, root, live, on, writes>>,
               \A d \in Call : HoldStays(d), \A u \in Task \ {t} : task'[u] = task[u],
               Adopting(t)' => Adopting(t),
               Adopting(t)' /\ task'[t].pc = "hold" => \A d \in Call : rec[d] # "none" => task'[t].seen[d] # "none",
               Adopting(t)' /\ task'[t].pc = "ready" => \A d \in Call : OnRoot(d)'
        PROVE  Resumable'
    <2>1. \A d \in Call : OnRoot(d) => OnRoot(d)'
      BY <1>1, <1>8
    <2>2. AtRest' /\ Made' /\ Last'
      BY <1>0, <1>8 DEF AtRest, Made, Last
    <2>3. Resumed'
      BY <1>0, <1>8, <2>1 DEF Resumed
    <2>4. \A u \in Task : Adopting(u)' => Adopting(u)
      BY <1>8 DEF Adopting
    <2>5. ASSUME NEW u \in Task, Adopting(u)' PROVE AdoptsAt(u)'
      <3>1. Adopting(u) /\ ~running' /\ \A w \in Task : Adopting(w)' => w = u
        BY <1>0, <1>8, <2>4, <2>5 DEF Adopts, AdoptsAt
      <3>2. task'[u].pc = "hold" => \A d \in Call : rec'[d] # "none" => task'[u].seen[d] # "none"
        BY <1>0, <1>8, <2>5, <3>1 DEF Adopts, AdoptsAt
      <3>3. task'[u].pc = "ready" => \A d \in Call : OnRoot(d)'
        <4>1. CASE u = t
          BY <1>8, <2>5, <4>1
        <4>2. CASE u # t
          BY <1>0, <1>8, <2>1, <3>1, <4>2 DEF Adopts, AdoptsAt
        <4> QED
          BY <4>1, <4>2
      <3> QED
        BY <3>1, <3>2, <3>3 DEF AdoptsAt
    <2> QED
      BY <2>2, <2>3, <2>5 DEF Resumable, Adopts, AdoptsAt
  <1>9. ASSUME NEW t \in Task, NEW kind \in {"adopt", "reconcile", "writeOff"}, NEW pc \in TaskPhases,
               NEW seen \in [Call -> Record], Begin(t, kind, pc, seen)
        PROVE  /\ task'[t] = [pc |-> pc, kind |-> kind, seen |-> seen]
               /\ \A u \in Task \ {t} : task'[u] = task[u]
    BY <1>9 DEF Begin, Types
  <1>10. ASSUME NEW t \in Task, Reconcile(t) \/ Reconciled(t) \/ WrittenOff(t) \/ GetWrittenOff(t)
                \/ \E d \in Call : WriteOff(t, d),
                \A x \in Call : HoldStays(x)
         PROVE  Resumable'
    <2>1. UNCHANGED <<rec, running, root, live, on, writes>>
      BY <1>10 DEF Reconcile, Reconciled, WrittenOff, GetWrittenOff, WriteOff
    <2>2. (\A u \in Task \ {t} : task'[u] = task[u]) /\ ~Adopting(t)'
      <3>1. CASE \E kind \in {"reconcile", "writeOff"}, pc \in TaskPhases, seen \in [Call -> Record] :
                   Begin(t, kind, pc, seen)
        <4>1. PICK kind \in {"reconcile", "writeOff"}, pc \in TaskPhases, seen \in [Call -> Record] :
                   Begin(t, kind, pc, seen)
          BY <3>1
        <4>2. task'[t] = [pc |-> pc, kind |-> kind, seen |-> seen] /\ \A u \in Task \ {t} : task'[u] = task[u]
          BY <1>9, <4>1
        <4> QED
          BY <4>2 DEF Adopting
      <3>2. CASE task' = [task EXCEPT ![t] = NoTask]
        <4>1. task'[t] = NoTask /\ \A u \in Task \ {t} : task'[u] = task[u]
          BY <3>2 DEF Types
        <4> QED
          BY <4>1 DEF Adopting, NoTask
      <3>3. {"list", "get", "ready", "idle"} \subseteq TaskPhases /\ "bare" \in Record
        BY DEF TaskPhases, Record
      <3>4. Unseen \in [Call -> Record] /\ \A d \in Call, r \in Record : Only(d, r) \in [Call -> Record]
        BY SeenTyped
      <3>5. CASE Reconcile(t)
        BY <3>1, <3>3, <3>4, <3>5 DEF Reconcile
      <3>6. CASE \E d \in Call : WriteOff(t, d)
        BY <3>1, <3>3, <3>4, <3>6 DEF WriteOff
      <3>7. CASE GetWrittenOff(t)
        BY <3>1, <3>3, <3>4, <3>7 DEF GetWrittenOff, Pending
      <3>8. CASE Reconciled(t) \/ WrittenOff(t)
        BY <3>2, <3>8 DEF Reconciled, WrittenOff
      <3> QED
        BY <1>10, <3>5, <3>6, <3>7, <3>8
    <2> QED
      BY <1>8, <1>10, <2>1, <2>2
  <1>11. ASSUME NEW t \in Task, List(t) PROVE Resumable'
    <2>1. PICK seen \in [Call -> Record] : /\ \A d \in Call : Reads(d, seen[d])
                                           /\ Begin(t, task[t].kind, "hold", seen)
      BY <1>11 DEF List
    <2>2. task[t].kind \in {"adopt", "reconcile", "writeOff"} /\ "hold" \in TaskPhases
      BY DEF Types, TaskPhases
    <2>3. task'[t] = [pc |-> "hold", kind |-> task[t].kind, seen |-> seen] /\ \A u \in Task \ {t} : task'[u] = task[u]
      BY <1>9, <2>1, <2>2
    <2>4. task[t].pc = "list" /\ UNCHANGED <<rec, running, root, live, on, writes, hold>>
      BY <1>11 DEF List
    <2>5. \A d \in Call : rec[d] # "none" => seen[d] # "none"
      BY <2>1 DEF Reads
    <2>6. Adopting(t)' => Adopting(t)
      BY <2>3, <2>4 DEF Adopting
    <2>7. task'[t].pc = "hold" /\ task'[t].seen = seen /\ \A d \in Call : HoldStays(d)
      BY <2>3, <2>4 DEF HoldStays
    <2> QED
      BY <1>8, <2>3, <2>4, <2>5, <2>6, <2>7
  <1>12. ASSUME NEW t \in Task, HoldListed(t), \A x \in Call : HoldStays(x) PROVE Resumable'
    <2> DEFINE seen == [d \in Call |-> IF d \in Unsettled(t) THEN task[t].seen[d] ELSE "none"]
    <2>1. /\ Begin(t, task[t].kind, "ready", seen) /\ task[t].pc = "hold"
          /\ UNCHANGED <<rec, running, root, live, on, writes>>
      BY <1>12 DEF HoldListed
    <2>2. /\ task[t].kind \in {"adopt", "reconcile", "writeOff"} /\ "ready" \in TaskPhases
          /\ seen \in [Call -> Record]
      BY DEF Types, TaskPhases, Record
    <2> HIDE DEF seen
    <2>3. task'[t] = [pc |-> "ready", kind |-> task[t].kind, seen |-> seen] /\ \A u \in Task \ {t} : task'[u] = task[u]
      BY <1>9, <2>1, <2>2
    <2>4. task'[t].pc = "ready" /\ task'[t].kind = task[t].kind
      BY <2>3
    <2>5. Adopting(t)' => Adopting(t) /\ task[t].kind = "adopt"
      BY <2>1, <2>4 DEF Adopting
    <2>6. ASSUME Adopting(t)', NEW d \in Call PROVE OnRoot(d)'
      <3>1. /\ HoldAll(Unsettled(t), task[t].seen, root) /\ Unsettled(t) \in SUBSET Call /\ root \in Ctx \cup {0}
        BY <1>0, <1>12, <2>5, <2>6 DEF HoldListed, Unsettled, Pending
      <3>2. live = {} /\ (rec[d] # "none" => task[t].seen[d] # "none")
        BY <1>0, <2>1, <2>5, <2>6 DEF Adopts, AdoptsAt, AtRest
      <3>3. rec[d] # "none" => d \in Unsettled(t)
        BY <3>2 DEF Unsettled, Pending
      <3>4. d \in Unsettled(t) => hold'[d] # None /\ hold'[d].ctx = root
        BY <1>0, <3>1, HoldAllCtx
      <3> QED
        BY <2>1, <3>3, <3>4 DEF OnRoot
    <2> QED
      BY <1>8, <1>12, <2>1, <2>3, <2>4, <2>5, <2>6
  <1>13. ASSUME NEW t \in Task, Restore(t) PROVE Resumable'
    <2>1. /\ ~running /\ (\A u \in Task : task[u].kind = "adopt" => task[u].pc = "idle")
          /\ UNCHANGED <<rec, running, live, on, writes>> /\ Begin(t, "adopt", "list", Unseen)
      BY <1>13 DEF Restore
    <2>2. "list" \in TaskPhases /\ Unseen \in [Call -> Record]
      BY SeenTyped DEF TaskPhases
    <2>3. task'[t] = [pc |-> "list", kind |-> "adopt", seen |-> Unseen] /\ \A u \in Task \ {t} : task'[u] = task[u]
      BY <1>9, <2>1, <2>2
    <2>4. AtRest' /\ Made' /\ Last' /\ Resumed'
      BY <1>0, <2>1 DEF AtRest, Made, Last, Resumed
    <2>5. (\A u \in Task : Adopting(u)' => u = t) /\ task'[t].pc = "list"
      BY <2>1, <2>3 DEF Adopting
    <2>6. Adopts'
      BY <2>1, <2>5 DEF Adopts, AdoptsAt
    <2> QED
      BY <2>4, <2>6 DEF Resumable
  <1>14. ASSUME NEW t \in Task, Adopted(t) PROVE Resumable'
    <2>1. /\ task[t].pc = "ready" /\ task[t].kind = "adopt" /\ running' = TRUE
          /\ UNCHANGED <<rec, root, live, on, writes, hold>> /\ Begin(t, "reconcile", "list", Unseen)
      BY <1>14 DEF Adopted, Ready
    <2>2. "list" \in TaskPhases /\ Unseen \in [Call -> Record]
      BY SeenTyped DEF TaskPhases
    <2>3. task'[t] = [pc |-> "list", kind |-> "reconcile", seen |-> Unseen] /\ \A u \in Task \ {t} : task'[u] = task[u]
      BY <1>9, <2>1, <2>2
    <2>4. Adopting(t) /\ (\A u \in Task : Adopting(u) => u = t) /\ \A d \in Call : OnRoot(d)
      BY <1>0, <2>1 DEF Adopts, AdoptsAt, Adopting
    <2>5. AtRest' /\ Made' /\ Last'
      BY <1>0, <2>1 DEF AtRest, Made, Last
    <2>6. Resumed'
      BY <2>1, <2>4 DEF Resumed, OnRoot
    <2>7. \A u \in Task : ~Adopting(u)'
      BY <2>3, <2>4 DEF Adopting
    <2> QED
      BY <2>5, <2>6, <2>7 DEF Resumable, Adopts, AdoptsAt
  <1>15. ASSUME RunEnds PROVE Resumable'
    <2>1. /\ running /\ running' = FALSE /\ live = {} /\ \A d \in Call : writes[d] = <<>>
          /\ UNCHANGED <<rec, root, live, on, writes, hold, task>>
      BY <1>15 DEF RunEnds, Free, Quiet
    <2> QED
      BY <1>0, <2>1 DEF Resumable, AtRest, Made, Last, Resumed, Adopts, AdoptsAt, Adopting
  <1>16. ASSUME Crash PROVE Resumable'
    <2>1. /\ running' = FALSE /\ live' = {} /\ (\A d \in Call : writes'[d] = <<>>)
          /\ \A t \in Task : task'[t] = NoTask
      BY <1>16 DEF Crash
    <2> QED
      BY <2>1 DEF Resumable, AtRest, Made, Last, Resumed, Adopts, AdoptsAt, Adopting, NoTask
  <1>17. ASSUME NEW d \in Call, Price(d) \/ LookUp(d) \/ Bill(d) \/ LookedUp(d) \/ GetsNone(d) \/ Get(d) \/ Take(d)
                \/ Charged(d),
                \A x \in Call : HoldStays(x)
         PROVE  Resumable'
    <2>1. UNCHANGED <<running, root, live, on, writes, task>>
      BY <1>17 DEF Price, LookUp, Bill, LookedUp, GetsNone, Get, Take, Charged
    <2>2. \A x \in Call : rec'[x] # "none" => rec[x] # "none"
      BY <1>0, <1>17 DEF Price, LookUp, Bill, LookedUp, GetsNone, Get, Take, Charged
    <2> QED
      BY <1>2, <1>17, <2>1, <2>2
  <1>18. ASSUME Checkpoint \/ Restart \/ UNCHANGED vars PROVE Resumable'
    <2>1. UNCHANGED <<running, root, live, on, writes, task, rec, hold>>
      BY <1>18 DEF Checkpoint, Restart, vars
    <2> QED
      BY <1>2, <2>1 DEF HoldStays
  <1>19. ~Fault
    BY DEF Fault
  <1>20. Next /\ ~Crash => \A x \in Call : HoldStays(x)
    BY <1>0, HoldsStay
  <1> QED
    BY <1>3, <1>5, <1>6, <1>7, <1>10, <1>11, <1>12, <1>13, <1>14, <1>15, <1>16, <1>17, <1>18, <1>19, <1>20
    DEF Next, OpenFails, WriteFails, TakeFails, ChargeFails, TaskFails

-----------------------------------------------------------------------------
(* Theorems. *)

(* The inductive invariant. *)
IInv ==
  /\ Types /\ Unbounded /\ HoldsAddUp
  /\ Queued /\ Untouched /\ Once /\ Accounted /\ Calm
  /\ calm => Resumable

LEMMA InitInv == Init => IInv
  <1> SUFFICES ASSUME Init PROVE IInv
    OBVIOUS
  <1>1. Types /\ Unbounded
    BY TypesInit
  <1>2. \A x \in Call : /\ call[x] = "new" /\ rec[x] = "none" /\ hold[x] = None /\ settling[x] = "no"
                        /\ writes[x] = <<>> /\ Charges(x) = 0 /\ twice[x] = 0
                        /\ mem[x] = 0 /\ kept[x] = 0 /\ charging[x] = 0
    BY DEF Init, Charges
  <1>3. HoldsAddUp
    <2>1. \A k \in Ctx : HeldOn(k) = {} /\ heldCost[k] = 0
      BY <1>2 DEF Init, HeldOn, Bounded
    <2>2. \A k \in Ctx : heldCost[k] = Cardinality(HeldOn(k))
      BY <2>1, FS_EmptySet
    <2> QED
      BY <2>2, AddUpIsHeldOn
  <1>4. Queued
    <2>1. \A x \in Call : Len(writes[x]) = 0
      BY <1>2
    <2> QED
      BY <1>2, <2>1 DEF Queued, QueuedAt
  <1>5. Untouched
    <2>1. \A t \in Task, x \in Call : task[t].seen[x] = "none"
      BY DEF Init, NoTask
    <2> QED
      BY <1>2, <2>1 DEF Untouched, UntouchedAt, Seen
  <1>6. Once
    BY <1>2 DEF Once, OnceAt, Cutoff
  <1>7. Accounted
    BY <1>2 DEF Accounted, AccountedAt, Init
  <1>8. Calm
    BY <1>2 DEF Calm, CalmAt
  <1>9. Resumable
    <2>1. running /\ live = {} /\ \A t \in Task : task[t].kind = "reconcile"
      BY DEF Init, NoTask
    <2> QED
      BY <1>2, <2>1 DEF Resumable, AtRest, Made, Last, Resumed, OnRoot, Adopts, AdoptsAt, Adopting
  <1> QED
    BY <1>1, <1>3, <1>4, <1>5, <1>6, <1>7, <1>8, <1>9 DEF IInv

LEMMA NextInv == IInv /\ [Next]_vars => IInv'
  <1> SUFFICES ASSUME IInv, [Next]_vars PROVE IInv'
    OBVIOUS
  <1>0. /\ Types /\ Unbounded /\ HoldsAddUp /\ Queued /\ Untouched /\ Once /\ Accounted /\ Calm
        /\ (calm => Resumable)
    BY DEF IInv
  <1>1. Types' /\ Unbounded'
    BY <1>0, TypesStep
  <1>2. HoldsAddUp'
    BY <1>0, AddsUpStep
  <1>3. Queued'
    BY <1>0, QueuedStep
  <1>4. Untouched'
    BY <1>0, UntouchedStep, SeenStep DEF Untouched
  <1>5. Once'
    BY <1>0, OnceStep DEF Once
  <1>6. Accounted'
    BY <1>0, AccountedStep DEF Accounted
  <1>7. Calm'
    BY <1>0, CalmStep DEF Calm
  <1>8. calm' => calm
    BY CalmStays
  <1>9. calm' => Resumable'
    BY <1>0, <1>8, ResumableStep
  <1> QED
    BY <1>1, <1>2, <1>3, <1>4, <1>5, <1>6, <1>7, <1>9 DEF IInv

(* Whatever overlaps, fails or crashes, a context's heldCost is the number of
   ceilings of the calls held on it; and where storage calls neither overlap
   other events nor fail, a run that was cut off and is restored has every
   pending record held on its own context before it goes on (spend.ts:188-195,
   289-345, 430-433). *)
THEOREM HeldExactly == Spec => []HeldIsExact
  <1>1. IInv => HeldIsExact
    <2> SUFFICES ASSUME IInv PROVE HeldIsExact
      OBVIOUS
    <2>1. HoldsAddUp /\ (calm => Resumed)
      BY DEF IInv, Resumable
    <2>2. Quiet => \A d \in Call : writes[d] = <<>>
      BY DEF Quiet
    <2> QED
      BY <2>1, <2>2 DEF HeldIsExact, Resumed, OnRoot
  <1> QED
    BY InitInv, NextInv, <1>1, PTL DEF Spec

(* A call is charged once: more often only for each settlement that took the
   record of a call which counts its own bill or still writes its record, and
   never while storage calls neither overlap other events nor fail; what was
   billed and not charged has its record, or was lost with a crash or a failed
   call (spend.ts:402-446, 511-560). *)
THEOREM BilledOnce == Spec => []EveryBillOnce
  <1>1. IInv => EveryBillOnce
    <2> SUFFICES ASSUME IInv PROVE EveryBillOnce
      OBVIOUS
    <2>1. \A d \in Call : OnceAt(d) /\ AccountedAt(d) /\ (calm => CalmAt(d))
      BY DEF IInv, Once, Accounted, Calm
    <2> QED
      BY <2>1 DEF EveryBillOnce, OnceAt, AccountedAt, CalmAt, Charges
  <1> QED
    BY InitInv, NextInv, <1>1, PTL DEF Spec

(* A call in flight, or not yet made, is neither held nor settled nor charged,
   and no task that lists, holds or writes off records settles it
   (spend.ts:188-195, 289-345). *)
THEOREM InFlightUntouched == Spec => []Untouched
  <1>1. IInv => Untouched
    BY DEF IInv
  <1> QED
    BY InitInv, NextInv, <1>1, PTL DEF Spec
=============================================================================
