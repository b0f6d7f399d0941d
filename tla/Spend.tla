-------------------------------- MODULE Spend --------------------------------
(***************************************************************************)
(* Paid dispatches (harness/spend.ts, runtime/durable/spend-log.ts) of one *)
(* execution: a record is stored before a paid call is sent, deleted when  *)
(* the call's bill has reached the run, and left pending when the call     *)
(* ends any other way.  A pending record is held at its ceiling on the     *)
(* execution's context and settled once: by a lookup that asks the         *)
(* provider until it has a bill, or by the host, which writes it off.      *)
(*                                                                         *)
(* Every storage call and every call of the provider is awaited, so calls, *)
(* lookups, write-offs, reconciliations and the restore of the execution   *)
(* are under way together.  A ceiling is the unit; one harness at a time   *)
(* uses the storage.                                                       *)
(***************************************************************************)
EXTENDS Naturals, FiniteSets, Sequences

CONSTANTS
  Call,         \* paid calls
  Task,         \* reconciliations, restores and write-offs under way together
  None,
  MaxContexts,  \* bound: contexts the execution has had
  MaxTasks,     \* bound: reconciliations and write-offs the host asks for
  MaxFaults,    \* bound: storage or session calls that fail
  MaxCrashes    \* bound: crashes

VARIABLES
  calm,       \* storage answers a call before the next event, and fails none
  rec,        \* storage: what each call's key holds
  up, root,   \* the process runs; the execution's latest context
  running,    \* a run is in flight on it
  call, on,   \* where each paid call is, and the context it was made on
  gen,        \* calls whose generation id their dispatch knows
  live,       \* calls in flight in this harness
  writes,     \* each dispatch's writes, one at a time
  hold,       \* the calls held
  heldCost,   \* each context's
  lookup,     \* the lookup of each call's bill
  settling,   \* the settlement of each hold: its storage call
  charging,   \* bills on their way to the thread's session
  task,
  mem, kept,  \* history: bills charged to a context, and those stored since
  billed,     \* history: calls the provider billed
  twice,      \* history: settlements of a call that counts its bill, or still writes
  lost,       \* history: bills lost with a crash, or with a call that failed
  tasks, faults, crashes

process == <<up, root, running>>
calls   == <<call, on, gen, live, writes>>
holds   == <<hold, heldCost>>
settle  == <<lookup, settling, charging>>
ledger  == <<mem, kept, billed, twice, lost>>
bounds  == <<tasks, faults, crashes>>
vars    == <<calm, rec, process, calls, holds, settle, task, ledger, bounds>>

-----------------------------------------------------------------------------
(* Data. *)

Ctx == 1 .. MaxContexts
Record == {"none", "bare", "gen", "torn"}
Holding == [ctx : Ctx \cup {0}, unreadable : BOOLEAN, ceiling : {"asking", "bounded", "unbounded"},
            settling : BOOLEAN]

ASSUME SpendAssumption ==
  /\ IsFiniteSet(Call) /\ None \notin Holding
  /\ MaxContexts \in Nat \ {0}
  /\ {MaxTasks, MaxFaults, MaxCrashes} \subseteq Nat

NoTask == [pc |-> "idle", kind |-> "reconcile", seen |-> [d \in Call |-> "none"]]

Init ==
  /\ calm \in BOOLEAN
  /\ rec = [d \in Call |-> "none"]
  /\ up = TRUE /\ root = 1 /\ running = TRUE
  /\ call = [d \in Call |-> "new"] /\ on = [d \in Call |-> 0] /\ gen = {} /\ live = {} /\ writes = [d \in Call |-> <<>>]
  /\ hold = [d \in Call |-> None] /\ heldCost = [c \in Ctx |-> 0]
  /\ lookup = [d \in Call |-> "no"] /\ settling = [d \in Call |-> "no"]
  /\ charging = [d \in Call |-> 0]
  /\ task = [t \in Task |-> NoTask]
  /\ mem = [d \in Call |-> 0] /\ kept = [d \in Call |-> 0] /\ billed = {}
  /\ twice = [d \in Call |-> 0] /\ lost = {}
  /\ tasks = 0 /\ faults = 0 /\ crashes = 0

(* Nothing awaits storage. *)
Quiet ==
  /\ \A d \in Call : /\ call[d] # "opening" /\ writes[d] = <<>>
                     /\ settling[d] = "no" /\ charging[d] = 0
  /\ \A t \in Task : task[t].pc \in {"idle", "ready"}
Free == up /\ (calm => Quiet)

Fault == ~calm /\ faults < MaxFaults /\ faults' = faults + 1 /\ UNCHANGED <<tasks, crashes>>

-----------------------------------------------------------------------------
(* One paid call and its dispatch. *)

(* open: the record is written, and the call sent whether that worked or not. *)
Open(d) ==
  /\ Free /\ running /\ call[d] = "new"
  /\ call' = [call EXCEPT ![d] = "opening"] /\ live' = live \cup {d}
  /\ on' = [on EXCEPT ![d] = root]
  /\ UNCHANGED <<calm, rec, process, gen, writes, holds, settle, task, ledger, bounds>>

Sent(d) == call[d] = "opening" /\ call' = [call EXCEPT ![d] = "sent"] /\ UNCHANGED on
Opened(d) ==
  /\ Sent(d)
  /\ rec' = [rec EXCEPT ![d] = "bare"]
  /\ UNCHANGED <<calm, process, gen, live, writes, holds, settle, task, ledger, bounds>>

OpenFails(d) ==
  /\ Sent(d) /\ Fault
  /\ rec' \in {rec, [rec EXCEPT ![d] = "bare"]}
  /\ lost' = IF rec' = rec THEN lost \cup {d} ELSE lost
  /\ UNCHANGED <<calm, process, gen, live, writes, holds, settle, task, mem, kept, billed, twice>>

(* The response's headers, or an event of its stream, name the generation. *)
NoteGeneration(d) ==
  /\ Free /\ call[d] = "sent" /\ d \notin gen
  /\ gen' = gen \cup {d} /\ writes' = [writes EXCEPT ![d] = Append(@, "put")]
  /\ UNCHANGED <<calm, rec, process, call, on, live, holds, settle, task, ledger, bounds>>

(* Dispatch.settle and Dispatch.end: it is no longer in flight, and what is
   next waits for its writes. *)
Ends(d, pc, then) ==
  /\ Free /\ call[d] = "sent"
  /\ call' = [call EXCEPT ![d] = pc] /\ live' = live \ {d}
  /\ writes' = [writes EXCEPT ![d] = Append(@, then)]
  /\ UNCHANGED <<calm, rec, process, on, gen, holds, settle, task, bounds>>

(* The response is complete: its bill is counted, and then its record goes. *)
Completes(d) ==
  /\ Ends(d, "counted", "remove")
  /\ mem' = [mem EXCEPT ![d] = @ + 1] /\ billed' = billed \cup {d}
  /\ UNCHANGED <<kept, twice, lost>>

(* It was refused before anything was generated, or aborted before it was sent. *)
Refused(d) == d \notin gen /\ Ends(d, "refused", "remove") /\ UNCHANGED ledger

(* It is cut off, and the provider may have billed it. *)
Cut(d) ==
  /\ Ends(d, "cut", "leave")
  /\ billed' \in {billed, billed \cup {d}}
  /\ UNCHANGED <<mem, kept, twice, lost>>

Wrote(d) == writes' = [writes EXCEPT ![d] = Tail(@)]
Doing(d, what) == writes[d] # <<>> /\ Head(writes[d]) = what
Landed(d) == [rec EXCEPT ![d] = IF Doing(d, "put") THEN "gen" ELSE "none"]

Write(d) ==
  /\ Doing(d, "put") \/ Doing(d, "remove")
  /\ rec' = Landed(d) /\ Wrote(d)
  /\ UNCHANGED <<calm, process, call, on, gen, live, holds, settle, task, ledger, bounds>>

(* A write that fails is only warned about. *)
WriteFails(d) ==
  /\ Doing(d, "put") \/ Doing(d, "remove")
  /\ Fault
  /\ rec' \in {rec, Landed(d)} /\ Wrote(d)
  /\ UNCHANGED <<calm, process, call, on, gen, live, holds, settle, task, ledger>>

-----------------------------------------------------------------------------
(* Holds. *)

Fresh(r, c) == [ctx |-> c, unreadable |-> r = "torn", ceiling |-> "asking", settling |-> FALSE]
Reread(d, r) == hold[d].unreadable /\ r # "torn" /\ ~hold[d].settling

(* hold(record, ctx): context 0 is none given. *)
Held(d, r, c) ==
  IF hold[d] = None THEN Fresh(r, c)
  ELSE IF Reread(d, r) THEN Fresh(r, IF c = 0 THEN hold[d].ctx ELSE c)
  ELSE IF c = 0 THEN hold[d] ELSE [hold[d] EXCEPT !.ctx = c]

Bounded(d) == hold[d] # None /\ hold[d].ceiling = "bounded"
Less(n, k) == IF n < k THEN 0 ELSE n - k

(* Mutant: a hold that moves stays on the context it leaves. *)
HoldAll_Copies(D, r, c) ==
  LET moved == {d \in D : c # 0 /\ Bounded(d) /\ hold[d].ctx # c}
  IN /\ hold' = [d \in Call |-> IF d \in D THEN Held(d, r[d], c) ELSE hold[d]]
     /\ heldCost' = [k \in Ctx |-> heldCost[k] + (IF k = c THEN Cardinality(moved) ELSE 0)]

(* What is held already moves to the context given, its ceiling with it. *)
HoldAll(D, r, c) ==
  LET moved == {d \in D : c # 0 /\ Bounded(d) /\ hold[d].ctx # c}
  IN /\ hold' = [d \in Call |-> IF d \in D THEN Held(d, r[d], c) ELSE hold[d]]
     /\ heldCost' = [k \in Ctx |-> Less(heldCost[k], Cardinality({d \in moved : hold[d].ctx = k}))
                                     + (IF k = c THEN Cardinality(moved) ELSE 0)]

(* The ceiling is known, unless the model's price is not. *)
Price(d) ==
  /\ hold[d] # None /\ hold[d].ceiling = "asking"
  /\ \/ /\ ~hold[d].unreadable
        /\ hold' = [hold EXCEPT ![d].ceiling = "bounded"]
        /\ heldCost' = [k \in Ctx |-> heldCost[k] + (IF k = hold[d].ctx THEN 1 ELSE 0)]
     \/ hold' = [hold EXCEPT ![d].ceiling = "unbounded"] /\ UNCHANGED heldCost
  /\ UNCHANGED <<calm, rec, process, calls, settle, task, ledger, bounds>>

Priced(d) == IF hold[d] = None THEN TRUE ELSE hold[d].ceiling # "asking"

Ask(D) == lookup' = [d \in Call |-> IF d \in D /\ lookup[d] = "no" THEN "asks" ELSE lookup[d]]

(* leave: held on the context the call was made on ... *)
Leave(d) ==
  /\ Doing(d, "leave")
  /\ HoldAll({d}, [x \in Call |-> "bare"], on[d])
  /\ call' = [call EXCEPT ![d] = "left"] /\ Wrote(d)
  /\ UNCHANGED <<calm, rec, process, on, gen, live, settle, task, ledger, bounds>>

(* ... and looked up, once its ceiling is held, if it has an id. *)
LookUp(d) ==
  /\ call[d] = "left" /\ Priced(d)
  /\ call' = [call EXCEPT ![d] = "over"]
  /\ Ask({d} \cap gen)
  /\ UNCHANGED <<calm, rec, process, on, gen, live, writes, holds, settling, charging, task, ledger, bounds>>

-----------------------------------------------------------------------------
(* adopt, reconcile and writeOff. *)

Begin(t, kind, pc, seen) == task' = [task EXCEPT ![t] = [pc |-> pc, kind |-> kind, seen |-> seen]]
Unseen == [d \in Call |-> "none"]
Only(d, r) == [Unseen EXCEPT ![d] = r]
Asked(t) == Free /\ task[t].pc = "idle"
Counted == tasks < MaxTasks /\ tasks' = tasks + 1 /\ UNCHANGED <<faults, crashes>>

Reconcile(t) ==
  /\ Asked(t) /\ Counted
  /\ Begin(t, "reconcile", "list", Unseen)
  /\ UNCHANGED <<calm, rec, process, calls, holds, settle, ledger>>

(* The host restores the execution, on a context of its own. *)
Restore(t) ==
  /\ Asked(t) /\ ~running /\ root < MaxContexts
  /\ \A u \in Task : task[u].kind = "adopt" => task[u].pc = "idle"
  /\ root' = root + 1
  /\ Begin(t, "adopt", "list", Unseen)
  /\ UNCHANGED <<calm, rec, up, running, calls, holds, settle, ledger, bounds>>

(* A call this harness has in flight cannot be written off; the record of one
   it holds is not read again. *)
WriteOff(t, d) ==
  /\ Asked(t) /\ Counted
  /\ call[d] # "new" /\ d \notin live
  /\ \/ hold[d] # None /\ Begin(t, "writeOff", "ready", Only(d, "bare"))
     \/ hold[d] = None /\ Begin(t, "writeOff", "get", Only(d, "bare"))
  /\ UNCHANGED <<calm, rec, process, calls, holds, settle, ledger>>

(* A store whose writes are not atomic may read a record amid its write. *)
Reads(d, r) == r = rec[d] \/ (r = "torn" /\ (call[d] = "opening" \/ Doing(d, "put")))

(* What is listed is stored as it is read. *)
List(t) ==
  /\ task[t].pc = "list"
  /\ \E seen \in [Call -> Record] :
       /\ \A d \in Call : Reads(d, seen[d])
       /\ Begin(t, task[t].kind, "hold", seen)
  /\ UNCHANGED <<calm, rec, process, calls, holds, settle, ledger, bounds>>

Pending(t) == {d \in Call : task[t].seen[d] # "none"}

(* Of what was listed, what is not in flight here now. *)
Unsettled(t) == Pending(t) \ live

HoldListed(t) ==
  /\ task[t].pc = "hold"
  /\ HoldAll(Unsettled(t), task[t].seen, IF task[t].kind = "adopt" THEN root ELSE 0)
  /\ Begin(t, task[t].kind, "ready",
           [d \in Call |-> IF d \in Unsettled(t) THEN task[t].seen[d] ELSE "none"])
  /\ UNCHANGED <<calm, rec, process, calls, settle, ledger, bounds>>

GetWrittenOff(t) ==
  /\ task[t].pc = "get"
  /\ \E d \in Pending(t), r \in Record :
       /\ Reads(d, r)
       /\ IF r = "none" THEN Begin(t, "reconcile", "idle", Unseen) /\ UNCHANGED holds
          ELSE HoldAll({d}, Only(d, r), 0) /\ Begin(t, "writeOff", "ready", Only(d, r))
  /\ UNCHANGED <<calm, rec, process, calls, settle, ledger, bounds>>

TaskFails(t) ==
  /\ task[t].pc \in {"list", "get"} /\ Fault
  /\ task' = [task EXCEPT ![t] = NoTask]
  /\ UNCHANGED <<calm, rec, process, calls, holds, settle, ledger>>

(* A settlement that has begun keeps others away. *)
Settle(D) ==
  LET begun == {d \in D : hold[d] # None /\ ~hold[d].settling}
  IN /\ hold' = [d \in Call |-> IF d \in begun THEN [hold[d] EXCEPT !.settling = TRUE] ELSE hold[d]]
     /\ settling' = [d \in Call |-> IF d \in begun THEN "get" ELSE settling[d]]

Ready(t, kind) == task[t].pc = "ready" /\ task[t].kind = kind /\ \A d \in Pending(t) : Priced(d)

(* restore returns and the host runs the execution again; what it holds is
   reconciled in the background. *)
Adopted(t) ==
  /\ Ready(t, "adopt")
  /\ running' = TRUE
  /\ Begin(t, "reconcile", "list", Unseen)
  /\ UNCHANGED <<calm, rec, up, root, calls, holds, settle, ledger, bounds>>

Reconciled(t) ==
  /\ Ready(t, "reconcile")
  /\ Ask({d \in Call : task[t].seen[d] = "gen"})
  /\ task' = [task EXCEPT ![t] = NoTask]
  /\ UNCHANGED <<calm, rec, process, calls, holds, settling, charging, ledger, bounds>>

WrittenOff(t) ==
  /\ Free /\ Ready(t, "writeOff")
  /\ Settle(Pending(t))
  /\ task' = [task EXCEPT ![t] = NoTask]
  /\ UNCHANGED <<calm, rec, process, calls, heldCost, lookup, charging, ledger, bounds>>

-----------------------------------------------------------------------------
(* Lookups and settlements. *)

(* The provider has a bill for the call. *)
Bill(d) ==
  /\ Free /\ lookup[d] = "asks" /\ hold[d] # None /\ d \in billed
  /\ lookup' = [lookup EXCEPT ![d] = "settles"]
  /\ Settle({d})
  /\ UNCHANGED <<calm, rec, process, calls, heldCost, charging, task, ledger, bounds>>

(* It has none for too long, or never will, or the hold is gone - or the
   settlement is over. *)
LookedUp(d) ==
  /\ \/ lookup[d] = "asks"
     \/ lookup[d] = "settles" /\ settling[d] = "no" /\ charging[d] = 0
  /\ lookup' = [lookup EXCEPT ![d] = "no"]
  /\ UNCHANGED <<calm, rec, process, calls, holds, settling, charging, task, ledger, bounds>>

Release(d) ==
  /\ hold' = [hold EXCEPT ![d] = None]
  /\ heldCost' = [k \in Ctx |->
       IF Bounded(d) /\ hold[d].ctx = k THEN Less(heldCost[k], 1) ELSE heldCost[k]]

(* take: whether the record is still there is asked first. *)
GetsNone(d) ==
  /\ settling[d] = "get" /\ rec[d] = "none"
  /\ Release(d) /\ settling' = [settling EXCEPT ![d] = "no"]
  /\ UNCHANGED <<calm, rec, process, calls, lookup, charging, task, ledger, bounds>>

(* Mutant: the record is taken to be there. *)
Get_Unasked(d) ==
  /\ settling[d] = "get"
  /\ settling' = [settling EXCEPT ![d] = "remove"]
  /\ UNCHANGED <<calm, rec, process, calls, holds, lookup, charging, task, ledger, bounds>>

Get(d) ==
  /\ settling[d] = "get" /\ rec[d] # "none"
  /\ settling' = [settling EXCEPT ![d] = "remove"]
  /\ twice' = [twice EXCEPT ![d] = IF call[d] \in {"counted", "refused"} \/ writes[d] # <<>> THEN @ + 1 ELSE @]
  /\ UNCHANGED <<calm, rec, process, calls, holds, lookup, charging, task, mem, kept, billed, lost, bounds>>

(* The bill goes to the run in flight, or else to the thread's session. *)
Charge(d) ==
  IF running THEN mem' = [mem EXCEPT ![d] = @ + 1] /\ UNCHANGED charging
             ELSE charging' = [charging EXCEPT ![d] = @ + 1] /\ UNCHANGED mem

(* The record is deleted, the hold released and the bill charged. *)
Take(d) ==
  /\ settling[d] = "remove"
  /\ rec' = [rec EXCEPT ![d] = "none"]
  /\ Release(d) /\ settling' = [settling EXCEPT ![d] = "no"]
  /\ Charge(d)
  /\ UNCHANGED <<calm, process, calls, lookup, task, kept, billed, twice, lost, bounds>>

(* The record could not be deleted - or was, and its bill is lost: the hold
   stays for a later settlement. *)
TakeFails(d) ==
  /\ settling[d] # "no" /\ Fault
  /\ \/ UNCHANGED <<rec, lost>>
     \/ settling[d] = "remove" /\ rec' = [rec EXCEPT ![d] = "none"] /\ lost' = lost \cup {d}
  /\ settling' = [settling EXCEPT ![d] = "no"]
  /\ hold' = [hold EXCEPT ![d].settling = FALSE]
  /\ UNCHANGED <<calm, process, calls, heldCost, lookup, charging, task, mem, kept, billed, twice>>

(* The session has the bill; the thread may have none, and then the bill is
   the context's it was held on, or only the host's that asked. *)
Charged(d) ==
  /\ charging[d] > 0 /\ charging' = [charging EXCEPT ![d] = @ - 1]
  /\ \/ kept' = [kept EXCEPT ![d] = @ + 1] /\ UNCHANGED <<mem, lost>>
     \/ mem' = [mem EXCEPT ![d] = @ + 1] /\ UNCHANGED <<kept, lost>>
  /\ UNCHANGED <<calm, rec, process, calls, holds, lookup, settling, task, billed, twice, bounds>>

ChargeFails(d) ==
  /\ charging[d] > 0 /\ Fault
  /\ charging' = [charging EXCEPT ![d] = @ - 1] /\ lost' = lost \cup {d}
  /\ UNCHANGED <<calm, rec, process, calls, holds, lookup, settling, task, mem, kept, billed, twice>>

-----------------------------------------------------------------------------
(* The run and the process. *)

(* The run's usage is stored: at a checkpoint a call's bill is part of it once
   its round is recorded, which awaits the delete of its record. *)
Stored == {d \in Call : call[d] # "counted" \/ writes[d] = <<>>}
Checkpoint ==
  /\ Free /\ \E d \in Stored : mem[d] > 0
  /\ kept' = [d \in Call |-> IF d \in Stored THEN kept[d] + mem[d] ELSE kept[d]]
  /\ mem' = [d \in Call |-> IF d \in Stored THEN 0 ELSE mem[d]]
  /\ UNCHANGED <<calm, rec, process, calls, holds, settle, task, billed, twice, lost, bounds>>

(* Cancelled or done: none of its calls is in flight any more. *)
RunEnds ==
  /\ Free /\ running /\ live = {}
  /\ running' = FALSE
  /\ UNCHANGED <<calm, rec, up, root, calls, holds, settle, task, ledger, bounds>>

(* A write under way may land, or leave half a record behind. *)
Left(d) ==
  {rec[d]} \cup (IF call[d] = "opening" THEN {"bare", "torn"} ELSE {})
           \cup (IF Doing(d, "put") THEN {"gen", "torn"} ELSE {})
           \cup (IF Doing(d, "remove") \/ settling[d] = "remove" THEN {"none"} ELSE {})

Crash ==
  /\ up /\ crashes < MaxCrashes /\ crashes' = crashes + 1
  /\ up' = FALSE /\ running' = FALSE
  /\ rec' \in [Call -> Record] /\ \A d \in Call : rec'[d] \in Left(d)
  /\ call' = [d \in Call |-> IF call[d] = "new" \/ kept[d] > 0 THEN call[d] ELSE "gone"]
  /\ gen' = {} /\ live' = {} /\ writes' = [d \in Call |-> <<>>]
  /\ hold' = [d \in Call |-> None] /\ heldCost' = [c \in Ctx |-> 0]
  /\ lookup' = [d \in Call |-> "no"] /\ settling' = [d \in Call |-> "no"]
  /\ charging' = [d \in Call |-> 0] /\ task' = [t \in Task |-> NoTask]
  /\ mem' = [d \in Call |-> 0]
  /\ lost' = lost \cup {d \in Call : mem[d] + charging[d] > 0 \/ (rec'[d] = "none" /\ rec[d] # "none")}
  /\ \E cut \in SUBSET {d \in Call : call[d] = "sent"} : billed' = billed \cup cut
  /\ UNCHANGED <<calm, root, on, kept, twice, tasks, faults>>

Restart ==
  /\ ~up /\ up' = TRUE
  /\ UNCHANGED <<calm, rec, root, running, calls, holds, settle, task, ledger, bounds>>

-----------------------------------------------------------------------------
Next ==
  \/ \E d \in Call :
       \/ Open(d) \/ Opened(d) \/ OpenFails(d) \/ NoteGeneration(d)
       \/ Completes(d) \/ Refused(d) \/ Cut(d) \/ Write(d) \/ WriteFails(d)
       \/ Price(d) \/ Leave(d) \/ LookUp(d)
       \/ Bill(d) \/ LookedUp(d) \/ GetsNone(d) \/ Get(d) \/ Take(d) \/ TakeFails(d)
       \/ Charged(d) \/ ChargeFails(d)
  \/ \E t \in Task :
       \/ Reconcile(t) \/ Restore(t) \/ List(t) \/ HoldListed(t) \/ GetWrittenOff(t) \/ TaskFails(t)
       \/ Adopted(t) \/ Reconciled(t) \/ WrittenOff(t)
       \/ \E d \in Call : WriteOff(t, d)
  \/ Checkpoint \/ RunEnds \/ Crash \/ Restart

Spec == Init /\ [][Next]_vars

-----------------------------------------------------------------------------
(* Properties. *)

(* What a context holds is the ceilings of the calls held on it, however they
   came, moved and went (spend.ts:289-345, 430-433). *)
HoldsAddUp ==
  \A c \in Ctx : heldCost[c] = Cardinality({d \in Call : Bounded(d) /\ hold[d].ctx = c})

(* And as long as storage calls do not overlap other events and none fails,
   whatever is pending is held on the context of the run in flight ("`heldCost`
   is set before `restore` returns ... so a resumed run cannot overspend the
   budget its cut-off attempt may already have used",
   specs/23-durable-execution.md:123, 297-299; spend.ts:188-195). *)
HeldIsExact ==
  /\ HoldsAddUp
  /\ calm /\ running /\ Quiet =>
       \A d \in Call \ live : rec[d] # "none" => hold[d] # None /\ hold[d].ctx = root

(* A call is charged once: twice only when a settlement takes the record of a
   call that counts its own bill, before it is deleted or because that failed,
   or of one whose generation id is yet to be written, which brings the record
   back.  And a bill that has not been charged has its record in storage, or
   was lost with a crash or a failed call ("a crash part-way loses a
   settlement rather than counting one twice", spend.ts:402-408;
   specs/23-durable-execution.md:221, 283-291). *)
EveryBillOnce ==
  \A d \in Call :
    LET charged == mem[d] + kept[d] + charging[d]
    IN /\ charged <= 1 + twice[d] /\ (calm => twice[d] = 0)
       /\ d \in billed /\ charged = 0 => rec[d] # "none" \/ d \in lost

=============================================================================
