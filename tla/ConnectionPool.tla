--------------------------- MODULE ConnectionPool ---------------------------
(***************************************************************************)
(* A pool of fresh connections (core connections/pool.ts): requests that   *)
(* take a warm connection, have one provisioned or wait for room; leases   *)
(* that a timer renews while their run is alive and sweeps once a failed   *)
(* run has left them unrenewed; releases that hand a connection back to    *)
(* its provider.  The runs that hold leases, and come back to them after a *)
(* failure, are the harness's (agent-harness.ts, registry.ts).             *)
(*                                                                         *)
(* An action runs from one await to the next.  Time is what is left of     *)
(* each lease.                                                             *)
(***************************************************************************)
EXTENDS Integers, FiniteSets

CONSTANTS
  Scope,        \* holders of leases: runs and parallel paths
  NoSetup,      \* those whose requests pass no setup, and may be served warm
  None,
  Max, Warm,    \* the pool's configuration
  Reclaim,      \* how long a lease lasts unrenewed
  MaxAcquires,  \* bound: requests
  MaxCloses,    \* bound: whether the pool is closed, 0 or 1
  MaxFaults     \* bound: calls of the provider or of storage that fail

ASSUME PoolAssumption ==
  /\ IsFiniteSet(Scope) /\ NoSetup \subseteq Scope
  /\ None \notin Nat \cup Scope \cup [conn : Nat, left : Int]
  /\ Max \in Nat \ {0} /\ Warm \in 0 .. Max
  /\ Reclaim \in Nat /\ MaxAcquires \in Nat /\ MaxCloses \in {0, 1}

VARIABLES
  calm,       \* nothing begins, and no time passes, amid the timer's pass, the
              \* pool's start or the counting of a connection; no delete fails
  held,       \* the leases: a connection and what is left of its time
  orphaned,   \* holders that stopped renewing
  acq,        \* the request each scope has under way
  idle,       \* warm connections
  starter,    \* start()
  pass,       \* the timer's pass: renewAll, then sweep
  releasing,  \* releases under way
  closing,    \* close(): what it has yet to release
  live,       \* the provider: connections it has out
  user,       \* the connection each run works with
  owner,      \* history: the scope each connection was handed to
  made, acquires, faults

life   == <<calm, closing>>
timed  == <<held, pass>>
bounds == <<made, acquires, faults>>
vars   == <<life, held, orphaned, acq, idle, starter, pass, releasing, live, user, owner, bounds>>

-----------------------------------------------------------------------------
(* Data. *)

Conn == 1 .. MaxAcquires + Warm
Acq(pc, c) == [pc |-> pc, conn |-> c, left |-> Reclaim]
NoAcq == Acq("none", 0)

Holders == {s \in Scope : held[s] # None}
Pass(pc, todo) == [pc |-> pc, todo |-> todo, left |-> Reclaim]
ToRelease(pc, todo, spare) == [pc |-> pc, todo |-> todo, spare |-> spare]
Closed == closing.pc # "open"
Snapshot == {[scope |-> s, conn |-> held[s].conn] : s \in Holders}
Expired == {r \in Snapshot : held[r.scope].left < 0}

Init ==
  /\ calm \in BOOLEAN
  /\ held = [s \in Scope |-> None] /\ orphaned = {}
  /\ acq = [s \in Scope |-> NoAcq]
  /\ idle = {} /\ starter = [pc |-> "off", conn |-> 0]
  /\ pass = Pass("idle", {}) /\ releasing = {} /\ closing = ToRelease("open", {}, {})
  /\ live = {} /\ user = [s \in Scope |-> None] /\ owner = [c \in Conn |-> None]
  /\ made = 0 /\ acquires = 0 /\ faults = 0

Provisioning == {s \in Scope : acq[s].pc = "provision"}
Unrecorded == {s \in Scope : acq[s].pc = "lease"}
StarterIn(pc) == IF starter.pc = pc THEN 1 ELSE 0

(* Mutant: connections still being provisioned are not counted. *)
InUse_Provisioned == Cardinality(Holders) + Cardinality(Unrecorded) + Cardinality(idle)

(* A connection that was provisioned is counted again only when the request
   goes on: the count has dropped it in between. *)
InUse == Cardinality(Holders) + Cardinality(Unrecorded) + Cardinality(idle)
           + Cardinality(Provisioning) + StarterIn("provision")

Alone == calm => /\ pass.pc = "idle" /\ starter.pc = "on"
                 /\ \A s \in Scope : acq[s].pc # "got"

Fault == faults < MaxFaults /\ faults' = faults + 1

Woken(a) == [s \in Scope |-> IF a[s].pc = "park" THEN Acq("look", 0) ELSE a[s]]

-----------------------------------------------------------------------------
(* start: provisions the warm connections one by one. *)

Start ==
  /\ \/ starter.pc = "off" /\ UNCHANGED idle
     \/ starter.pc = "got" /\ idle' = idle \cup {starter.conn}
  /\ starter' = IF Cardinality(idle') + Cardinality(Provisioning) < Warm
                THEN [pc |-> "provision", conn |-> 0] ELSE [pc |-> "on", conn |-> 0]
  /\ UNCHANGED <<life, timed, orphaned, acq, releasing, live, user, owner, bounds>>

NewConn == made' = made + 1 /\ live' = live \cup {made + 1}

StartProvisioned ==
  /\ starter.pc = "provision"
  /\ NewConn
  /\ starter' = [pc |-> "got", conn |-> made + 1]
  /\ UNCHANGED <<life, timed, orphaned, acq, idle, releasing, user, owner, acquires, faults>>

(* A closed pool has the provider's calls aborted. *)
Rejects == Fault \/ (Closed /\ UNCHANGED faults)

StartFails ==
  /\ Rejects
  /\ starter.pc = "provision"
  /\ starter' = [pc |-> "on", conn |-> 0]
  /\ acq' = Woken(acq)
  /\ UNCHANGED <<life, timed, orphaned, idle, releasing, live, user, owner, made, acquires>>

-----------------------------------------------------------------------------
(* acquire. *)

HandTo(s, c) ==
  /\ user' = [user EXCEPT ![s] = c]
  /\ owner' = [owner EXCEPT ![c] = s]

(* Mutant: a lease taken back stays orphaned. *)
TakeBack_Orphaned(s) ==
  /\ held[s] # None
  /\ HandTo(s, held[s].conn)
  /\ UNCHANGED <<orphaned, acq, idle>>

(* The scope holds a lease already: a run that failed takes it back. *)
TakeBack(s) ==
  /\ held[s] # None
  /\ orphaned' = orphaned \ {s}
  /\ HandTo(s, held[s].conn)
  /\ UNCHANGED <<acq, idle>>

(* One round of connectionFor: a warm connection, a fresh one, room made by
   giving up a spare one, or the wait - unless it has lasted too long, or the
   pool is closed. *)
Look(s, late) ==
  LET To(pc, c) == acq' = [acq EXCEPT ![s] = Acq(pc, c)]
      warm == s \in NoSetup /\ idle # {}
  IN \/ Closed /\ To("none", 0) /\ UNCHANGED idle
     \/ /\ ~Closed
        /\ \/ warm /\ \E c \in idle : idle' = idle \ {c} /\ To("lease", c)
           \/ ~warm /\ InUse < Max /\ To("provision", 0) /\ UNCHANGED idle
           \/ ~warm /\ InUse >= Max /\ \E c \in idle : idle' = idle \ {c} /\ To("spare", c)
           \/ InUse >= Max /\ idle = {} /\ To(IF late THEN "none" ELSE "park", 0) /\ UNCHANGED idle

Acquire(s) ==
  /\ Alone
  /\ user[s] = None /\ acq[s].pc = "none" /\ acquires < MaxAcquires
  /\ acquires' = acquires + 1
  /\ \/ TakeBack(s)
     \/ held[s] = None /\ Look(s, FALSE) /\ UNCHANGED <<orphaned, user, owner>>
  /\ UNCHANGED <<life, timed, starter, releasing, live, made, faults>>

LookAgain(s) ==
  /\ Alone
  /\ acq[s].pc \in {"look", "late"}
  /\ Look(s, acq[s].pc = "late")
  /\ UNCHANGED <<life, timed, orphaned, starter, releasing, live, user, owner, bounds>>

(* waitMs has passed, or the request is cancelled. *)
GiveUp(s) ==
  /\ acq[s].pc = "park"
  /\ \E pc \in {"late", "none"} : acq' = [acq EXCEPT ![s] = Acq(pc, 0)]
  /\ UNCHANGED <<life, timed, orphaned, idle, starter, releasing, live, user, owner, bounds>>

(* Mutant: the spare connection is forgotten. *)
Spared_Forgotten(s) ==
  /\ acq[s].pc = "spare"
  /\ acq' = [acq EXCEPT ![s] = Acq("look", 0)]
  /\ UNCHANGED <<life, timed, orphaned, idle, starter, releasing, live, user, owner, bounds>>

Spared(s) ==
  /\ acq[s].pc = "spare"
  /\ live' = live \ {acq[s].conn}
  /\ acq' = [acq EXCEPT ![s] = Acq("look", 0)]
  /\ UNCHANGED <<life, timed, orphaned, idle, starter, releasing, user, owner, bounds>>

Provisioned(s) ==
  /\ acq[s].pc = "provision"
  /\ NewConn
  /\ acq' = [acq EXCEPT ![s] = Acq("got", made + 1)]
  /\ UNCHANGED <<life, timed, orphaned, idle, starter, releasing, user, owner, acquires, faults>>

ProvisionFails(s) ==
  /\ Rejects
  /\ acq[s].pc = "provision"
  /\ acq' = Woken([acq EXCEPT ![s] = NoAcq])
  /\ UNCHANGED <<life, timed, orphaned, idle, starter, releasing, live, user, owner, made, acquires>>

(* The request goes on, and asks for its lease record. *)
Counted(s) ==
  /\ acq[s].pc = "got"
  /\ acq' = [acq EXCEPT ![s] = Acq("lease", acq[s].conn)]
  /\ UNCHANGED <<life, timed, orphaned, idle, starter, releasing, live, user, owner, bounds>>

Leased(s) ==
  /\ acq[s].pc = "lease"
  /\ held' = [held EXCEPT ![s] = [conn |-> acq[s].conn, left |-> acq[s].left]]
  /\ acq' = [acq EXCEPT ![s] = NoAcq]
  /\ HandTo(s, acq[s].conn)
  /\ UNCHANGED <<life, orphaned, idle, starter, pass, releasing, live, bounds>>

LeaseFails(s) ==
  /\ Fault
  /\ acq[s].pc = "lease"
  /\ acq' = [acq EXCEPT ![s].pc = "drop"]
  /\ UNCHANGED <<life, timed, orphaned, idle, starter, releasing, live, user, owner, made, acquires>>

(* Mutant: nobody is told of the room. *)
Dropped_Silent(s) ==
  /\ acq[s].pc = "drop"
  /\ live' = live \ {acq[s].conn}
  /\ acq' = [acq EXCEPT ![s] = NoAcq]
  /\ UNCHANGED <<life, timed, orphaned, idle, starter, releasing, user, owner, bounds>>

Dropped(s) ==
  /\ acq[s].pc = "drop"
  /\ live' = live \ {acq[s].conn}
  /\ acq' = Woken([acq EXCEPT ![s] = NoAcq])
  /\ UNCHANGED <<life, timed, orphaned, idle, starter, releasing, user, owner, bounds>>

-----------------------------------------------------------------------------
(* release and orphan. *)

StartRelease(s, by) ==
  /\ held[s] # None
  /\ held' = [held EXCEPT ![s] = None]
  /\ orphaned' = orphaned \ {s}
  /\ releasing' = releasing \cup {[conn |-> held[s].conn, pc |-> "delete", by |-> by]}

(* A run that is done gives its connection back. *)
Finish(s) ==
  /\ Alone
  /\ user[s] # None
  /\ user' = [user EXCEPT ![s] = None]
  /\ \/ StartRelease(s, "run")
     \/ held[s] = None /\ UNCHANGED <<held, orphaned, releasing>>
  /\ UNCHANGED <<life, acq, idle, starter, pass, live, owner, bounds>>

(* One that failed keeps it, unrenewed. *)
Orphan(s) ==
  /\ Alone
  /\ user[s] # None
  /\ user' = [user EXCEPT ![s] = None]
  /\ orphaned' = orphaned \cup ({s} \cap Holders)
  /\ UNCHANGED <<life, timed, acq, idle, starter, releasing, live, owner, bounds>>

(* The lease record is deleted; whoever waits for room is woken. *)
Deleted(x) ==
  /\ x.pc = "delete"
  /\ releasing' = (releasing \ {x}) \cup {[x EXCEPT !.pc = "provider"]}
  /\ acq' = Woken(acq)
  /\ UNCHANGED <<life, timed, orphaned, idle, starter, live, user, owner, bounds>>

(* The release throws, and with it a sweep that awaits it. *)
DeleteFails(x) ==
  /\ ~calm /\ Fault
  /\ x.pc = "delete"
  /\ releasing' = releasing \ {x}
  /\ pass' = IF x.by = "sweep" THEN Pass("idle", {}) ELSE pass
  /\ UNCHANGED <<life, held, orphaned, acq, idle, starter, live, user, owner, made, acquires>>

(* Mutant: a released connection is kept for the next request. *)
Released_Pooled(x) ==
  /\ x.pc = "provider"
  /\ releasing' = releasing \ {x}
  /\ idle' = idle \cup {x.conn}
  /\ UNCHANGED <<life, timed, orphaned, acq, starter, live, user, owner, bounds>>

Released(x) ==
  /\ x.pc = "provider"
  /\ releasing' = releasing \ {x}
  /\ live' = live \ {x.conn}
  /\ UNCHANGED <<life, timed, orphaned, acq, idle, starter, user, owner, bounds>>

-----------------------------------------------------------------------------
(* The timer: every lease of a run that is alive is renewed, one storage
   call at a time, then the expired ones are released, one at a time.  Both
   go through the leases there were when they began. *)

Renewing(todo, left) ==
  \/ \E r \in todo :
       /\ r.scope \notin orphaned
       /\ held' = [held EXCEPT ![r.scope] = [conn |-> r.conn, left |-> left]]
       /\ pass' = [pc |-> "renew", todo |-> todo \ {r}, left |-> left]
  \/ /\ \A r \in todo : r.scope \in orphaned
     /\ pass' = Pass("renewed", {})
     /\ UNCHANGED held

Renew ==
  /\ \/ pass.pc = "idle" /\ starter.pc # "off" /\ ~Closed /\ Renewing(Snapshot, Reclaim)
     \/ pass.pc = "renew" /\ Renewing(pass.todo, pass.left)
  /\ UNCHANGED <<life, orphaned, acq, idle, starter, releasing, live, user, owner, bounds>>

RenewFails ==
  /\ Fault
  /\ pass.pc = "renew"
  /\ pass' = Pass("idle", {})
  /\ UNCHANGED <<life, held, orphaned, acq, idle, starter, releasing, live, user, owner, made, acquires>>

Sweeping(todo) ==
  \/ \E r \in todo : StartRelease(r.scope, "sweep") /\ pass' = Pass("sweep", todo \ {r})
  \/ /\ \A r \in todo : held[r.scope] = None
     /\ pass' = Pass("idle", {})
     /\ UNCHANGED <<held, orphaned, releasing>>

Sweep ==
  /\ \/ pass.pc = "renewed" /\ Sweeping(Expired)
     \/ pass.pc = "sweep" /\ (\A x \in releasing : x.by # "sweep") /\ Sweeping(pass.todo)
  /\ UNCHANGED <<life, acq, idle, starter, live, user, owner, bounds>>

(* Time passes, on a lease being recorded or renewed as well - but not between
   a promise that settles and the code that awaits it. *)
Less(left) == IF left = -1 THEN -1 ELSE left - 1
Tick ==
  /\ pass.pc # "renewed" /\ starter.pc # "got" /\ \A s \in Scope : acq[s].pc # "got"
  /\ calm => pass.pc = "idle" /\ Unrecorded = {}
  /\ held' = [s \in Scope |-> IF held[s] = None THEN None ELSE [held[s] EXCEPT !.left = Less(@)]]
  /\ pass' = IF pass.pc = "renew" THEN [pass EXCEPT !.left = Less(@)] ELSE pass
  /\ acq' = [s \in Scope |-> IF acq[s].pc = "lease" THEN [acq[s] EXCEPT !.left = Less(@)] ELSE acq[s]]
  /\ UNCHANGED <<life, orphaned, idle, starter, releasing, live, user, owner, bounds>>

-----------------------------------------------------------------------------
(* close: no more passes of the timer; the leases and the warm connections
   there are, released one at a time; then whoever waits is woken. *)

Closing(todo, spare) ==
  \/ /\ \E s \in todo : StartRelease(s, "close") /\ closing' = ToRelease("close", todo \ {s}, spare)
     /\ UNCHANGED acq
  \/ /\ \A s \in todo : held[s] = None
     /\ \/ \E c \in spare :
             /\ releasing' = releasing \cup {[conn |-> c, pc |-> "provider", by |-> "close"]}
             /\ closing' = ToRelease("close", {}, spare \ {c})
             /\ UNCHANGED acq
        \/ spare = {} /\ closing' = ToRelease("closed", {}, {}) /\ acq' = Woken(acq) /\ UNCHANGED releasing
     /\ UNCHANGED <<held, orphaned>>

Close ==
  /\ Alone /\ MaxCloses = 1 /\ ~Closed
  /\ Closing(Holders, idle) /\ idle' = {}
  /\ UNCHANGED <<calm, starter, pass, live, user, owner, bounds>>

CloseNext ==
  /\ closing.pc = "close" /\ \A x \in releasing : x.by # "close"
  /\ Closing(closing.todo, closing.spare)
  /\ UNCHANGED <<calm, idle, starter, pass, live, user, owner, bounds>>

-----------------------------------------------------------------------------
Work(s) == LookAgain(s) \/ Spared(s) \/ Provisioned(s) \/ Counted(s) \/ Leased(s) \/ Dropped(s)
ReleaseStep == \E x \in releasing : Deleted(x) \/ Released(x)

Next ==
  \/ Start \/ StartProvisioned \/ StartFails
  \/ \E s \in Scope :
       \/ Acquire(s) \/ Work(s) \/ GiveUp(s) \/ ProvisionFails(s) \/ LeaseFails(s)
       \/ Finish(s) \/ Orphan(s)
  \/ ReleaseStep
  \/ \E x \in releasing : DeleteFails(x)
  \/ Renew \/ RenewFails \/ Sweep \/ Tick
  \/ Close \/ CloseNext

Safety == Init /\ [][Next]_vars

(* What is awaited is answered, the timer fires, time passes and runs end.
   The strong ones say that a pass of the timer, which comes round every few
   seconds, cannot keep what waits for its end from happening. *)
Fairness ==
  /\ WF_vars(Start \/ StartProvisioned) /\ WF_vars(ReleaseStep) /\ WF_vars(CloseNext)
  /\ WF_vars(Renew \/ Sweep) /\ SF_vars(Tick)
  /\ \A s \in Scope : SF_vars(Work(s)) /\ SF_vars(Finish(s))

Spec == Safety /\ Fairness

-----------------------------------------------------------------------------
(* Properties. *)

(* "A lease is held by one run or one parallel path and is never shared with
   another", and a released connection is "never handed to another holder":
   a connection once handed to a scope is never handed to another, whatever
   overlaps or fails (pool.ts:2-3, 9-12; specs/35-connections.md:653-656). *)
NeverShared == [][\A c \in Conn : owner[c] # None => owner'[c] = owner[c]]_vars

(* A run works with the connection it leases, and the provider still has it
   out: it is not reclaimed while its run is alive, nor after a failed run
   has come back for it - until the pool is closed
   (pool.ts:149-154, 180-201, 402-424). *)
HolderKeepsConnection ==
  calm /\ ~Closed => \A s \in Scope :
            user[s] # None => user[s] \in live /\ held[s] # None /\ held[s].conn = user[s]

(* "Returns the lease scopeKey holds, releasing its connection": a lease that
   the pool keeps is for a connection the provider still has out, whatever the
   timer's pass was doing when it was returned (pool.ts:166-178, 402-424). *)
ReturnedStaysReturned == \A s \in Holders : held[s].conn \in live

(* The pool never has more than max connections leased, warm or on the way
   (pool.ts:294-297, 312-314). *)
WithinMax ==
  calm => InUse + Cardinality({s \in Scope : acq[s].pc = "got"}) + StarterIn("got") <= Max

(* Every connection the provider has out is leased, warm, in the hands of a
   request or on its way back, and none is warm once the pool is closed
   (pool.ts:167-178, 238-257, 259-310). *)
NothingLeaks ==
  calm =>
       /\ live = {held[s].conn : s \in Holders} \cup idle
                   \cup ({acq[s].conn : s \in Scope} \ {0}) \cup ({starter.conn} \ {0})
                   \cup {x.conn : x \in releasing} \cup closing.spare
       /\ Closed => idle = {}

(* "A pool that is full queues the request until a connection is free": who
   waits is woken once the runs before it have ended or been abandoned, and
   need not wait for the timeout (pool.ts:9-10, 166-201, 264-269, 370-376). *)
WaitersAreWoken == \A s \in Scope : (calm /\ acq[s].pc = "park") ~> acq[s].pc # "park"

=============================================================================
