------------------------- MODULE ConnectionPoolProofs -------------------------
(***************************************************************************)
(* Theorems about the pool for every number of runs, every cap and number  *)
(* of warm connections, every lease time, and however many requests and    *)
(* failures there are.                                                     *)
(***************************************************************************)
EXTENDS ConnectionPool, FiniteSetTheorems, TLAPS

Lease == [conn : Nat, left : Int]
RequestPhase == {"none", "look", "late", "park", "spare", "provision", "got", "lease", "drop"}
Request == [pc : RequestPhase, conn : Nat, left : Int]
Renewal == [scope : Scope, conn : Nat]

(* The variables that say who is handed what. *)
HandTypes ==
  /\ held \in [Scope -> Lease \cup {None}]
  /\ acq \in [Scope -> Request]
  /\ idle \subseteq Nat
  /\ starter \in [pc : {"off", "provision", "got", "on"}, conn : Nat]
  /\ pass \in [pc : {"idle", "renew", "renewed", "sweep"}, todo : SUBSET Renewal, left : Int]
  /\ owner \in [Conn -> Scope \cup {None}]
  /\ made \in Nat

(* Who may be handed a connection: the one scope that leases it, or is about
   to have its lease renewed for it; and for one nobody was handed yet, the
   one place that has it - a request, the warm connections or the pool's
   start. *)
Owned ==
  /\ \A s \in Scope : held[s] # None /\ held[s].conn \in Conn => owner[held[s].conn] = s
  /\ \A r \in pass.todo : r.conn \in Conn => owner[r.conn] = r.scope

(* The connections nobody was handed yet, by where they are. *)
Fresh ==
  /\ \A s \in Scope : acq[s].conn \in Conn => owner[acq[s].conn] = None
  /\ \A c \in idle : c \in Conn => owner[c] = None
  /\ starter.conn \in Conn => owner[starter.conn] = None

Apart ==
  /\ \A s \in Scope : acq[s].conn # 0 =>
       /\ acq[s].conn \notin idle /\ acq[s].conn # starter.conn
       /\ \A t \in Scope : s # t => acq[s].conn # acq[t].conn
  /\ starter.conn # 0 => starter.conn \notin idle

Below ==
  /\ \A s \in Scope : acq[s].conn <= made
  /\ \A c \in idle : c <= made
  /\ starter.conn <= made
  /\ \A c \in Conn : owner[c] # None => c <= made

SharedInv == HandTypes /\ Owned /\ Fresh /\ Apart /\ Below

-----------------------------------------------------------------------------
LEMMA AcqTyped ==
  ASSUME NEW pc \in RequestPhase, NEW c \in Nat
  PROVE  Acq(pc, c) \in Request /\ Acq(pc, c).conn = c /\ Acq(pc, c).pc = pc
  BY PoolAssumption DEF Acq, Request

(* Waking whoever waits changes no request's connection. *)
LEMMA WokenRequests ==
  ASSUME NEW r \in [Scope -> Request]
  PROVE  /\ Woken(r) \in [Scope -> Request]
         /\ \A s \in Scope : Woken(r)[s].conn \in {r[s].conn, 0}
  <1>1. Acq("look", 0) \in Request /\ Acq("look", 0).conn = 0
    BY AcqTyped DEF RequestPhase
  <1> QED
    BY <1>1 DEF Woken

LEMMA SharedInit == Init => SharedInv
  <1> SUFFICES ASSUME Init PROVE SharedInv
    OBVIOUS
  <1>1. NoAcq \in Request /\ NoAcq.conn = 0
    BY AcqTyped DEF NoAcq, RequestPhase
  <1>2. HandTypes
    BY <1>1, PoolAssumption DEF Init, HandTypes, Pass
  <1>3. 0 \notin Conn
    BY PoolAssumption DEF Conn
  <1> QED
    BY <1>1, <1>2, <1>3 DEF Init, SharedInv, Owned, Fresh, Apart, Below, Pass, HandTypes

(* A step that hands out nothing and moves no connection to another place. *)
LEMMA SharedKept ==
  ASSUME SharedInv, HandTypes', Owned', owner' = owner, made' = made, idle' \subseteq idle,
         \A s \in Scope : acq'[s].conn \in {acq[s].conn, 0},
         starter'.conn \in {starter.conn, 0}
  PROVE  SharedInv'
  <1>1. 0 \notin Conn /\ 0 <= made
    BY PoolAssumption DEF Conn, SharedInv, HandTypes
  <1>2. Fresh'
    BY <1>1 DEF SharedInv, Fresh
  <1>3. Apart'
    BY <1>1 DEF SharedInv, Apart
  <1>4. Below'
    BY <1>1 DEF SharedInv, Below
  <1> QED
    BY <1>2, <1>3, <1>4 DEF SharedInv

-----------------------------------------------------------------------------
(* Types, action by action. *)

LEMMA LookTyped ==
  ASSUME HandTypes, NEW s \in Scope, NEW late \in BOOLEAN, Look(s, late)
  PROVE  /\ acq' \in [Scope -> Request] /\ idle' \subseteq idle
         /\ \A t \in Scope \ {s} : acq'[t] = acq[t]
         /\ acq'[s].conn \in {0} \cup (idle \ idle')
  <1>1. PICK pc \in RequestPhase, c \in {0} \cup (idle \ idle') : acq' = [acq EXCEPT ![s] = Acq(pc, c)]
    BY DEF Look, RequestPhase
  <1>2. idle' \subseteq idle
    BY DEF Look
  <1>3. Acq(pc, c) \in Request /\ Acq(pc, c).conn = c
    BY AcqTyped DEF HandTypes
  <1> QED
    BY <1>1, <1>2, <1>3 DEF HandTypes

LEMMA TypeStep == HandTypes /\ [Next]_vars => HandTypes'
  <1> SUFFICES ASSUME HandTypes, [Next]_vars PROVE HandTypes'
    OBVIOUS
  <1> USE DEF HandTypes
  <1>1. CASE Start \/ StartProvisioned
    <2>1. /\ made' \in Nat /\ UNCHANGED <<held, acq, pass, owner>>
          /\ idle' \subseteq idle \cup {starter.conn}
      BY <1>1 DEF Start, StartProvisioned, NewConn, timed, bounds
    <2>2. starter' \in [pc : {"off", "provision", "got", "on"}, conn : Nat]
      BY <1>1 DEF Start, StartProvisioned
    <2> QED
      BY <2>1, <2>2
  <1>2. CASE StartFails
    BY <1>2, WokenRequests DEF StartFails, life, timed
  <1>3. ASSUME NEW s \in Scope, Acquire(s) PROVE HandTypes'
    <2>1. acq' \in [Scope -> Request] /\ idle' \subseteq idle
      BY <1>3, LookTyped DEF Acquire, TakeBack
    <2>2. owner' \in [Conn -> Scope \cup {None}]
      BY <1>3 DEF Acquire, TakeBack, HandTo
    <2> QED
      BY <1>3, <2>1, <2>2 DEF Acquire, timed
  <1>4. ASSUME NEW s \in Scope, LookAgain(s) PROVE HandTypes'
    BY <1>4, LookTyped DEF LookAgain, timed, bounds
  <1>5. ASSUME NEW s \in Scope,
               Spared(s) \/ Provisioned(s) \/ Counted(s) \/ GiveUp(s)
        PROVE  HandTypes'
    <2>1. PICK pc \in RequestPhase, c \in Nat : acq' = [acq EXCEPT ![s] = Acq(pc, c)]
      BY <1>5 DEF Spared, Provisioned, Counted, GiveUp, RequestPhase, Request
    <2>2. acq' \in [Scope -> Request]
      BY <2>1, AcqTyped
    <2>3. made' \in Nat /\ UNCHANGED <<held, pass, owner, idle, starter>>
      BY <1>5 DEF Spared, Provisioned, Counted, GiveUp, NewConn, timed, bounds
    <2> QED
      BY <2>2, <2>3
  <1>6. ASSUME NEW s \in Scope, Dropped(s) \/ ProvisionFails(s) PROVE HandTypes'
    <2>1. [acq EXCEPT ![s] = NoAcq] \in [Scope -> Request]
      BY AcqTyped DEF NoAcq, RequestPhase
    <2>2. acq' \in [Scope -> Request]
      BY <1>6, <2>1, WokenRequests DEF Dropped, ProvisionFails
    <2> QED
      BY <1>6, <2>2 DEF Dropped, ProvisionFails, timed, bounds
  <1>7. ASSUME NEW s \in Scope, Leased(s) PROVE HandTypes'
    <2>1. acq' \in [Scope -> Request]
      BY <1>7, AcqTyped DEF Leased, NoAcq, RequestPhase
    <2>2. held' \in [Scope -> Lease \cup {None}]
      BY <1>7 DEF Leased, Lease, Request
    <2>3. owner' \in [Conn -> Scope \cup {None}]
      BY <1>7 DEF Leased, HandTo
    <2> QED
      BY <1>7, <2>1, <2>2, <2>3 DEF Leased, bounds
  <1>8. ASSUME NEW s \in Scope, LeaseFails(s) PROVE HandTypes'
    BY <1>8 DEF LeaseFails, Request, RequestPhase, timed
  <1>9. ASSUME NEW s \in Scope, Finish(s) \/ Orphan(s) PROVE HandTypes'
    BY <1>9 DEF Finish, Orphan, StartRelease, timed, bounds
  <1>10. CASE ReleaseStep
    BY <1>10, WokenRequests DEF ReleaseStep, Deleted, Released, timed, bounds
  <1>11. ASSUME NEW x \in releasing, DeleteFails(x) PROVE HandTypes'
    BY <1>11, PoolAssumption DEF DeleteFails, Pass
  <1>12. CASE Renew
    <2>1. Snapshot \subseteq Renewal
      BY DEF Snapshot, Holders, Lease, Renewal
    <2>2. PICK todo \in SUBSET Renewal, left \in Int : Renewing(todo, left)
      BY <1>12, <2>1, PoolAssumption DEF Renew
    <2>3. CASE UNCHANGED held /\ pass' = Pass("renewed", {})
      BY <2>3, <1>12, PoolAssumption DEF Pass, Renew, bounds
    <2>4. ASSUME NEW q \in todo,
                 held' = [held EXCEPT ![q.scope] = [conn |-> q.conn, left |-> left]],
                 pass' = [pc |-> "renew", todo |-> todo \ {q}, left |-> left]
          PROVE  HandTypes'
      <3>1. [conn |-> q.conn, left |-> left] \in Lease /\ q.scope \in Scope
        BY DEF Lease, Renewal
      <3>2. held' \in [Scope -> Lease \cup {None}]
        BY <2>4, <3>1
      <3>3. pass' \in [pc : {"idle", "renew", "renewed", "sweep"}, todo : SUBSET Renewal, left : Int]
        BY <2>4
      <3> QED
        BY <1>12, <3>2, <3>3 DEF Renew, bounds
    <2> QED
      BY <2>2, <2>3, <2>4 DEF Renewing
  <1>13. CASE RenewFails
    BY <1>13, PoolAssumption DEF RenewFails, Pass
  <1>14. CASE Sweep
    <2>1. Expired \subseteq Renewal
      BY DEF Expired, Snapshot, Holders, Lease, Renewal
    <2>2. PICK todo \in SUBSET Renewal : Sweeping(todo)
      BY <1>14, <2>1 DEF Sweep
    <2>3. held' \in [Scope -> Lease \cup {None}]
      BY <2>2 DEF Sweeping, StartRelease
    <2>4. pass' \in [pc : {"idle", "renew", "renewed", "sweep"}, todo : SUBSET Renewal, left : Int]
      BY <2>2, PoolAssumption DEF Sweeping, Pass
    <2> QED
      BY <1>14, <2>3, <2>4 DEF Sweep, bounds
  <1>15. CASE Tick
    <2>1. \A left \in Int : Less(left) \in Int
      BY DEF Less
    <2>2. held' \in [Scope -> Lease \cup {None}]
      BY <1>15, <2>1 DEF Tick, Lease
    <2>3. acq' \in [Scope -> Request]
      BY <1>15, <2>1 DEF Tick, Request
    <2>4. pass' \in [pc : {"idle", "renew", "renewed", "sweep"}, todo : SUBSET Renewal, left : Int]
      BY <1>15, <2>1 DEF Tick
    <2> QED
      BY <1>15, <2>2, <2>3, <2>4 DEF Tick, bounds
  <1>16. CASE Close \/ CloseNext
    <2>1. PICK todo, spare : Closing(todo, spare)
      BY <1>16 DEF Close, CloseNext
    <2>2. held' \in [Scope -> Lease \cup {None}] /\ acq' \in [Scope -> Request]
      BY <2>1, WokenRequests DEF Closing, StartRelease
    <2> QED
      BY <1>16, <2>2 DEF Close, CloseNext, bounds
  <1>17. CASE UNCHANGED vars
    BY <1>17 DEF vars, timed, bounds
  <1> QED
    BY <1>1, <1>2, <1>3, <1>4, <1>5, <1>6, <1>7, <1>8, <1>9, <1>10, <1>11, <1>12, <1>13,
       <1>14, <1>15, <1>16, <1>17 DEF Next, Work

-----------------------------------------------------------------------------
(* Who may be handed what, action by action. *)

LEMMA NotConn == 0 \notin Conn
  BY PoolAssumption DEF Conn

(* The steps that hand out nothing: requests that move on or back, and the
   releases. *)
LEMMA SharedWork ==
  ASSUME SharedInv, HandTypes', NEW s \in Scope,
         \/ Spared(s) \/ Counted(s) \/ Dropped(s) \/ GiveUp(s)
         \/ ProvisionFails(s) \/ LeaseFails(s)
  PROVE  SharedInv'
  <1>1. [acq EXCEPT ![s] = NoAcq] \in [Scope -> Request] /\ NoAcq.conn = 0
    BY AcqTyped DEF NoAcq, RequestPhase, SharedInv, HandTypes
  <1>2. \A t \in Scope : acq'[t].conn \in {acq[t].conn, 0}
    <2>1. CASE Dropped(s) \/ ProvisionFails(s)
      BY <1>1, <2>1, WokenRequests DEF Dropped, ProvisionFails, SharedInv, HandTypes
    <2>2. CASE LeaseFails(s)
      BY <2>2 DEF LeaseFails, SharedInv, HandTypes, Request
    <2>3. CASE Spared(s) \/ GiveUp(s) \/ Counted(s)
      BY <2>3, AcqTyped DEF Spared, GiveUp, Counted, Acq, SharedInv, HandTypes
    <2> QED
      BY <2>1, <2>2, <2>3
  <1>3. UNCHANGED <<held, pass, idle, starter, owner, made>>
    BY DEF Spared, Counted, Dropped, GiveUp, ProvisionFails, LeaseFails, timed, bounds
  <1>4. Owned'
    BY <1>3 DEF SharedInv, Owned
  <1> QED
    BY <1>2, <1>3, <1>4, SharedKept

LEMMA SharedRelease ==
  ASSUME SharedInv, HandTypes',
         \/ ReleaseStep \/ StartFails \/ RenewFails \/ Sweep \/ Close \/ CloseNext
         \/ \E x \in releasing : DeleteFails(x)
         \/ \E s \in Scope : Finish(s) \/ Orphan(s)
  PROVE  SharedInv'
  <1>1. \A t \in Scope : acq'[t].conn \in {acq[t].conn, 0}
    BY WokenRequests DEF ReleaseStep, Deleted, Released, StartFails, RenewFails, Sweep, Close, CloseNext,
       Closing, DeleteFails, Finish, Orphan, SharedInv, HandTypes
  <1>2. idle' \subseteq idle /\ starter'.conn \in {starter.conn, 0}
    BY DEF ReleaseStep, Deleted, Released, StartFails, RenewFails, Sweep, Close, CloseNext,
       Closing, DeleteFails, Finish, Orphan
  <1>3. UNCHANGED <<owner, made>>
    BY DEF ReleaseStep, Deleted, Released, StartFails, RenewFails, Sweep, Close, CloseNext,
       DeleteFails, Finish, Orphan, bounds
  <1>4. \A t \in Scope : held'[t] \in {held[t], None}
    BY DEF ReleaseStep, Deleted, Released, StartFails, RenewFails, Sweep, Sweeping, Close, CloseNext,
       Closing, StartRelease, DeleteFails, Finish, Orphan, timed, SharedInv, HandTypes
  <1>5. \A r \in pass'.todo : r \in pass.todo \/ r \in Expired
    BY DEF ReleaseStep, Deleted, Released, StartFails, RenewFails, Sweep, Sweeping, Close, CloseNext,
       DeleteFails, Finish, Orphan, timed, Pass
  <1>6. \A r \in Expired : r.conn \in Conn => owner[r.conn] = r.scope
    BY DEF Expired, Snapshot, Holders, SharedInv, Owned
  <1>7. Owned'
    BY <1>3, <1>4, <1>5, <1>6 DEF SharedInv, Owned
  <1> QED
    BY <1>1, <1>2, <1>3, <1>7, SharedKept

LEMMA SharedTimer ==
  ASSUME SharedInv, HandTypes', Renew \/ Tick
  PROVE  SharedInv'
  <1>1. CASE Tick
    <2>1. \A t \in Scope : acq'[t].conn = acq[t].conn
      BY <1>1 DEF Tick, SharedInv, HandTypes, Request
    <2>2. \A t \in Scope : held'[t] # None => held[t] # None /\ held'[t].conn = held[t].conn
      BY <1>1 DEF Tick, SharedInv, HandTypes, Lease
    <2>3. pass'.todo = pass.todo /\ UNCHANGED <<idle, starter, owner, made>>
      BY <1>1 DEF Tick, bounds, SharedInv, HandTypes
    <2>4. Owned'
      BY <2>2, <2>3 DEF SharedInv, Owned
    <2> QED
      BY <2>1, <2>3, <2>4, SharedKept
  <1>2. CASE Renew
    <2>1. \A r \in Snapshot : r.conn \in Conn => owner[r.conn] = r.scope
      BY DEF Snapshot, Holders, SharedInv, Owned
    <2>2. PICK todo, left : todo \in SUBSET (Snapshot \cup pass.todo) /\ Renewing(todo, left)
      BY <1>2 DEF Renew
    <2>3. \A r \in todo : r.conn \in Conn => owner[r.conn] = r.scope
      BY <2>1, <2>2 DEF SharedInv, Owned
    <2>4. UNCHANGED <<acq, idle, starter, owner, made>>
      BY <1>2 DEF Renew, bounds
    <2>5. ASSUME UNCHANGED held, pass' = Pass("renewed", {})
          PROVE  Owned'
      BY <2>4, <2>5 DEF Pass, SharedInv, Owned
    <2>6. ASSUME NEW q \in todo,
                 held' = [held EXCEPT ![q.scope] = [conn |-> q.conn, left |-> left]],
                 pass' = [pc |-> "renew", todo |-> todo \ {q}, left |-> left]
          PROVE  Owned'
      <3>1. \A t \in Scope : held'[t] = held[t] \/ (t = q.scope /\ held'[t].conn = q.conn)
        BY <2>6 DEF SharedInv, HandTypes
      <3>2. pass'.todo \subseteq todo
        BY <2>6
      <3> QED
        BY <2>3, <2>4, <3>1, <3>2 DEF SharedInv, Owned
    <2>7. Owned'
      BY <2>2, <2>5, <2>6 DEF Renewing
    <2> QED
      BY <2>4, <2>7, SharedKept
  <1> QED
    BY <1>1, <1>2

(* A fresh connection. *)
LEMMA SharedProvisioned ==
  ASSUME SharedInv, HandTypes',
         StartProvisioned \/ \E s \in Scope : Provisioned(s)
  PROVE  SharedInv'
  <1>1. made' = made + 1 /\ made \in Nat /\ UNCHANGED <<held, pass, idle, owner>>
    BY DEF StartProvisioned, Provisioned, NewConn, timed, SharedInv, HandTypes
  <1>2. (made + 1) \in Conn => owner[made + 1] = None
    BY <1>1 DEF SharedInv, Below
  <1>3. Owned'
    BY <1>1 DEF SharedInv, Owned
  <1>0. /\ \A s \in Scope : acq[s].conn \in Nat /\ acq[s].conn # made + 1 /\ acq[s].conn <= made + 1
        /\ \A c \in idle : c # made + 1 /\ c <= made + 1
        /\ starter.conn # made + 1 /\ starter.conn <= made + 1
        /\ \A c \in Conn : owner[c] # None => c <= made + 1
    BY <1>1 DEF SharedInv, Below, HandTypes, Request, Conn
  <1>4. CASE StartProvisioned
    <2>1. starter'.conn = made + 1 /\ UNCHANGED acq
      BY <1>4 DEF StartProvisioned
    <2>2. Fresh'
      BY <1>1, <1>2, <2>1 DEF SharedInv, Fresh
    <2>3. Apart'
      BY <1>1, <1>0, <2>1 DEF SharedInv, Apart
    <2>4. Below'
      BY <1>1, <1>0, <2>1 DEF SharedInv, Below
    <2> QED
      BY <1>3, <2>2, <2>3, <2>4 DEF SharedInv
  <1>5. ASSUME NEW s \in Scope, Provisioned(s) PROVE SharedInv'
    <2>1. /\ acq'[s].conn = made + 1 /\ UNCHANGED starter
          /\ \A t \in Scope \ {s} : acq'[t] = acq[t]
      BY <1>5 DEF Provisioned, Acq, SharedInv, HandTypes
    <2>2. Fresh'
      BY <1>1, <1>2, <2>1 DEF SharedInv, Fresh
    <2>3. Apart'
      BY <1>1, <1>0, <2>1 DEF SharedInv, Apart
    <2>4. Below'
      BY <1>1, <1>0, <2>1 DEF SharedInv, Below
    <2> QED
      BY <1>3, <2>2, <2>3, <2>4 DEF SharedInv
  <1> QED
    BY <1>4, <1>5

(* A warm connection goes to a request, or comes from the pool's start. *)
LEMMA SharedLook ==
  ASSUME SharedInv, HandTypes', NEW s \in Scope, NEW late \in BOOLEAN, Look(s, late),
         UNCHANGED <<held, pass, starter, owner, made>>
  PROVE  SharedInv'
  <1>1. /\ idle' \subseteq idle
        /\ \A t \in Scope \ {s} : acq'[t] = acq[t]
        /\ acq'[s].conn \in {0} \cup (idle \ idle')
    BY LookTyped DEF SharedInv
  <1>2. Owned'
    BY DEF SharedInv, Owned
  <1>3. Fresh'
    BY <1>1, NotConn DEF SharedInv, Fresh
  <1>4. Apart'
    BY <1>1 DEF SharedInv, Apart
  <1>5. Below'
    <2>1. 0 <= made
      BY DEF SharedInv, HandTypes
    <2>2. acq'[s].conn <= made
      BY <1>1, <2>1 DEF SharedInv, Below
    <2>3. \A t \in Scope : acq'[t].conn <= made
      BY <1>1, <2>2 DEF SharedInv, Below
    <2> QED
      BY <1>1, <2>3 DEF SharedInv, Below
  <1> QED
    BY <1>2, <1>3, <1>4, <1>5 DEF SharedInv

LEMMA SharedStart ==
  ASSUME SharedInv, HandTypes', Start
  PROVE  SharedInv'
  <1>1. /\ UNCHANGED <<held, pass, acq, owner, made>> /\ starter'.conn = 0
        /\ idle' \subseteq idle \cup {starter.conn}
    BY DEF Start, timed, bounds
  <1>2. Owned' /\ Fresh'
    BY <1>1, NotConn DEF SharedInv, Owned, Fresh
  <1>3. Apart'
    BY <1>1 DEF SharedInv, Apart
  <1>4. Below'
    BY <1>1 DEF SharedInv, Below, HandTypes
  <1> QED
    BY <1>2, <1>3, <1>4 DEF SharedInv

(* A connection is handed to the scope that asked for it, or that leases it. *)
LEMMA SharedLeased ==
  ASSUME SharedInv, HandTypes', NEW s \in Scope, Leased(s)
  PROVE  SharedInv'
  <1> DEFINE c == acq[s].conn
  <1>1. /\ held' = [held EXCEPT ![s] = [conn |-> c, left |-> acq[s].left]]
        /\ acq' = [acq EXCEPT ![s] = NoAcq] /\ owner' = [owner EXCEPT ![c] = s]
        /\ UNCHANGED <<pass, idle, starter, made>>
    BY DEF Leased, HandTo, bounds
  <1>2. held'[s].conn = c /\ acq'[s].conn = 0 /\ c <= made
    BY <1>1, AcqTyped DEF NoAcq, Acq, SharedInv, HandTypes, Below
  <1>3. /\ \A t \in Scope \ {s} : held'[t] = held[t] /\ acq'[t] = acq[t]
        /\ \A d \in Conn : d # c => owner'[d] = owner[d]
        /\ c \in Conn => owner'[c] = s /\ c # 0
    BY <1>1, NotConn DEF SharedInv, HandTypes
  <1>4. c \in Conn => owner[c] = None
    BY DEF SharedInv, Fresh
  <1>5. Owned'
    <2>1. ASSUME NEW t \in Scope, held'[t] # None, held'[t].conn \in Conn
          PROVE  owner'[held'[t].conn] = t
      BY <1>2, <1>3, <1>4, <2>1, PoolAssumption DEF SharedInv, Owned
    <2>2. ASSUME NEW r \in pass'.todo, r.conn \in Conn PROVE owner'[r.conn] = r.scope
      <3>1. r \in pass.todo /\ owner[r.conn] = r.scope /\ r.scope \in Scope
        BY <1>1, <2>2 DEF SharedInv, Owned, HandTypes, Renewal
      <3>2. r.conn # c
        BY <1>4, <2>2, <3>1, PoolAssumption
      <3> QED
        BY <1>3, <2>2, <3>1, <3>2
    <2> QED
      BY <2>1, <2>2 DEF Owned
  <1>6. Fresh'
    BY <1>1, <1>2, <1>3, NotConn DEF SharedInv, Fresh, Apart
  <1>7. Apart'
    BY <1>1, <1>2, <1>3 DEF SharedInv, Apart
  <1>8. Below'
    <2>1. 0 <= made
      BY DEF SharedInv, HandTypes
    <2> QED
      BY <1>1, <1>2, <1>3, <2>1 DEF SharedInv, Below
  <1> QED
    BY <1>5, <1>6, <1>7, <1>8 DEF SharedInv

LEMMA TakenBack ==
  ASSUME SharedInv, NEW s \in Scope, TakeBack(s)
  PROVE  owner' = owner
  BY DEF TakeBack, HandTo, SharedInv, HandTypes, Owned

LEMMA SharedStep ==
  ASSUME SharedInv, [Next]_vars
  PROVE  SharedInv'
  <1>0. HandTypes'
    BY TypeStep DEF SharedInv
  <1>1. CASE Start \/ StartProvisioned
    BY <1>0, <1>1, SharedStart, SharedProvisioned
  <1>2. ASSUME NEW s \in Scope, Acquire(s) PROVE SharedInv'
    <2>1. UNCHANGED <<held, pass, starter, made>>
      BY <1>2 DEF Acquire, timed
    <2>2. CASE TakeBack(s)
      <3>1. UNCHANGED <<acq, idle, owner>>
        BY <2>2, TakenBack DEF TakeBack
      <3>2. Owned'
        BY <2>1, <3>1 DEF SharedInv, Owned
      <3> QED
        BY <1>0, <2>1, <3>1, <3>2, SharedKept
    <2>3. CASE Look(s, FALSE) /\ UNCHANGED owner
      BY <1>0, <2>1, <2>3, SharedLook
    <2> QED
      BY <1>2, <2>2, <2>3 DEF Acquire
  <1>3. ASSUME NEW s \in Scope, LookAgain(s) PROVE SharedInv'
    <2>1. UNCHANGED <<held, pass, starter, owner, made>> /\ Look(s, acq[s].pc = "late")
      BY <1>3 DEF LookAgain, timed, bounds
    <2> QED
      BY <1>0, <2>1, SharedLook
  <1>4. ASSUME NEW s \in Scope,
               \/ Spared(s) \/ Counted(s) \/ Dropped(s) \/ GiveUp(s)
               \/ ProvisionFails(s) \/ LeaseFails(s)
        PROVE  SharedInv'
    BY <1>0, <1>4, SharedWork
  <1>5. ASSUME NEW s \in Scope, Provisioned(s) \/ Leased(s) PROVE SharedInv'
    BY <1>0, <1>5, SharedProvisioned, SharedLeased
  <1>6. ASSUME \/ ReleaseStep \/ StartFails \/ RenewFails \/ Sweep \/ Close \/ CloseNext
               \/ \E x \in releasing : DeleteFails(x)
               \/ \E s \in Scope : Finish(s) \/ Orphan(s)
        PROVE  SharedInv'
    BY <1>0, <1>6, SharedRelease
  <1>7. CASE Renew \/ Tick
    BY <1>0, <1>7, SharedTimer
  <1>8. CASE UNCHANGED vars
    BY <1>8 DEF vars, timed, bounds, SharedInv, HandTypes, Owned, Fresh, Apart, Below
  <1> QED
    BY <1>1, <1>2, <1>3, <1>4, <1>5, <1>6, <1>7, <1>8 DEF Next, Work

(* What one step may do to the owners. *)
LEMMA OwnersKept ==
  ASSUME SharedInv, [Next]_vars, NEW c \in Conn, owner[c] # None
  PROVE  owner'[c] = owner[c]
  <1>1. ASSUME NEW s \in Scope, Leased(s) PROVE owner'[c] = owner[c]
    BY <1>1 DEF Leased, HandTo, SharedInv, HandTypes, Fresh
  <1>2. ASSUME NEW s \in Scope, Acquire(s) PROVE owner'[c] = owner[c]
    BY <1>2, TakenBack DEF Acquire
  <1>3. CASE UNCHANGED owner
    BY <1>3
  <1>4. ASSUME NEW s \in Scope, Work(s), ~Leased(s) PROVE UNCHANGED owner
    BY <1>4 DEF Work, LookAgain, Spared, Provisioned, Counted, Dropped
  <1>5. ASSUME NEW s \in Scope,
               GiveUp(s) \/ ProvisionFails(s) \/ LeaseFails(s) \/ Finish(s) \/ Orphan(s)
        PROVE  UNCHANGED owner
    BY <1>5 DEF GiveUp, ProvisionFails, LeaseFails, Finish, Orphan
  <1>6. ASSUME \/ Start \/ StartProvisioned \/ StartFails \/ ReleaseStep
               \/ \E x \in releasing : DeleteFails(x)
               \/ Renew \/ RenewFails \/ Sweep \/ Tick \/ Close \/ CloseNext
               \/ UNCHANGED vars
        PROVE  UNCHANGED owner
    BY <1>6 DEF Start, StartProvisioned, StartFails, ReleaseStep, Deleted, Released, DeleteFails,
                Renew, RenewFails, Sweep, Tick, Close, CloseNext, vars
  <1> QED
    BY <1>1, <1>2, <1>3, <1>4, <1>5, <1>6 DEF Next

(* A connection once handed to a scope is never handed to another: for any
   number of runs and requests, whatever overlaps, fails, comes back for its
   lease or is closed amid it (pool.ts:2-3, 9-12). *)
THEOREM ConnectionsNeverShared == Safety => NeverShared
  <1>1. SharedInv /\ [Next]_vars =>
          SharedInv' /\ [\A c \in Conn : owner[c] # None => owner'[c] = owner[c]]_vars
    BY SharedStep, OwnersKept
  <1> QED
    BY <1>1, SharedInit, PTL DEF Safety, NeverShared
-----------------------------------------------------------------------------
(* Where connections are, and how far the timer's pass has come, when calls
   do not overlap it. *)

Release == [conn : Nat, pc : {"delete", "provider"}, by : {"run", "sweep", "close"}]

ReturnTypes ==
  /\ calm \in BOOLEAN
  /\ orphaned \subseteq Scope
  /\ releasing \subseteq Release
  /\ closing \in [pc : {"open", "close", "closed"}, todo : SUBSET Scope, spare : SUBSET Nat]
  /\ live \subseteq Nat
  /\ user \in [Scope -> Nat \cup {None}]
  /\ acquires \in Nat /\ faults \in Nat

TypeOK == HandTypes /\ ReturnTypes

(* A pass renews the leases it found, none of which is given back meanwhile,
   and gives up none whose run goes on. *)
Passes ==
  /\ Closed => pass.pc = "idle" /\ starter.pc = "on"
  /\ pass.left = Reclaim /\ \A s \in Scope : acq[s].left = Reclaim
  /\ pass.pc = "renew" =>
       /\ \A r \in pass.todo : r.scope \in Holders /\ held[r.scope].conn = r.conn
       /\ \A s \in Holders \ orphaned : held[s].left >= 0 \/ \E r \in pass.todo : r.scope = s
  /\ pass.pc = "renewed" => \A s \in Holders \ orphaned : held[s].left >= 0
  /\ pass.pc = "sweep" => \A r \in pass.todo : user[r.scope] = None /\ acq[r.scope].pc = "none"

(* A scope asks, or holds a lease; a run that goes on has its lease. *)
Sides ==
  /\ orphaned \subseteq Holders
  /\ \A s \in Scope : acq[s].pc # "none" => held[s] = None /\ user[s] = None
  /\ \A s \in Scope :
       acq[s].pc \in {"none", "look", "late", "park", "provision"} => acq[s].conn = 0
  /\ starter.pc # "got" => starter.conn = 0
  /\ \A s \in Scope : user[s] # None => s \notin orphaned
  /\ ~Closed => \A s \in Scope : user[s] # None => s \in Holders /\ held[s].conn = user[s]

(* Every connection the provider has out is in one place only. *)
Placed(c) ==
  \/ \E s \in Holders : held[s].conn = c
  \/ \E s \in Scope : acq[s].conn = c
  \/ c = starter.conn
  \/ \E x \in releasing : x.conn = c
  \/ c \in idle \cup closing.spare

Carrying == {"spare", "got", "lease", "drop"}

Places ==
  /\ 0 \notin live /\ \A c \in live : c <= made
  /\ \A c \in Nat \ {0} : c \in live <=> Placed(c)
  /\ 0 \notin idle \cup closing.spare
  /\ \A s \in Holders : held[s].conn # 0
  /\ \A x \in releasing : x.conn # 0
  /\ \A s \in Scope : acq[s].pc \in Carrying => acq[s].conn # 0
  /\ starter.pc = "got" => starter.conn # 0
  /\ Closed => idle = {}
  /\ ~Closed => closing.spare = {}

Distinct ==
  /\ \A s \in Holders :
       /\ held[s].conn \notin idle \cup closing.spare /\ held[s].conn # starter.conn
       /\ \A t \in Scope : held[s].conn # acq[t].conn
       /\ \A t \in Holders : s # t => held[s].conn # held[t].conn
       /\ \A x \in releasing : held[s].conn # x.conn
  /\ \A x \in releasing :
       /\ x.conn \notin idle \cup closing.spare /\ x.conn # starter.conn
       /\ \A t \in Scope : x.conn # acq[t].conn
       /\ \A y \in releasing : x # y => x.conn # y.conn
  /\ \A c \in closing.spare : c # starter.conn /\ \A t \in Scope : c # acq[t].conn

CalmInv == calm => Passes /\ Sides /\ Places /\ Distinct

-----------------------------------------------------------------------------
LEMMA ReturnTypesInit == Init => ReturnTypes
  BY PoolAssumption DEF Init, ReturnTypes, ToRelease

LEMMA ReleaseTyped ==
  ASSUME TypeOK, NEW s \in Scope, NEW by \in {"run", "sweep", "close"}, StartRelease(s, by)
  PROVE  releasing' \subseteq Release /\ orphaned' \subseteq Scope
  <1>1. held[s].conn \in Nat
    BY DEF StartRelease, TypeOK, HandTypes, Lease
  <1>2. [conn |-> held[s].conn, pc |-> "delete", by |-> by] \in Release
    BY <1>1 DEF Release
  <1> QED
    BY <1>2 DEF StartRelease, TypeOK, ReturnTypes

LEMMA ClosingTyped ==
  ASSUME TypeOK, NEW todo \in SUBSET Scope, NEW spare \in SUBSET Nat, Closing(todo, spare)
  PROVE  /\ releasing' \subseteq Release /\ orphaned' \subseteq Scope
         /\ closing' \in [pc : {"open", "close", "closed"}, todo : SUBSET Scope, spare : SUBSET Nat]
  <1>1. ASSUME NEW s \in todo, StartRelease(s, "close"), closing' = ToRelease("close", todo \ {s}, spare)
        PROVE  /\ releasing' \subseteq Release /\ orphaned' \subseteq Scope
               /\ closing' \in [pc : {"open", "close", "closed"}, todo : SUBSET Scope, spare : SUBSET Nat]
    BY <1>1, ReleaseTyped DEF ToRelease
  <1>2. ASSUME NEW c \in spare,
               releasing' = releasing \cup {[conn |-> c, pc |-> "provider", by |-> "close"]},
               closing' = ToRelease("close", {}, spare \ {c}), UNCHANGED orphaned
        PROVE  /\ releasing' \subseteq Release /\ orphaned' \subseteq Scope
               /\ closing' \in [pc : {"open", "close", "closed"}, todo : SUBSET Scope, spare : SUBSET Nat]
    BY <1>2 DEF ToRelease, Release, TypeOK, ReturnTypes
  <1>3. ASSUME closing' = ToRelease("closed", {}, {}), UNCHANGED <<releasing, orphaned>>
        PROVE  /\ releasing' \subseteq Release /\ orphaned' \subseteq Scope
               /\ closing' \in [pc : {"open", "close", "closed"}, todo : SUBSET Scope, spare : SUBSET Nat]
    BY <1>3 DEF ToRelease, TypeOK, ReturnTypes
  <1> QED
    BY <1>1, <1>2, <1>3 DEF Closing

LEMMA ReturnTypesStep ==
  ASSUME TypeOK, [Next]_vars
  PROVE  ReturnTypes'
  <1> USE DEF TypeOK, ReturnTypes
  <1>1. CASE Start \/ StartProvisioned \/ StartFails
    <2>1. UNCHANGED <<calm, closing, orphaned, releasing, user, acquires>>
      BY <1>1 DEF Start, StartProvisioned, StartFails, life, bounds
    <2>2. live' \subseteq Nat
      <3>1. made + 1 \in Nat
        BY DEF HandTypes
      <3> QED
        BY <1>1, <3>1 DEF Start, StartProvisioned, StartFails, NewConn
    <2>3. faults' \in Nat
      BY <1>1 DEF Start, StartProvisioned, StartFails, Rejects, Fault, bounds
    <2> QED
      BY <2>1, <2>2, <2>3
  <1>2. ASSUME NEW s \in Scope, Acquire(s) PROVE ReturnTypes'
    <2>1. orphaned' \subseteq Scope
      BY <1>2 DEF Acquire, TakeBack
    <2>2. user' \in [Scope -> Nat \cup {None}]
      BY <1>2 DEF Acquire, TakeBack, HandTo, HandTypes, Lease
    <2>3. UNCHANGED <<calm, closing, releasing, live, faults>> /\ acquires' \in Nat
      BY <1>2 DEF Acquire, life
    <2> QED
      BY <2>1, <2>2, <2>3
  <1>3. ASSUME NEW s \in Scope, Leased(s) PROVE ReturnTypes'
    <2>1. user' \in [Scope -> Nat \cup {None}]
      BY <1>3 DEF Leased, HandTo, HandTypes, Request
    <2> QED
      BY <1>3, <2>1 DEF Leased, life, bounds
  <1>4. ASSUME NEW s \in Scope,
               \/ LookAgain(s) \/ Spared(s) \/ Provisioned(s) \/ Counted(s) \/ Dropped(s)
               \/ GiveUp(s) \/ ProvisionFails(s) \/ LeaseFails(s)
        PROVE  ReturnTypes'
    <2>1. UNCHANGED <<calm, closing, orphaned, releasing, user>>
      BY <1>4 DEF LookAgain, Spared, Provisioned, Counted, Dropped, GiveUp, ProvisionFails, LeaseFails, life
    <2>2. live' \subseteq Nat
      BY <1>4 DEF LookAgain, Spared, Provisioned, Counted, Dropped, GiveUp, ProvisionFails, LeaseFails,
                  NewConn, HandTypes
    <2>3. acquires' \in Nat /\ faults' \in Nat
      BY <1>4 DEF LookAgain, Spared, Provisioned, Counted, Dropped, GiveUp, ProvisionFails, LeaseFails,
                  Rejects, Fault, bounds
    <2> QED
      BY <2>1, <2>2, <2>3
  <1>5. ASSUME NEW s \in Scope, Finish(s) \/ Orphan(s) PROVE ReturnTypes'
    <2>1. UNCHANGED <<calm, closing, live, acquires, faults>> /\ user' \in [Scope -> Nat \cup {None}]
      BY <1>5 DEF Finish, Orphan, life, bounds
    <2>2. releasing' \subseteq Release /\ orphaned' \subseteq Scope
      BY <1>5, ReleaseTyped DEF Finish, Orphan, Holders
    <2> QED
      BY <2>1, <2>2
  <1>6. ASSUME NEW x \in releasing, Deleted(x) \/ Released(x) \/ DeleteFails(x) PROVE ReturnTypes'
    <2>1. releasing' \subseteq Release
      BY <1>6 DEF Deleted, Released, DeleteFails, Release
    <2>2. UNCHANGED <<calm, closing, orphaned, user, acquires>> /\ live' \subseteq Nat /\ faults' \in Nat
      BY <1>6 DEF Deleted, Released, DeleteFails, Fault, life, bounds
    <2> QED
      BY <2>1, <2>2
  <1>7. CASE Renew \/ RenewFails \/ Tick
    BY <1>7 DEF Renew, RenewFails, Tick, Fault, life, bounds
  <1>8. CASE Sweep
    <2>1. releasing' \subseteq Release /\ orphaned' \subseteq Scope
      <3>1. PICK todo \in SUBSET Renewal : Sweeping(todo)
        BY <1>8 DEF Sweep, Expired, Snapshot, Holders, Lease, Renewal, HandTypes
      <3> QED
        BY <3>1, ReleaseTyped DEF Sweeping, Renewal
    <2> QED
      BY <1>8, <2>1 DEF Sweep, life, bounds
  <1>9. CASE Close \/ CloseNext
    <2>1. PICK todo \in SUBSET Scope, spare \in SUBSET Nat : Closing(todo, spare)
      BY <1>9 DEF Close, CloseNext, Holders, HandTypes
    <2> QED
      BY <1>9, <2>1, ClosingTyped DEF Close, CloseNext, bounds
  <1>10. CASE UNCHANGED vars
    BY <1>10 DEF vars, life, bounds
  <1> QED
    BY <1>1, <1>2, <1>3, <1>4, <1>5, <1>6, <1>7, <1>8, <1>9, <1>10 DEF Next, Work, ReleaseStep

(* Every variable keeps its type. *)
THEOREM TypeCorrect == Safety => []TypeOK
  <1>1. Init => TypeOK
    BY SharedInit, ReturnTypesInit DEF SharedInv, TypeOK
  <1>2. TypeOK /\ [Next]_vars => TypeOK'
    BY TypeStep, ReturnTypesStep DEF TypeOK
  <1> QED
    BY <1>1, <1>2, PTL DEF Safety

-----------------------------------------------------------------------------
(* Requests, leases and passes, action by action, when calls do not overlap. *)

LEMMA AcqFields ==
  \A pc, c : Acq(pc, c).pc = pc /\ Acq(pc, c).conn = c /\ Acq(pc, c).left = Reclaim
  BY DEF Acq

LEMMA WokenCases ==
  ASSUME NEW r, NEW s \in Scope
  PROVE  Woken(r)[s] = r[s] \/ (r[s].pc = "park" /\ Woken(r)[s] = Acq("look", 0))
  BY DEF Woken

LEMMA NoneIsNone == None \notin Nat /\ None \notin Scope /\ None \notin Lease
  BY PoolAssumption DEF Lease

(* A request moves on and its scope stays without a lease. *)
LEMMA SidesMoved ==
  ASSUME Sides, UNCHANGED <<held, orphaned, user, closing, starter>>, NEW s \in Scope, acq[s].pc # "none",
         \A t \in Scope \ {s} : acq'[t] = acq[t] \/ (acq[t].pc = "park" /\ acq'[t] = Acq("look", 0)),
         acq'[s].pc \in {"none", "look", "late", "park", "provision"} => acq'[s].conn = 0
  PROVE  Sides'
  BY AcqFields DEF Sides, Holders, Closed

LEMMA SidesWork ==
  ASSUME TypeOK, Sides, NEW s \in Scope,
         \/ LookAgain(s) \/ Spared(s) \/ Provisioned(s) \/ Counted(s) \/ Dropped(s)
         \/ GiveUp(s) \/ ProvisionFails(s) \/ LeaseFails(s)
  PROVE  Sides'
  <1>0. acq \in [Scope -> Request] /\ NoAcq.conn = 0 /\ NoAcq.pc = "none"
    BY AcqFields DEF TypeOK, HandTypes, NoAcq
  <1>1. UNCHANGED <<held, orphaned, user, closing, starter>>
    BY DEF LookAgain, Spared, Provisioned, Counted, Dropped, GiveUp, ProvisionFails, LeaseFails, life, timed
  <1>2. acq[s].pc # "none"
    BY DEF LookAgain, Spared, Provisioned, Counted, Dropped, GiveUp, ProvisionFails, LeaseFails
  <1>3. CASE LookAgain(s)
    <2>1. /\ \A t \in Scope \ {s} : acq'[t] = acq[t]
          /\ acq'[s].pc \in {"none", "look", "late", "park", "provision"} => acq'[s].conn = 0
      BY <1>0, <1>3, AcqFields DEF LookAgain, Look
    <2> QED
      BY <1>1, <1>2, <2>1, SidesMoved
  <1>4. CASE Dropped(s) \/ ProvisionFails(s)
    <2> DEFINE r == [acq EXCEPT ![s] = NoAcq]
    <2>1. acq' = Woken(r)
      BY <1>4 DEF Dropped, ProvisionFails
    <2>4. r[s] = NoAcq /\ \A t \in Scope \ {s} : r[t] = acq[t]
      BY <1>0
    <2> HIDE DEF r
    <2>2. acq'[s] = NoAcq
      BY <1>0, <2>1, <2>4, WokenCases
    <2>3. \A t \in Scope \ {s} : acq'[t] = acq[t] \/ (acq[t].pc = "park" /\ acq'[t] = Acq("look", 0))
      BY <2>1, <2>4, WokenCases
    <2> QED
      BY <1>0, <1>1, <1>2, <2>2, <2>3, SidesMoved
  <1>5. CASE Spared(s) \/ Provisioned(s) \/ Counted(s) \/ GiveUp(s) \/ LeaseFails(s)
    <2>1. /\ \A t \in Scope \ {s} : acq'[t] = acq[t]
          /\ acq'[s].pc \in {"none", "look", "late", "park", "provision"} => acq'[s].conn = 0
      BY <1>0, <1>5, AcqFields DEF Spared, Provisioned, Counted, GiveUp, LeaseFails, Request
    <2> QED
      BY <1>1, <1>2, <2>1, SidesMoved
  <1> QED
    BY <1>3, <1>4, <1>5

LEMMA SidesStart ==
  ASSUME TypeOK, Sides, Start \/ StartProvisioned \/ StartFails \/ (\E x \in releasing : Deleted(x) \/ Released(x))
         \/ RenewFails
  PROVE  Sides'
  <1>1. UNCHANGED <<held, orphaned, user, closing>>
    BY DEF Start, StartProvisioned, StartFails, Deleted, Released, RenewFails, life, timed
  <1>2. starter'.pc # "got" => starter'.conn = 0
    BY DEF Start, StartProvisioned, StartFails, Deleted, Released, RenewFails, Sides
  <1>3. \A s \in Scope : acq'[s] = acq[s] \/ (acq[s].pc = "park" /\ acq'[s] = Acq("look", 0))
    BY WokenCases DEF Start, StartProvisioned, StartFails, Deleted, Released, RenewFails
  <1> QED
    BY <1>1, <1>2, <1>3, AcqFields DEF Sides, Holders, Closed

(* A scope that has no lease asks. *)
LEMMA SidesAcquire ==
  ASSUME TypeOK, Sides, NEW s \in Scope, Acquire(s)
  PROVE  Sides'
  <1>0. /\ acq \in [Scope -> Request] /\ user \in [Scope -> Nat \cup {None}]
        /\ held \in [Scope -> Lease \cup {None}]
    BY DEF TypeOK, HandTypes, ReturnTypes
  <1>1. UNCHANGED <<held, closing, starter>> /\ user[s] = None /\ acq[s].pc = "none"
    BY DEF Acquire, life, timed
  <1>2. CASE TakeBack(s)
    <2>1. /\ orphaned' = orphaned \ {s} /\ UNCHANGED acq /\ user' = [user EXCEPT ![s] = held[s].conn]
          /\ held[s] # None
      BY <1>2 DEF TakeBack, HandTo
    <2>2. user'[s] = held[s].conn /\ \A t \in Scope \ {s} : user'[t] = user[t]
      BY <1>0, <2>1
    <2> QED
      BY <1>1, <2>1, <2>2 DEF Sides, Holders, Closed
  <1>3. CASE held[s] = None /\ Look(s, FALSE) /\ UNCHANGED <<orphaned, user>>
    <2>1. /\ \A t \in Scope \ {s} : acq'[t] = acq[t]
          /\ acq'[s].pc \in {"none", "look", "late", "park", "provision"} => acq'[s].conn = 0
      BY <1>0, <1>3, AcqFields DEF Look
    <2> QED
      BY <1>1, <1>3, <2>1 DEF Sides, Holders, Closed
  <1> QED
    BY <1>2, <1>3 DEF Acquire

LEMMA SidesLeased ==
  ASSUME TypeOK, Sides, NEW s \in Scope, Leased(s)
  PROVE  Sides'
  <1>0. /\ acq \in [Scope -> Request] /\ user \in [Scope -> Nat \cup {None}]
        /\ held \in [Scope -> Lease \cup {None}] /\ orphaned \subseteq Holders
        /\ held[s] = None
    BY DEF TypeOK, HandTypes, ReturnTypes, Sides, Leased
  <1>1. held'[s] \in Lease /\ held'[s].conn = acq[s].conn /\ user'[s] = acq[s].conn /\ acq'[s] = NoAcq
    BY <1>0 DEF Leased, HandTo, Request, Lease
  <1>2. /\ \A t \in Scope \ {s} : held'[t] = held[t] /\ user'[t] = user[t] /\ acq'[t] = acq[t]
        /\ UNCHANGED <<orphaned, closing, starter>>
    BY <1>0 DEF Leased, HandTo, life
  <1>3. s \notin orphaned /\ held'[s] # None /\ NoAcq.pc = "none" /\ NoAcq.conn = 0
    BY <1>0, <1>1, NoneIsNone, AcqFields DEF Holders, NoAcq
  <1> QED
    BY <1>0, <1>1, <1>2, <1>3 DEF Sides, Holders, Closed

(* A lease is given back by its run, a sweep or a close. *)
LEMMA SidesReleased ==
  ASSUME TypeOK, Sides, NEW s \in Scope, NEW by, StartRelease(s, by),
         UNCHANGED <<acq, starter>>, closing' = closing \/ Closed',
         \/ user' = [user EXCEPT ![s] = None]
         \/ user' = user /\ (user[s] = None \/ Closed')
  PROVE  Sides'
  <1>0. /\ user \in [Scope -> Nat \cup {None}] /\ held \in [Scope -> Lease \cup {None}]
    BY DEF TypeOK, HandTypes, ReturnTypes
  <1>1. /\ held'[s] = None /\ \A t \in Scope \ {s} : held'[t] = held[t]
        /\ orphaned' = orphaned \ {s}
    BY <1>0 DEF StartRelease
  <1>2. \A t \in Scope : user'[t] = user[t] \/ (t = s /\ user'[t] = None)
    BY <1>0
  <1>3. Closed' \/ user'[s] = None
    BY <1>0
  <1> QED
    BY <1>0, <1>1, <1>2, <1>3 DEF Sides, Holders, Closed

LEMMA SidesGivenBack ==
  ASSUME TypeOK, calm, Passes, Sides, (\E s \in Scope : Finish(s) \/ Orphan(s)) \/ Sweep
  PROVE  Sides'
  <1>0. /\ user \in [Scope -> Nat \cup {None}] /\ held \in [Scope -> Lease \cup {None}]
    BY DEF TypeOK, HandTypes, ReturnTypes
  <1>1. ASSUME NEW s \in Scope, Finish(s) PROVE Sides'
    <2>1. UNCHANGED <<acq, starter, closing>> /\ user' = [user EXCEPT ![s] = None]
      BY <1>1 DEF Finish, life
    <2>2. CASE StartRelease(s, "run")
      BY <2>1, <2>2, SidesReleased
    <2>3. CASE UNCHANGED <<held, orphaned>>
      BY <1>0, <2>1, <2>3 DEF Sides, Holders, Closed
    <2> QED
      BY <1>1, <2>2, <2>3 DEF Finish
  <1>2. ASSUME NEW s \in Scope, Orphan(s) PROVE Sides'
    <2>1. /\ UNCHANGED <<acq, starter, closing, held>> /\ user' = [user EXCEPT ![s] = None]
          /\ orphaned' = orphaned \cup ({s} \cap Holders)
      BY <1>2 DEF Orphan, life, timed
    <2> QED
      BY <1>0, <2>1 DEF Sides, Holders, Closed
  <1>3. CASE Sweep
    <2>1. UNCHANGED <<acq, starter, closing, user>>
      BY <1>3 DEF Sweep, life
    <2>2. PICK todo \in SUBSET Renewal : Sweeping(todo) /\ \A r \in todo : user[r.scope] = None
      <3>1. CASE pass.pc = "renewed" /\ Sweeping(Expired)
        <4>1. \A r \in Expired : r.scope \in Holders /\ held[r.scope].left < 0 /\ r \in Renewal
          BY <1>0 DEF Expired, Snapshot, Holders, Lease, Renewal
        <4>2. \A s \in Holders \ orphaned : ~(held[s].left < 0)
          BY <1>0, <3>1 DEF Passes, Holders, Lease
        <4>3. \A r \in Expired : r.scope \in orphaned
          BY <4>1, <4>2
        <4> QED
          BY <3>1, <4>1, <4>3 DEF Sides, Holders
      <3>2. CASE pass.pc = "sweep" /\ Sweeping(pass.todo)
        BY <3>2 DEF Passes, TypeOK, HandTypes
      <3> QED
        BY <1>3, <3>1, <3>2 DEF Sweep
    <2>3. ASSUME NEW r \in todo, StartRelease(r.scope, "sweep") PROVE Sides'
      BY <2>1, <2>2, <2>3, SidesReleased DEF Renewal
    <2>4. CASE UNCHANGED <<held, orphaned>>
      BY <2>1, <2>4 DEF Sides, Holders, Closed
    <2> QED
      BY <2>2, <2>3, <2>4 DEF Sweeping
  <1> QED
    BY <1>1, <1>2, <1>3

LEMMA SidesClosed ==
  ASSUME TypeOK, Sides, Close \/ CloseNext
  PROVE  Sides'
  <1>1. UNCHANGED <<starter, user>>
    BY DEF Close, CloseNext
  <1>2. PICK todo, spare : todo \in SUBSET Scope /\ Closing(todo, spare)
    BY DEF Close, CloseNext, Holders, TypeOK, ReturnTypes
  <1>3. Closed'
    BY <1>2 DEF Closing, Closed, ToRelease
  <1>4. ASSUME NEW s \in todo, StartRelease(s, "close"), UNCHANGED acq PROVE Sides'
    BY <1>1, <1>2, <1>3, <1>4, SidesReleased
  <1>5. CASE /\ UNCHANGED <<held, orphaned>>
             /\ \A s \in Scope : acq'[s] = acq[s] \/ (acq[s].pc = "park" /\ acq'[s] = Acq("look", 0))
    BY <1>1, <1>3, <1>5, AcqFields DEF Sides, Holders
  <1> QED
    BY <1>2, <1>4, <1>5, WokenCases DEF Closing

(* The timer writes no more than the time of the leases there are. *)
LEMMA LeasesStay ==
  ASSUME TypeOK, calm, Passes, Renew \/ Tick, NEW s \in Scope
  PROVE  (held'[s] = None <=> held[s] = None) /\ (held[s] # None => held'[s].conn = held[s].conn)
  <1>0. held \in [Scope -> Lease \cup {None}]
    BY DEF TypeOK, HandTypes
  <1>1. CASE Tick
    <2>1. \A left \in Int : Less(left) \in Int
      BY DEF Less
    <2>2. held[s] # None => [held[s] EXCEPT !.left = Less(@)] \in Lease
      BY <1>0, <2>1 DEF Lease
    <2> QED
      BY <1>0, <1>1, <2>2, NoneIsNone DEF Tick, Lease
  <1>2. CASE Renew
    <2>1. \A r \in Snapshot : r.scope \in Holders /\ held[r.scope].conn = r.conn
      BY DEF Snapshot, Holders
    <2>2. PICK todo \in SUBSET Renewal, left \in Int :
            Renewing(todo, left) /\ \A r \in todo : r.scope \in Holders /\ held[r.scope].conn = r.conn
      <3>1. Snapshot \subseteq Renewal
        BY <1>0 DEF Snapshot, Holders, Lease, Renewal
      <3>2. Reclaim \in Int /\ pass.left \in Int /\ pass.todo \in SUBSET Renewal
        BY PoolAssumption DEF TypeOK, HandTypes
      <3> QED
        BY <1>2, <2>1, <3>1, <3>2 DEF Renew, Passes
    <2>3. CASE UNCHANGED held
      BY <2>3
    <2>4. ASSUME NEW r \in todo, held' = [held EXCEPT ![r.scope] = [conn |-> r.conn, left |-> left]]
          PROVE  (held'[s] = None <=> held[s] = None) /\ (held[s] # None => held'[s].conn = held[s].conn)
      <3>1. [conn |-> r.conn, left |-> left] \in Lease /\ r.scope \in Scope
        BY DEF Lease, Renewal
      <3> QED
        BY <1>0, <2>2, <2>4, <3>1, NoneIsNone DEF Holders
    <2> QED
      BY <2>2, <2>3, <2>4 DEF Renewing
  <1> QED
    BY <1>1, <1>2

LEMMA SidesTimer ==
  ASSUME TypeOK, calm, Passes, Sides, Renew \/ Tick
  PROVE  Sides'
  <1>1. UNCHANGED <<orphaned, user, starter, closing>>
    BY DEF Renew, Tick, life
  <1>2. \A s \in Scope : acq'[s].pc = acq[s].pc /\ acq'[s].conn = acq[s].conn
    BY DEF Renew, Tick, TypeOK, HandTypes, Request
  <1>3. \A s \in Scope :
          (held'[s] = None <=> held[s] = None) /\ (held[s] # None => held'[s].conn = held[s].conn)
    BY LeasesStay
  <1> QED
    BY <1>1, <1>2, <1>3 DEF Sides, Holders, Closed

LEMMA SidesStep ==
  ASSUME TypeOK, calm, Passes, Sides, [Next]_vars
  PROVE  Sides'
  <1>1. ASSUME NEW x \in releasing, DeleteFails(x) PROVE Sides'
    BY <1>1 DEF DeleteFails
  <1>2. CASE UNCHANGED vars
    BY <1>2 DEF vars, life, timed, Sides, Holders, Closed
  <1> QED
    BY <1>1, <1>2, SidesWork, SidesStart, SidesAcquire, SidesLeased, SidesGivenBack, SidesClosed, SidesTimer
    DEF Next, Work, ReleaseStep

(* A step outside the pass and the leases. *)
LEMMA PassesKept ==
  ASSUME Passes, UNCHANGED <<pass, closing>>, Closed => starter'.pc = "on",
         pass.pc = "idle" \/ UNCHANGED <<held, orphaned, user>>,
         \A s \in Scope : acq'[s].left = Reclaim /\ (pass.pc = "idle" \/ (acq[s].pc = "none" => acq'[s].pc = "none")),
         pass.todo \subseteq Renewal
  PROVE  Passes'
  BY DEF Passes, Holders, Closed, Renewal

LEMMA PassesRequest ==
  ASSUME TypeOK, calm, Passes, NEW s \in Scope,
         \/ Acquire(s) \/ Finish(s) \/ Orphan(s)
         \/ LookAgain(s) \/ Spared(s) \/ Provisioned(s) \/ Counted(s) \/ Dropped(s)
         \/ GiveUp(s) \/ ProvisionFails(s) \/ LeaseFails(s)
  PROVE  Passes'
  <1>0. /\ acq \in [Scope -> Request] /\ NoAcq.left = Reclaim /\ NoAcq.pc = "none"
        /\ pass.todo \subseteq Renewal
    BY AcqFields DEF TypeOK, HandTypes, NoAcq
  <1>1. UNCHANGED <<closing, starter>>
    BY DEF Acquire, Finish, Orphan, LookAgain, Spared, Provisioned, Counted, Dropped, GiveUp, ProvisionFails, LeaseFails, life, timed
  <1>2. CASE Acquire(s) \/ LookAgain(s)
    <2>1. pass.pc = "idle" /\ UNCHANGED pass
      BY <1>2 DEF Acquire, LookAgain, Alone, timed
    <2>2. \A t \in Scope : acq'[t].left = Reclaim
      BY <1>0, <1>2, AcqFields DEF Acquire, TakeBack, LookAgain, Look, Passes
    <2> QED
      BY <1>0, <1>1, <2>1, <2>2, PassesKept DEF Passes
  <1>3. CASE Finish(s) \/ Orphan(s)
    <2>1. pass.pc = "idle" /\ UNCHANGED <<pass, acq>>
      BY <1>3 DEF Finish, Orphan, Alone, timed
    <2> QED
      BY <1>0, <1>1, <2>1, PassesKept DEF Passes
  <1>4. CASE Dropped(s) \/ ProvisionFails(s)
    <2> DEFINE r == [acq EXCEPT ![s] = NoAcq]
    <2>1. acq' = Woken(r) /\ UNCHANGED <<pass, held, orphaned, user>>
      BY <1>4 DEF Dropped, ProvisionFails, timed
    <2>2. r[s] = NoAcq /\ \A t \in Scope \ {s} : r[t] = acq[t]
      BY <1>0
    <2> HIDE DEF r
    <2>3. \A t \in Scope : acq'[t].left = Reclaim /\ (acq[t].pc = "none" => acq'[t].pc = "none")
      BY <1>0, <2>1, <2>2, WokenCases, AcqFields DEF Passes
    <2> QED
      BY <1>0, <1>1, <2>1, <2>3, PassesKept DEF Passes
  <1>5. CASE Spared(s) \/ Provisioned(s) \/ Counted(s) \/ GiveUp(s) \/ LeaseFails(s)
    <2>1. UNCHANGED <<pass, held, orphaned, user>> /\ acq[s].pc # "none"
      BY <1>5 DEF Spared, Provisioned, Counted, GiveUp, LeaseFails, timed
    <2>2. \A t \in Scope : acq'[t].left = Reclaim /\ (acq[t].pc = "none" => acq'[t].pc = "none")
      BY <1>0, <1>5, <2>1, AcqFields DEF Spared, Provisioned, Counted, GiveUp, LeaseFails, Passes, Request
    <2> QED
      BY <1>0, <1>1, <2>1, <2>2, PassesKept DEF Passes
  <1> QED
    BY <1>2, <1>3, <1>4, <1>5

LEMMA PassesProvider ==
  ASSUME TypeOK, Passes, Start \/ StartProvisioned \/ StartFails \/ (\E x \in releasing : Deleted(x) \/ Released(x))
  PROVE  Passes'
  <1>1. UNCHANGED <<pass, closing, held, orphaned, user>> /\ pass.todo \subseteq Renewal
    BY DEF Start, StartProvisioned, StartFails, Deleted, Released, life, timed, TypeOK, HandTypes
  <1>2. Closed => starter'.pc = "on"
    BY DEF Start, StartProvisioned, StartFails, Deleted, Released, Passes
  <1>3. \A s \in Scope : acq'[s].left = Reclaim /\ (acq[s].pc = "none" => acq'[s].pc = "none")
    BY WokenCases, AcqFields DEF Start, StartProvisioned, StartFails, Deleted, Released, Passes
  <1> QED
    BY <1>1, <1>2, <1>3, PassesKept

LEMMA PassesLeased ==
  ASSUME TypeOK, Passes, Sides, NEW s \in Scope, Leased(s)
  PROVE  Passes'
  <1>0. /\ acq \in [Scope -> Request] /\ held \in [Scope -> Lease \cup {None}]
        /\ user \in [Scope -> Nat \cup {None}] /\ pass.todo \subseteq Renewal
        /\ held[s] = None /\ acq[s].pc = "lease" /\ Reclaim \in Nat
    BY PoolAssumption DEF TypeOK, HandTypes, ReturnTypes, Sides, Leased
  <1>1. UNCHANGED <<pass, closing, starter, orphaned>>
    BY DEF Leased, life
  <1>2. /\ held'[s].left = Reclaim /\ acq'[s] = NoAcq /\ NoAcq.left = Reclaim
        /\ \A t \in Scope \ {s} : held'[t] = held[t] /\ user'[t] = user[t] /\ acq'[t] = acq[t]
    BY <1>0, AcqFields DEF Leased, HandTo, Passes, NoAcq
  <1>3. pass.pc = "renew" => \A r \in pass.todo : r.scope \in Holders' /\ held'[r.scope].conn = r.conn
    BY <1>0, <1>2 DEF Passes, Holders
  <1>4. \A t \in Holders' : t \in Holders \/ (t = s /\ held'[t].left >= 0)
    BY <1>0, <1>2 DEF Holders
  <1>5. \A t \in Holders' \ {s} : held'[t] = held[t]
    BY <1>2 DEF Holders
  <1>6. s \notin Holders
    BY <1>0 DEF Holders
  <1>7. pass.pc = "renew" =>
          \A t \in Holders' \ orphaned : held'[t].left >= 0 \/ \E r \in pass.todo : r.scope = t
    BY <1>4, <1>5, <1>6 DEF Passes
  <1>8. pass.pc = "renewed" => \A t \in Holders' \ orphaned : held'[t].left >= 0
    BY <1>4, <1>5, <1>6 DEF Passes
  <1>9. pass.pc = "sweep" => \A r \in pass.todo : user'[r.scope] = None /\ acq'[r.scope].pc = "none"
    BY <1>0, <1>2 DEF Passes, Renewal
  <1>10. \A t \in Scope : acq'[t].left = Reclaim
    BY <1>2 DEF Passes
  <1> QED
    BY <1>1, <1>3, <1>7, <1>8, <1>9, <1>10 DEF Passes, Closed

LEMMA PassesRenew ==
  ASSUME TypeOK, calm, Passes, Renew
  PROVE  Passes'
  <1>0. /\ held \in [Scope -> Lease \cup {None}] /\ Reclaim \in Nat
    BY PoolAssumption DEF TypeOK, HandTypes
  <1>1. UNCHANGED <<acq, closing, starter, orphaned, user>> /\ ~Closed
    BY DEF Renew, life, Passes
  <1>2. PICK todo \in SUBSET Renewal :
          /\ Renewing(todo, Reclaim)
          /\ \A r \in todo : r.scope \in Holders /\ held[r.scope].conn = r.conn
          /\ \A s \in Holders \ orphaned : held[s].left >= 0 \/ \E r \in todo : r.scope = s
    <2>1. CASE pass.pc = "idle" /\ Renewing(Snapshot, Reclaim)
      <3>1. Snapshot \subseteq Renewal
        BY <1>0 DEF Snapshot, Holders, Lease, Renewal
      <3>2. \A r \in Snapshot : r.scope \in Holders /\ held[r.scope].conn = r.conn
        BY DEF Snapshot
      <3>3. ASSUME NEW s \in Holders PROVE \E r \in Snapshot : r.scope = s
        <4>1. [scope |-> s, conn |-> held[s].conn] \in Snapshot
          BY DEF Snapshot
        <4> QED
          BY <4>1
      <3> HIDE DEF Snapshot
      <3> QED
        BY <2>1, <3>1, <3>2, <3>3
    <2>2. CASE pass.pc = "renew" /\ Renewing(pass.todo, pass.left)
      BY <2>2 DEF Passes, TypeOK, HandTypes
    <2> QED
      BY <2>1, <2>2 DEF Renew
  <1>3. ASSUME NEW r \in todo, r.scope \notin orphaned,
               held' = [held EXCEPT ![r.scope] = [conn |-> r.conn, left |-> Reclaim]],
               pass' = [pc |-> "renew", todo |-> todo \ {r}, left |-> Reclaim]
        PROVE  Passes'
    <2>1. r.scope \in Scope /\ [conn |-> r.conn, left |-> Reclaim] \in Lease
      BY <1>0 DEF Renewal, Lease
    <2>2. /\ held'[r.scope] = [conn |-> r.conn, left |-> Reclaim]
          /\ \A t \in Scope \ {r.scope} : held'[t] = held[t]
      BY <1>0, <1>3, <2>1
    <2>3. held'[r.scope] # None
      BY <2>1, <2>2, NoneIsNone
    <2>4. Holders' = Holders
      BY <1>2, <2>1, <2>2, <2>3 DEF Holders
    <2>5. \A q \in todo : held'[q.scope].conn = q.conn
      BY <1>2, <2>2 DEF Holders
    <2>6. \A s \in Holders \ orphaned : held'[s].left >= 0 \/ \E q \in todo \ {r} : q.scope = s
      <3>1. held'[r.scope].left >= 0
        BY <1>0, <2>2
      <3> QED
        BY <1>2, <2>2, <3>1 DEF Holders
    <2>7. pass'.pc = "renew" /\ pass'.todo = todo \ {r} /\ pass'.left = Reclaim
      BY <1>3
    <2> QED
      BY <1>1, <1>2, <2>4, <2>5, <2>6, <2>7 DEF Passes, Closed
  <1>4. ASSUME \A r \in todo : r.scope \in orphaned, pass' = Pass("renewed", {}), UNCHANGED held
        PROVE  Passes'
    <2>1. pass'.pc = "renewed" /\ pass'.left = Reclaim
      BY <1>4 DEF Pass
    <2>2. \A s \in Holders \ orphaned : held[s].left >= 0
      BY <1>2, <1>4
    <2> QED
      BY <1>1, <1>4, <2>1, <2>2 DEF Passes, Closed, Holders
  <1> QED
    BY <1>2, <1>3, <1>4 DEF Renewing

LEMMA PassesSweep ==
  ASSUME TypeOK, Passes, Sides, Sweep
  PROVE  Passes'
  <1>0. held \in [Scope -> Lease \cup {None}]
    BY DEF TypeOK, HandTypes
  <1>1. UNCHANGED <<acq, closing, starter, user>> /\ ~Closed
    BY DEF Sweep, life, Passes
  <1>2. PICK todo : Sweeping(todo) /\ \A r \in todo : user[r.scope] = None /\ acq[r.scope].pc = "none"
    <2>1. CASE pass.pc = "renewed" /\ Sweeping(Expired)
      <3>1. \A r \in Expired : r.scope \in Holders /\ held[r.scope].left < 0
        BY DEF Expired, Snapshot
      <3>2. \A s \in Holders \ orphaned : ~(held[s].left < 0)
        BY <1>0, <2>1 DEF Passes, Holders, Lease
      <3>3. \A r \in Expired : r.scope \in orphaned /\ r.scope \in Holders
        BY <3>1, <3>2
      <3> QED
        BY <2>1, <3>3 DEF Sides, Holders
    <2>2. CASE pass.pc = "sweep" /\ Sweeping(pass.todo)
      BY <2>2 DEF Passes
    <2> QED
      BY <2>1, <2>2 DEF Sweep
  <1>3. pass'.left = Reclaim /\ pass'.pc \in {"sweep", "idle"} /\ pass'.todo \subseteq todo
    BY <1>2 DEF Sweeping, Pass
  <1> QED
    BY <1>1, <1>2, <1>3 DEF Passes, Closed

LEMMA PassesStep ==
  ASSUME TypeOK, calm, Passes, Sides, [Next]_vars
  PROVE  Passes'
  <1>0. acq \in [Scope -> Request] /\ pass.todo \subseteq Renewal
    BY DEF TypeOK, HandTypes
  <1>1. ASSUME NEW x \in releasing, DeleteFails(x) PROVE Passes'
    BY <1>1 DEF DeleteFails
  <1>2. CASE RenewFails
    BY <1>2 DEF RenewFails, Pass, Passes, Closed, life
  <1>3. CASE Tick
    <2>1. pass.pc = "idle" /\ UNCHANGED <<pass, closing, starter>> /\ \A s \in Scope : acq'[s].left = Reclaim
      BY <1>3 DEF Tick, Unrecorded, life, Passes
    <2> QED
      BY <1>0, <2>1, PassesKept DEF Passes
  <1>4. CASE Close \/ CloseNext
    <2>1. pass.pc = "idle" /\ starter.pc = "on" /\ UNCHANGED <<pass, starter>>
      BY <1>4 DEF Close, CloseNext, Alone, Passes, Closed
    <2>2. acq' = acq \/ acq' = Woken(acq)
      BY <1>4 DEF Close, CloseNext, Closing
    <2>3. \A s \in Scope : acq'[s].left = Reclaim
      BY <2>2, WokenCases, AcqFields DEF Passes
    <2> QED
      BY <2>1, <2>3 DEF Passes
  <1>5. CASE UNCHANGED vars
    BY <1>0, <1>5, PassesKept DEF vars, life, timed, Passes, Closed
  <1>6. ASSUME NEW s \in Scope, Acquire(s) \/ Work(s) \/ GiveUp(s) \/ ProvisionFails(s) \/ LeaseFails(s)
                                \/ Finish(s) \/ Orphan(s)
        PROVE  Passes'
    BY <1>6, PassesRequest, PassesLeased DEF Work
  <1> QED
    BY <1>1, <1>2, <1>3, <1>4, <1>5, <1>6, PassesProvider, PassesRenew, PassesSweep DEF Next, ReleaseStep

-----------------------------------------------------------------------------
(* Where connections are, action by action, when calls do not overlap. *)

(* Nothing moves. *)
LEMMA PlacesUnmoved ==
  ASSUME Places, Distinct, UNCHANGED <<idle, releasing, closing, live, made>>,
         \A s \in Scope : (held'[s] = None <=> held[s] = None) /\ (held[s] # None => held'[s].conn = held[s].conn),
         \A s \in Scope : acq'[s].conn = acq[s].conn /\ (acq'[s].pc \in Carrying => acq[s].pc \in Carrying),
         starter'.conn = starter.conn, starter'.pc = "got" => starter.pc = "got"
  PROVE  Places' /\ Distinct'
  <1>1. Holders' = Holders /\ \A s \in Holders : held'[s].conn = held[s].conn
    BY DEF Holders
  <1>2. \A c : Placed(c)' <=> Placed(c)
    BY <1>1 DEF Placed
  <1>3. Places'
    BY <1>1, <1>2 DEF Places, Closed
  <1>4. Distinct'
    BY <1>1 DEF Distinct, Holders
  <1> QED
    BY <1>3, <1>4

LEMMA WokenPlaces ==
  ASSUME Sides, NEW s \in Scope
  PROVE  /\ Woken(acq)[s].conn = acq[s].conn
         /\ Woken(acq)[s].pc \in Carrying => acq[s].pc \in Carrying
  BY WokenCases, AcqFields DEF Sides, Carrying

LEMMA PlacesStart ==
  ASSUME SharedInv, Passes, Sides, Places, Distinct, Start
  PROVE  Places' /\ Distinct'
  <1>1. UNCHANGED <<held, acq, releasing, closing, live, made>> /\ starter'.conn = 0 /\ starter'.pc # "got"
    BY DEF Start, life, timed, bounds
  <1>2. CASE starter.pc = "off" /\ UNCHANGED idle
    BY <1>1, <1>2, PlacesUnmoved DEF Sides
  <1>3. CASE starter.pc = "got" /\ idle' = idle \cup {starter.conn}
    <2>1. ~Closed /\ closing.spare = {} /\ starter.conn # 0 /\ starter.conn \in Nat
      BY <1>3 DEF Passes, Places, SharedInv, HandTypes
    <2>2. Holders' = Holders
      BY <1>1 DEF Holders
    <2>3. \A c \in Nat \ {0} : Placed(c)' <=> Placed(c)
      BY <1>1, <1>3, <2>2 DEF Placed
    <2>4. Places'
      BY <1>1, <1>3, <2>1, <2>2, <2>3 DEF Places, Closed
    <2>5. Distinct'
      BY <1>1, <1>3, <2>1, <2>2 DEF Distinct, Places, SharedInv, Apart
    <2> QED
      BY <2>4, <2>5
  <1> QED
    BY <1>2, <1>3 DEF Start

(* A connection that is new to the provider is new to every place. *)
LEMMA NewIsNowhere ==
  ASSUME TypeOK, SharedInv, Places
  PROVE  /\ made + 1 \in Nat \ {0} /\ made + 1 \notin live /\ ~Placed(made + 1)
         /\ \A c \in live : c <= made + 1
  <1>1. made + 1 \in Nat \ {0} /\ made + 1 \notin live /\ \A c \in live : c <= made + 1
    BY DEF TypeOK, HandTypes, ReturnTypes, Places
  <1> QED
    BY <1>1 DEF Places

LEMMA PlacesProvisioned ==
  ASSUME TypeOK, SharedInv, Sides, Places, Distinct, StartProvisioned \/ \E s \in Scope : Provisioned(s)
  PROVE  Places' /\ Distinct'
  <1>0. acq \in [Scope -> Request] /\ made + 1 # 0
    BY DEF TypeOK, HandTypes
  <1>1. /\ made' = made + 1 /\ live' = live \cup {made + 1}
        /\ UNCHANGED <<held, idle, releasing, closing>>
    BY DEF StartProvisioned, Provisioned, NewConn, life, timed
  <1>2. Holders' = Holders
    BY <1>1 DEF Holders
  <1>3. CASE StartProvisioned
    <2>1. UNCHANGED acq /\ starter'.conn = made + 1 /\ starter.conn = 0
      BY <1>3 DEF StartProvisioned, Sides
    <2>2. \A c \in Nat \ {0} : Placed(c)' <=> Placed(c) \/ c = made + 1
      BY <1>1, <1>2, <2>1 DEF Placed
    <2>3. Places'
      BY <1>0, <1>1, <1>2, <2>1, <2>2, NewIsNowhere DEF Places, Closed
    <2>4. Distinct'
      BY <1>1, <1>2, <2>1, NewIsNowhere DEF Distinct, Placed
    <2> QED
      BY <2>3, <2>4
  <1>4. ASSUME NEW s \in Scope, Provisioned(s) PROVE Places' /\ Distinct'
    <2>1. /\ UNCHANGED starter /\ acq'[s].conn = made + 1 /\ acq[s].conn = 0
          /\ \A t \in Scope \ {s} : acq'[t] = acq[t]
      BY <1>0, <1>4, AcqFields DEF Provisioned, Sides
    <2>2. \A c \in Nat \ {0} : Placed(c)' <=> Placed(c) \/ c = made + 1
      BY <1>1, <1>2, <2>1 DEF Placed
    <2>3. Places'
      BY <1>0, <1>1, <1>2, <2>1, <2>2, NewIsNowhere DEF Places, Closed
    <2>4. Distinct'
      BY <1>1, <1>2, <2>1, NewIsNowhere DEF Distinct, Placed
    <2> QED
      BY <2>3, <2>4
  <1> QED
    BY <1>3, <1>4

(* A warm connection goes to a request. *)
LEMMA PlacesLook ==
  ASSUME TypeOK, SharedInv, Sides, Places, Distinct, NEW s \in Scope, NEW late \in BOOLEAN, Look(s, late),
         acq[s].pc \in {"none", "look", "late"}, UNCHANGED <<held, starter, releasing, closing, live, made>>
  PROVE  Places' /\ Distinct'
  <1>0. acq \in [Scope -> Request]
    BY DEF TypeOK, HandTypes
  <1>1. acq[s].conn = 0
    BY DEF Sides
  <1>2. CASE UNCHANGED idle
    <2>1. /\ acq'[s].conn = 0 /\ acq'[s].pc \notin Carrying
          /\ \A t \in Scope \ {s} : acq'[t] = acq[t]
      BY <1>0, <1>2, AcqFields DEF Look, Carrying
    <2> QED
      BY <1>1, <1>2, <2>1, PlacesUnmoved
  <1>3. ASSUME NEW c \in idle, idle' = idle \ {c}, acq'[s].conn = c,
               \A t \in Scope \ {s} : acq'[t] = acq[t]
        PROVE  Places' /\ Distinct'
    <2>1. c # 0 /\ Holders' = Holders
      BY <1>3 DEF Places, Holders
    <2>2. \A d \in Nat \ {0} : Placed(d)' <=> Placed(d)
      BY <1>1, <1>3, <2>1 DEF Placed
    <2>3. Places'
      BY <1>3, <2>1, <2>2 DEF Places, Closed
    <2>4. Distinct'
      BY <1>3, <2>1 DEF Distinct, Places
    <2> QED
      BY <2>3, <2>4
  <1> QED
    BY <1>0, <1>2, <1>3, AcqFields DEF Look

(* What the provider takes back was in one place. *)
LEMMA PlacesDropped ==
  ASSUME TypeOK, SharedInv, Sides, Places, Distinct, NEW s \in Scope, Spared(s) \/ Dropped(s)
  PROVE  Places' /\ Distinct'
  <1>0. acq \in [Scope -> Request] /\ NoAcq.conn = 0 /\ NoAcq.pc = "none"
    BY AcqFields DEF TypeOK, HandTypes, NoAcq
  <1> DEFINE c == acq[s].conn
  <1>1. c # 0 /\ live' = live \ {c} /\ UNCHANGED <<held, starter, idle, releasing, closing, made>>
    BY DEF Spared, Dropped, Places, Carrying, life, timed, bounds
  <1>2. /\ acq'[s].conn = 0 /\ acq'[s].pc \notin Carrying
        /\ \A t \in Scope \ {s} : acq'[t].conn = acq[t].conn /\ (acq'[t].pc \in Carrying => acq[t].pc \in Carrying)
    <2>1. CASE Spared(s)
      BY <1>0, <2>1, AcqFields DEF Spared, Carrying
    <2>2. CASE Dropped(s)
      <3> DEFINE r == [acq EXCEPT ![s] = NoAcq]
      <3>1. acq' = Woken(r)
        BY <2>2 DEF Dropped
      <3>2. r[s] = NoAcq /\ \A t \in Scope \ {s} : r[t] = acq[t]
        BY <1>0
      <3> HIDE DEF r
      <3> QED
        BY <1>0, <3>1, <3>2, WokenCases, AcqFields DEF Carrying, Sides
    <2> QED
      BY <2>1, <2>2
  <1>3. Holders' = Holders
    BY <1>1 DEF Holders
  <1>4. /\ c \notin idle /\ c # starter.conn /\ \A t \in Scope \ {s} : c # acq[t].conn
        /\ c \notin closing.spare /\ (\A t \in Holders : c # held[t].conn) /\ \A x \in releasing : c # x.conn
    BY <1>1 DEF SharedInv, Apart, Distinct
  <1>5. \A d \in Nat \ {0} : Placed(d)' <=> Placed(d) /\ d # c
    BY <1>1, <1>2, <1>3, <1>4 DEF Placed
  <1>6. Places'
    BY <1>1, <1>2, <1>3, <1>5 DEF Places, Closed
  <1>7. Distinct'
    <2>1. \A t \in Scope : acq'[t].conn = acq[t].conn \/ acq'[t].conn = 0
      BY <1>2
    <2> QED
      BY <1>1, <1>3, <2>1 DEF Distinct, Places
  <1> QED
    BY <1>6, <1>7

LEMMA PlacesLeased ==
  ASSUME TypeOK, SharedInv, Sides, Places, Distinct, NEW s \in Scope, Leased(s)
  PROVE  Places' /\ Distinct'
  <1>0. /\ acq \in [Scope -> Request] /\ held \in [Scope -> Lease \cup {None}] /\ held[s] = None
        /\ NoAcq.conn = 0 /\ NoAcq.pc = "none"
    BY AcqFields DEF TypeOK, HandTypes, NoAcq, Sides, Leased
  <1> DEFINE c == acq[s].conn
  <1>1. /\ c # 0 /\ UNCHANGED <<idle, starter, releasing, closing, live, made>>
    BY DEF Leased, life, bounds, Places, Carrying
  <1>2. /\ held'[s] \in Lease /\ held'[s].conn = c /\ acq'[s] = NoAcq
        /\ \A t \in Scope \ {s} : held'[t] = held[t] /\ acq'[t] = acq[t]
    BY <1>0 DEF Leased, Lease, Request
  <1>3. /\ s \in Holders' /\ s \notin Holders /\ \A t \in Scope \ {s} : t \in Holders' <=> t \in Holders
    BY <1>0, <1>2, NoneIsNone DEF Holders
  <1>4. /\ c \notin idle /\ c # starter.conn /\ \A t \in Scope \ {s} : c # acq[t].conn
        /\ c \notin closing.spare /\ (\A t \in Holders : c # held[t].conn) /\ \A x \in releasing : c # x.conn
    BY <1>1 DEF SharedInv, Apart, Distinct
  <1>5. Holders \subseteq Scope /\ Holders' \subseteq Scope
    BY DEF Holders
  <1>6. \A d \in Nat \ {0} : Placed(d)' <=> Placed(d)
    BY <1>0, <1>1, <1>2, <1>3, <1>5 DEF Placed
  <1>7. Places'
    BY <1>0, <1>1, <1>2, <1>3, <1>5, <1>6 DEF Places, Closed, Carrying
  <1>8. Distinct'
    <2>1. \A t \in Scope : acq'[t].conn # c
      BY <1>0, <1>1, <1>2, <1>4
    <2>2. \A t \in Scope : acq'[t].conn = acq[t].conn \/ acq'[t].conn = 0
      BY <1>0, <1>2
    <2>3. \A t \in Holders' : t = s \/ (t \in Holders /\ held'[t] = held[t])
      BY <1>2, <1>3, <1>5
    <2> QED
      BY <1>1, <1>2, <1>4, <1>5, <2>1, <2>2, <2>3 DEF Distinct, Places
  <1> QED
    BY <1>7, <1>8

(* A lease's connection goes on its way back. *)
LEMMA PlacesReleased ==
  ASSUME TypeOK, SharedInv, Places, Distinct, NEW s \in Scope, NEW by, StartRelease(s, by),
         UNCHANGED <<acq, starter, live, made>>,
         idle' \cup closing'.spare = idle \cup closing.spare,
         Closed' => idle' = {}, ~Closed' => closing'.spare = {}
  PROVE  Places' /\ Distinct'
  <1>0. held \in [Scope -> Lease \cup {None}]
    BY DEF TypeOK, HandTypes
  <1> DEFINE c == held[s].conn
             x == [conn |-> c, pc |-> "delete", by |-> by]
  <1>1. /\ s \in Holders /\ held'[s] = None /\ \A t \in Scope \ {s} : held'[t] = held[t]
        /\ releasing' = releasing \cup {x} /\ x.conn = c
    BY <1>0 DEF StartRelease, Holders
  <1> HIDE DEF x
  <1>2. Holders' = Holders \ {s} /\ \A t \in Holders' : held'[t] = held[t]
    BY <1>1 DEF Holders
  <1>3. \A d : Placed(d)' <=> Placed(d)
    BY <1>1, <1>2 DEF Placed
  <1>4. c # 0
    BY <1>1 DEF Places
  <1>5. Places'
    BY <1>1, <1>2, <1>3, <1>4 DEF Places
  <1>6. Distinct'
    <2>1. \A d \in closing'.spare : d # starter.conn /\ \A t \in Scope : d # acq[t].conn
      BY DEF Distinct, SharedInv, Apart, Places
    <2> QED
      BY <1>1, <1>2, <2>1 DEF Distinct
  <1> QED
    BY <1>5, <1>6

LEMMA PlacesReturned ==
  ASSUME TypeOK, Sides, Places, Distinct, NEW x \in releasing, Deleted(x) \/ Released(x)
  PROVE  Places' /\ Distinct'
  <1>1. UNCHANGED <<held, starter, idle, closing, made>> /\ Holders' = Holders
    BY DEF Deleted, Released, life, timed, bounds, Holders
  <1>2. CASE Deleted(x)
    <2> DEFINE y == [x EXCEPT !.pc = "provider"]
    <2>1. releasing' = (releasing \ {x}) \cup {y} /\ y.conn = x.conn /\ UNCHANGED live /\ acq' = Woken(acq)
      BY <1>2 DEF Deleted, TypeOK, ReturnTypes, Release
    <2> HIDE DEF y
    <2>2. \A s \in Scope : acq'[s].conn = acq[s].conn /\ (acq'[s].pc \in Carrying => acq[s].pc \in Carrying)
      BY <2>1, WokenPlaces
    <2>3. \A d : Placed(d)' <=> Placed(d)
      BY <1>1, <2>1, <2>2 DEF Placed
    <2>4. Places'
      BY <1>1, <2>1, <2>2, <2>3 DEF Places, Closed
    <2>5. Distinct'
      BY <1>1, <2>1, <2>2 DEF Distinct
    <2> QED
      BY <2>4, <2>5
  <1>3. CASE Released(x)
    <2>1. releasing' = releasing \ {x} /\ live' = live \ {x.conn} /\ UNCHANGED acq
      BY <1>3 DEF Released
    <2>2. \A d \in Nat \ {0} : Placed(d)' <=> Placed(d) /\ d # x.conn
      BY <1>1, <2>1 DEF Placed, Distinct
    <2>3. Places'
      BY <1>1, <2>1, <2>2 DEF Places, Closed
    <2>4. Distinct'
      BY <1>1, <2>1 DEF Distinct
    <2> QED
      BY <2>3, <2>4
  <1> QED
    BY <1>2, <1>3

(* A close takes the leases and the warm connections there are, one by one. *)
LEMMA PlacesClosed ==
  ASSUME TypeOK, SharedInv, Sides, Places, Distinct, Close \/ CloseNext
  PROVE  Places' /\ Distinct'
  <1>1. UNCHANGED <<starter, live, made>> /\ idle' = {}
    BY DEF Close, CloseNext, bounds, Places, Closed
  <1>2. PICK todo \in SUBSET Scope : Closing(todo, idle \cup closing.spare)
    <2>1. CASE Close
      BY <2>1 DEF Close, Holders, Places
    <2>2. CASE CloseNext
      BY <2>2 DEF CloseNext, Places, Closed, TypeOK, ReturnTypes
    <2> QED
      BY <2>1, <2>2
  <1> DEFINE spare == idle \cup closing.spare
  <1>3. Closed'
    BY <1>2 DEF Closing, Closed, ToRelease
  <1>4. ASSUME NEW s \in todo, StartRelease(s, "close"), closing'.spare = spare, UNCHANGED acq
        PROVE  Places' /\ Distinct'
    BY <1>1, <1>3, <1>4, PlacesReleased
  <1>5. ASSUME NEW c \in spare, closing'.spare = spare \ {c}, UNCHANGED <<held, acq>>,
               releasing' = releasing \cup {[conn |-> c, pc |-> "provider", by |-> "close"]}
        PROVE  Places' /\ Distinct'
    <2> DEFINE x == [conn |-> c, pc |-> "provider", by |-> "close"]
    <2>1. releasing' = releasing \cup {x} /\ x.conn = c
      BY <1>5
    <2> HIDE DEF x
    <2>2. Holders' = Holders /\ c # 0
      BY <1>5 DEF Holders, Places
    <2>3. \A d : Placed(d)' <=> Placed(d)
      BY <1>1, <1>5, <2>1, <2>2 DEF Placed
    <2>4. Places'
      BY <1>1, <1>3, <1>5, <2>1, <2>2, <2>3 DEF Places
    <2>5. \A d \in spare :
            /\ d # starter.conn /\ (\A t \in Scope : d # acq[t].conn)
            /\ (\A t \in Holders : d # held[t].conn) /\ \A y \in releasing : d # y.conn
      BY DEF Distinct, SharedInv, Apart, Places
    <2>6. Distinct'
      BY <1>1, <1>5, <2>1, <2>2, <2>5 DEF Distinct
    <2> QED
      BY <2>4, <2>6
  <1>6. ASSUME spare = {}, closing'.spare = {}, UNCHANGED <<held, releasing>>, acq' = Woken(acq)
        PROVE  Places' /\ Distinct'
    <2>1. Holders' = Holders
      BY <1>6 DEF Holders
    <2>2. \A s \in Scope : acq'[s].conn = acq[s].conn /\ (acq'[s].pc \in Carrying => acq[s].pc \in Carrying)
      BY <1>6, WokenPlaces
    <2>3. \A c : Placed(c)' <=> Placed(c)
      BY <1>1, <1>6, <2>1, <2>2 DEF Placed
    <2>4. Places'
      BY <1>1, <1>3, <1>6, <2>1, <2>2, <2>3 DEF Places
    <2>5. Distinct'
      BY <1>1, <1>6, <2>1, <2>2 DEF Distinct
    <2> QED
      BY <2>4, <2>5
  <1> HIDE DEF spare
  <1>7. Closing(todo, spare)
    BY <1>2 DEF spare
  <1> QED
    BY <1>4, <1>5, <1>6, <1>7 DEF Closing, ToRelease

LEMMA PlacesTimer ==
  ASSUME TypeOK, calm, Passes, Sides, Places, Distinct, Renew \/ Tick
  PROVE  Places' /\ Distinct'
  <1>0. /\ acq \in [Scope -> Request] /\ held \in [Scope -> Lease \cup {None}]
    BY DEF TypeOK, HandTypes
  <1>1. UNCHANGED <<idle, releasing, closing, live, made, starter>>
    BY DEF Renew, Tick, life, bounds
  <1>2. \A s \in Scope : acq'[s].pc = acq[s].pc /\ acq'[s].conn = acq[s].conn
    BY <1>0 DEF Renew, Tick, Request
  <1>3. \A s \in Scope : (held'[s] = None <=> held[s] = None) /\ (held[s] # None => held'[s].conn = held[s].conn)
    BY LeasesStay
  <1> QED
    BY <1>1, <1>2, <1>3, PlacesUnmoved

LEMMA PlacesStep ==
  ASSUME TypeOK, SharedInv, calm, Passes, Sides, Places, Distinct, [Next]_vars
  PROVE  Places' /\ Distinct'
  <1>0. acq \in [Scope -> Request] /\ held \in [Scope -> Lease \cup {None}] /\ user \in [Scope -> Nat \cup {None}]
    BY DEF TypeOK, HandTypes, ReturnTypes
  <1>1. ASSUME NEW x \in releasing, DeleteFails(x) PROVE Places' /\ Distinct'
    BY <1>1 DEF DeleteFails
  <1>2. CASE StartFails
    <2>1. UNCHANGED <<held, idle, releasing, closing, live, made>> /\ acq' = Woken(acq)
          /\ starter'.conn = starter.conn /\ starter'.pc # "got"
      BY <1>2 DEF StartFails, life, timed, Sides
    <2> QED
      BY <2>1, WokenPlaces, PlacesUnmoved
  <1>3. ASSUME NEW s \in Scope, Acquire(s) PROVE Places' /\ Distinct'
    <2>1. UNCHANGED <<held, starter, releasing, closing, live, made>> /\ acq[s].pc = "none"
      BY <1>3 DEF Acquire, life, timed
    <2>2. CASE TakeBack(s)
      BY <2>1, <2>2, PlacesUnmoved DEF TakeBack
    <2>3. CASE Look(s, FALSE)
      BY <2>1, <2>3, PlacesLook
    <2> QED
      BY <1>3, <2>2, <2>3 DEF Acquire
  <1>4. ASSUME NEW s \in Scope, LookAgain(s) PROVE Places' /\ Distinct'
    <2>1. /\ UNCHANGED <<held, starter, releasing, closing, live, made>> /\ acq[s].pc \in {"look", "late"}
          /\ Look(s, acq[s].pc = "late")
      BY <1>4 DEF LookAgain, life, timed, bounds
    <2> QED
      BY <2>1, PlacesLook
  <1>5. ASSUME NEW s \in Scope, GiveUp(s) \/ Counted(s) \/ LeaseFails(s) PROVE Places' /\ Distinct'
    <2>1. UNCHANGED <<held, idle, starter, releasing, closing, live, made>>
      BY <1>5 DEF GiveUp, Counted, LeaseFails, life, timed, bounds
    <2>2. \A t \in Scope : acq'[t].conn = acq[t].conn /\ (acq'[t].pc \in Carrying => acq[t].pc \in Carrying)
      BY <1>0, <1>5, AcqFields DEF GiveUp, Counted, LeaseFails, Request, Carrying, Sides
    <2> QED
      BY <2>1, <2>2, PlacesUnmoved
  <1>6. ASSUME NEW s \in Scope, ProvisionFails(s) PROVE Places' /\ Distinct'
    <2> DEFINE r == [acq EXCEPT ![s] = NoAcq]
    <2>1. UNCHANGED <<held, idle, starter, releasing, closing, live, made>> /\ acq' = Woken(r)
          /\ acq[s].conn = 0
      BY <1>6 DEF ProvisionFails, life, timed, Sides
    <2>2. r[s].conn = 0 /\ r[s].pc = "none" /\ \A t \in Scope \ {s} : r[t] = acq[t]
      BY <1>0, AcqFields DEF NoAcq
    <2> HIDE DEF r
    <2>3. \A t \in Scope : acq'[t].conn = acq[t].conn /\ (acq'[t].pc \in Carrying => acq[t].pc \in Carrying)
      BY <2>1, <2>2, WokenCases, AcqFields DEF Carrying, Sides
    <2> QED
      BY <2>1, <2>3, PlacesUnmoved
  <1>7. ASSUME NEW s \in Scope, Finish(s) \/ Orphan(s) PROVE Places' /\ Distinct'
    <2>1. /\ UNCHANGED <<acq, idle, starter, closing, live, made>>
          /\ (\E by : StartRelease(s, by)) \/ UNCHANGED <<held, releasing>>
      BY <1>7 DEF Finish, Orphan, life, timed, bounds
    <2>2. CASE \E by : StartRelease(s, by)
      BY <2>1, <2>2, PlacesReleased DEF Places, Closed
    <2>3. CASE UNCHANGED <<held, releasing>>
      BY <2>1, <2>3, PlacesUnmoved
    <2> QED
      BY <2>1, <2>2, <2>3
  <1>8. CASE Sweep
    <2>1. UNCHANGED <<acq, idle, starter, closing, live, made>>
      BY <1>8 DEF Sweep, life, bounds
    <2>2. (\E s \in Scope : \E by : StartRelease(s, by)) \/ UNCHANGED <<held, releasing>>
      <3>1. PICK todo \in SUBSET Renewal : Sweeping(todo)
        BY <1>0, <1>8 DEF Sweep, Expired, Snapshot, Holders, Lease, Renewal, TypeOK, HandTypes
      <3> QED
        BY <3>1 DEF Sweeping, Renewal
    <2>3. CASE \E s \in Scope : \E by : StartRelease(s, by)
      BY <2>1, <2>3, PlacesReleased DEF Places, Closed
    <2>4. CASE UNCHANGED <<held, releasing>>
      BY <2>1, <2>4, PlacesUnmoved
    <2> QED
      BY <2>2, <2>3, <2>4
  <1>9. CASE RenewFails \/ UNCHANGED vars
    BY <1>9, PlacesUnmoved DEF RenewFails, vars, life, timed, bounds
  <1> QED
    BY <1>1, <1>2, <1>3, <1>4, <1>5, <1>6, <1>7, <1>8, <1>9, PlacesStart, PlacesProvisioned, PlacesDropped,
       PlacesLeased, PlacesReturned, PlacesClosed, PlacesTimer DEF Next, Work, ReleaseStep

-----------------------------------------------------------------------------
LEMMA CalmInit == Init => CalmInv
  <1> SUFFICES ASSUME Init PROVE CalmInv
    OBVIOUS
  <1>1. Holders = {} /\ ~Closed /\ closing.spare = {} /\ releasing = {}
    BY DEF Init, Holders, Closed, ToRelease
  <1>2. \A s \in Scope : acq[s].pc = "none" /\ acq[s].conn = 0 /\ acq[s].left = Reclaim
    BY AcqFields DEF Init, NoAcq
  <1>3. Passes
    BY <1>1, <1>2 DEF Init, Passes, Pass
  <1>4. Sides
    BY <1>1, <1>2 DEF Init, Sides
  <1>5. \A c \in Nat \ {0} : ~Placed(c)
    BY <1>1, <1>2 DEF Init, Placed
  <1>6. Places
    BY <1>1, <1>2, <1>5 DEF Init, Places, Carrying
  <1>7. Distinct
    BY <1>1 DEF Init, Distinct
  <1> QED
    BY <1>3, <1>4, <1>6, <1>7 DEF CalmInv

PoolInv == TypeOK /\ SharedInv /\ CalmInv

LEMMA PoolInit == Init => PoolInv
  BY SharedInit, ReturnTypesInit, CalmInit DEF PoolInv, SharedInv, TypeOK

LEMMA CalmStays == [Next]_vars => calm' = calm
  BY DEF Next, Work, ReleaseStep, Start, StartProvisioned, StartFails, Acquire, LookAgain, Spared,
     Provisioned, Counted, Leased, Dropped, GiveUp, ProvisionFails, LeaseFails, Finish, Orphan,
     Deleted, Released, DeleteFails, Renew, RenewFails, Sweep, Tick, Close, CloseNext, vars, life

LEMMA PoolStep == PoolInv /\ [Next]_vars => PoolInv'
  <1> SUFFICES ASSUME PoolInv, [Next]_vars PROVE PoolInv'
    OBVIOUS
  <1>1. TypeOK' /\ SharedInv'
    BY TypeStep, ReturnTypesStep, SharedStep DEF PoolInv, TypeOK
  <1>2. calm' = calm
    BY CalmStays
  <1>3. calm => Passes' /\ Sides' /\ Places' /\ Distinct'
    BY PassesStep, SidesStep, PlacesStep DEF PoolInv, CalmInv
  <1> QED
    BY <1>1, <1>2, <1>3 DEF PoolInv, CalmInv

(* Every connection the provider has out is leased, warm, in the hands of a
   request or on its way back, for any number of runs, cap, lease time and
   number of failing calls (pool.ts:167-178, 238-257, 259-310). *)
THEOREM NoConnectionLeaks == Safety => []NothingLeaks
  <1>1. PoolInv => NothingLeaks
    <2> SUFFICES ASSUME PoolInv, calm PROVE NothingLeaks
      BY DEF NothingLeaks
    <2>1. Places /\ live \subseteq Nat
      BY DEF PoolInv, CalmInv, TypeOK, ReturnTypes
    <2> DEFINE everywhere == {held[s].conn : s \in Holders} \cup idle
                   \cup ({acq[s].conn : s \in Scope} \ {0}) \cup ({starter.conn} \ {0})
                   \cup {x.conn : x \in releasing} \cup closing.spare
    <2>2. everywhere \subseteq Nat \ {0}
      <3>1. \A s \in Holders : held[s].conn \in Nat \ {0}
        BY <2>1 DEF Places, PoolInv, TypeOK, HandTypes, Holders, Lease
      <3>2. \A s \in Scope : acq[s].conn \in Nat
        BY DEF PoolInv, TypeOK, HandTypes, Request
      <3>3. \A x \in releasing : x.conn \in Nat \ {0}
        BY <2>1 DEF Places, PoolInv, TypeOK, ReturnTypes, Release
      <3>4. starter.conn \in Nat /\ idle \cup closing.spare \subseteq Nat \ {0}
        BY <2>1 DEF Places, PoolInv, TypeOK, HandTypes, ReturnTypes
      <3> QED
        BY <3>1, <3>2, <3>3, <3>4
    <2>3. \A c \in Nat \ {0} : c \in everywhere <=> Placed(c)
      BY DEF Placed
    <2>4. live = everywhere
      BY <2>1, <2>2, <2>3 DEF Places
    <2> QED
      BY <2>1, <2>4 DEF NothingLeaks, Places
  <1> QED
    BY <1>1, PoolInit, PoolStep, PTL DEF Safety

(* A run works with the connection it leases, and the provider has it out, as
   long as the run goes on and the pool is open
   (pool.ts:149-154, 180-201, 402-424). *)
THEOREM HoldersKeepConnections == Safety => []HolderKeepsConnection
  <1>1. PoolInv => HolderKeepsConnection
    <2> SUFFICES ASSUME PoolInv, calm, ~Closed, NEW s \in Scope, user[s] # None
                 PROVE  user[s] \in live /\ held[s] # None /\ held[s].conn = user[s]
      BY DEF HolderKeepsConnection
    <2>1. s \in Holders /\ held[s].conn = user[s] /\ held[s].conn # 0 /\ held[s].conn \in Nat
      BY DEF PoolInv, CalmInv, Sides, Places, TypeOK, HandTypes, Holders, Lease
    <2>2. Placed(user[s])
      BY <2>1 DEF Placed
    <2> QED
      BY <2>1, <2>2 DEF PoolInv, CalmInv, Places, Holders
  <1> QED
    BY <1>1, PoolInit, PoolStep, PTL DEF Safety

-----------------------------------------------------------------------------
(* The cap, when calls do not overlap.  Taken are the scopes that lease a
   connection or are about to: a scope never does both. *)

Got == {s \in Scope : acq[s].pc = "got"}
Taken == Holders \cup Unrecorded \cup Provisioning \cup Got
Starting == StarterIn("provision") + StarterIn("got")

Cap ==
  /\ IsFiniteSet(idle)
  /\ Cardinality(Taken) + Cardinality(idle) + Starting <= Max
  /\ starter.pc # "on" => Holders = {} /\ \A s \in Scope : acq[s].pc = "none"

LEMMA TakenFinite ==
  /\ IsFiniteSet(Taken) /\ Cardinality(Taken) \in Nat
  /\ Taken \subseteq Scope
  <1>1. Taken \subseteq Scope
    BY DEF Taken, Holders, Unrecorded, Provisioning, Got
  <1> QED
    BY <1>1, PoolAssumption, FS_Subset, FS_CardinalityType

LEMMA TakenIs ==
  ASSUME NEW s \in Scope
  PROVE  s \in Taken <=> held[s] # None \/ acq[s].pc \in {"provision", "got", "lease"}
  BY DEF Taken, Holders, Unrecorded, Provisioning, Got

LEMMA StartingIs ==
  Starting = IF starter.pc \in {"provision", "got"} THEN 1 ELSE 0
  BY DEF Starting, StarterIn

(* Two sets apart count as the sum of their sizes. *)
LEMMA DisjointSum ==
  ASSUME NEW S, NEW T, IsFiniteSet(S), IsFiniteSet(T), S \cap T = {}
  PROVE  /\ IsFiniteSet(S \cup T)
         /\ Cardinality(S \cup T) = Cardinality(S) + Cardinality(T)
  <1>1. Cardinality(S) \in Nat /\ Cardinality(T) \in Nat
    BY FS_CardinalityType
  <1>2. Cardinality(S \cap T) = 0
    BY FS_EmptySet
  <1>3. IsFiniteSet(S \cup T)
        /\ Cardinality(S \cup T) = Cardinality(S) + Cardinality(T) - Cardinality(S \cap T)
    BY FS_Union
  <1> QED
    BY <1>1, <1>2, <1>3

(* Every kind of connection counts once. *)
LEMMA TakenSum ==
  ASSUME Sides
  PROVE  Cardinality(Taken)
           = Cardinality(Holders) + Cardinality(Unrecorded) + Cardinality(Provisioning) + Cardinality(Got)
  <1>1. /\ IsFiniteSet(Holders) /\ IsFiniteSet(Unrecorded) /\ IsFiniteSet(Provisioning) /\ IsFiniteSet(Got)
    BY PoolAssumption, FS_Subset DEF Holders, Unrecorded, Provisioning, Got
  <1>2. /\ Holders \cap Unrecorded = {} /\ (Holders \cup Unrecorded) \cap Provisioning = {}
        /\ (Holders \cup Unrecorded \cup Provisioning) \cap Got = {}
    BY DEF Sides, Holders, Unrecorded, Provisioning, Got
  <1>3. /\ IsFiniteSet(Holders \cup Unrecorded)
        /\ Cardinality(Holders \cup Unrecorded) = Cardinality(Holders) + Cardinality(Unrecorded)
    BY <1>1, <1>2, DisjointSum
  <1>4. /\ IsFiniteSet(Holders \cup Unrecorded \cup Provisioning)
        /\ Cardinality(Holders \cup Unrecorded \cup Provisioning)
             = Cardinality(Holders \cup Unrecorded) + Cardinality(Provisioning)
    BY <1>1, <1>2, <1>3, DisjointSum
  <1>5. Cardinality(Holders \cup Unrecorded \cup Provisioning \cup Got)
          = Cardinality(Holders \cup Unrecorded \cup Provisioning) + Cardinality(Got)
    BY <1>1, <1>2, <1>4, DisjointSum
  <1>6. Taken = Holders \cup Unrecorded \cup Provisioning \cup Got
    BY DEF Taken
  <1> QED
    BY <1>3, <1>4, <1>5, <1>6

LEMMA CapKept ==
  ASSUME Cap, Taken' \subseteq Taken, idle' \subseteq idle,
         starter'.pc \in {"provision", "got"} => starter.pc \in {"provision", "got"},
         starter'.pc # "on" => starter.pc # "on" /\ Holders' \subseteq Holders
                                /\ \A s \in Scope : acq[s].pc = "none" => acq'[s].pc = "none"
  PROVE  Cap'
  <1>1. /\ Cardinality(Taken') <= Cardinality(Taken) /\ Cardinality(Taken) \in Nat /\ Cardinality(Taken') \in Nat
    BY TakenFinite, FS_Subset, FS_CardinalityType
  <1>2. /\ IsFiniteSet(idle') /\ Cardinality(idle') <= Cardinality(idle)
        /\ Cardinality(idle) \in Nat /\ Cardinality(idle') \in Nat
    BY FS_Subset, FS_CardinalityType DEF Cap
  <1>3. Starting' <= Starting /\ Starting \in Nat /\ Starting' \in Nat
    BY StartingIs DEF Starting, StarterIn
  <1>4. Cardinality(Taken') + Cardinality(idle') + Starting' <= Max
    BY <1>1, <1>2, <1>3, PoolAssumption DEF Cap
  <1>5. starter'.pc # "on" => Holders' = {} /\ \A s \in Scope : acq'[s].pc = "none"
    BY DEF Cap
  <1> QED
    BY <1>2, <1>4, <1>5 DEF Cap

LEMMA CapStart ==
  ASSUME TypeOK, SharedInv, Sides, Places, Cap, Start
  PROVE  Cap'
  <1>1. UNCHANGED <<held, acq>> /\ Taken' = Taken /\ Holders' = Holders
    BY DEF Start, timed, Taken, Holders, Unrecorded, Provisioning, Got
  <1>2. Holders = {} /\ (\A s \in Scope : acq[s].pc = "none") /\ Taken = {} /\ Provisioning = {}
    BY DEF Start, Cap, Taken, Holders, Unrecorded, Provisioning, Got
  <1>3. Cardinality(Taken) = 0 /\ Cardinality(Provisioning) = 0
    BY <1>2, FS_EmptySet
  <1>4. IsFiniteSet(idle') /\ Cardinality(idle') \in Nat /\ Cardinality(idle') <= Max
    <2>1. CASE starter.pc = "off" /\ UNCHANGED idle
      BY <1>3, <2>1, StartingIs, FS_CardinalityType, PoolAssumption DEF Cap
    <2>2. CASE starter.pc = "got" /\ idle' = idle \cup {starter.conn}
      <3>1. Starting = 1
        BY <2>2, StartingIs
      <3>2. IsFiniteSet(idle) /\ Cardinality(idle) \in Nat /\ Cardinality(idle) + 1 <= Max
        BY <1>3, <3>1, FS_CardinalityType, PoolAssumption DEF Cap
      <3>3. IsFiniteSet(idle') /\ Cardinality(idle') <= Cardinality(idle) + 1
        BY <2>2, <3>2, FS_AddElement
      <3> QED
        BY <3>2, <3>3, FS_CardinalityType, PoolAssumption
    <2> QED
      BY <2>1, <2>2 DEF Start
  <1>5. starter'.pc \in {"provision", "on"} /\ (starter'.pc = "provision" => Cardinality(idle') < Warm)
    BY <1>3, <1>4 DEF Start
  <1>6. Starting' = IF starter'.pc = "provision" THEN 1 ELSE 0
    BY <1>5 DEF Starting, StarterIn
  <1>7. Cardinality(Taken') + Cardinality(idle') + Starting' <= Max
    BY <1>1, <1>3, <1>4, <1>5, <1>6, PoolAssumption
  <1> QED
    BY <1>1, <1>2, <1>4, <1>7 DEF Cap

(* A request takes a warm connection, or one more while there is room. *)
LEMMA CapLook ==
  ASSUME TypeOK, calm, Sides, Cap, Alone, NEW s \in Scope, NEW late \in BOOLEAN, Look(s, late),
         acq[s].pc \in {"none", "look", "late"}, held[s] = None, UNCHANGED <<held, starter>>
  PROVE  Cap'
  <1>0. acq \in [Scope -> Request] /\ starter.pc = "on"
    BY DEF TypeOK, HandTypes, Alone
  <1>1. /\ Cardinality(Taken) \in Nat /\ IsFiniteSet(Taken) /\ Cardinality(idle) \in Nat /\ IsFiniteSet(idle)
        /\ s \notin Taken
    BY TakenFinite, TakenIs, FS_CardinalityType DEF Cap
  <1>2. Starting = 0 /\ Starting' = 0
    BY <1>0, StartingIs DEF Starting, StarterIn
  <1>3. CASE acq'[s].pc \notin {"provision", "lease", "got"} /\ (\A t \in Scope \ {s} : acq'[t] = acq[t])
             /\ idle' \subseteq idle
    <2>1. Taken' \subseteq Taken
      BY <1>3 DEF Taken, Holders, Unrecorded, Provisioning, Got
    <2> QED
      BY <1>0, <1>3, <2>1, CapKept
  <1>4. ASSUME acq'[s].pc \in {"provision", "lease"}, \A t \in Scope \ {s} : acq'[t] = acq[t]
        PROVE  Taken' = Taken \cup {s} /\ Cardinality(Taken') = Cardinality(Taken) + 1
    <2>1. Taken' = Taken \cup {s}
      BY <1>4 DEF Taken, Holders, Unrecorded, Provisioning, Got
    <2> QED
      BY <1>1, <2>1, FS_AddElement
  <1>5. ASSUME NEW c \in idle, idle' = idle \ {c}, acq'[s].pc = "lease", \A t \in Scope \ {s} : acq'[t] = acq[t]
        PROVE  Cap'
    <2>1. IsFiniteSet(idle') /\ Cardinality(idle') = Cardinality(idle) - 1
      BY <1>1, <1>5, FS_RemoveElement
    <2>2. Cardinality(Taken') + Cardinality(idle') + Starting' <= Max
      BY <1>1, <1>2, <1>4, <1>5, <2>1, PoolAssumption DEF Cap
    <2> QED
      BY <1>0, <2>1, <2>2 DEF Cap
  <1>6. ASSUME InUse < Max, UNCHANGED idle, acq'[s].pc = "provision", \A t \in Scope \ {s} : acq'[t] = acq[t]
        PROVE  Cap'
    <2>1. Cardinality(Got) = 0 /\ StarterIn("provision") = 0
      BY <1>0, FS_EmptySet DEF Alone, Got, StarterIn
    <2>2. \A S \in SUBSET Scope : Cardinality(S) \in Nat
      BY PoolAssumption, FS_Subset, FS_CardinalityType
    <2>3. /\ Cardinality(Holders) \in Nat /\ Cardinality(Unrecorded) \in Nat /\ Cardinality(Provisioning) \in Nat
      BY <2>2 DEF Holders, Unrecorded, Provisioning
    <2>4. Cardinality(Taken) + Cardinality(idle) < Max
      BY <1>1, <1>6, <2>1, <2>3, TakenSum DEF InUse
    <2>5. Cardinality(Taken') + Cardinality(idle') + Starting' <= Max
      BY <1>1, <1>2, <1>4, <1>6, <2>4, PoolAssumption
    <2> QED
      BY <1>0, <1>6, <2>5 DEF Cap
  <1> QED
    BY <1>0, <1>3, <1>5, <1>6, AcqFields DEF Look

LEMMA CapStep ==
  ASSUME TypeOK, SharedInv, calm, Passes, Sides, Places, Cap, [Next]_vars
  PROVE  Cap'
  <1>0. acq \in [Scope -> Request] /\ held \in [Scope -> Lease \cup {None}]
        /\ NoAcq.pc = "none"
    BY AcqFields DEF TypeOK, HandTypes, NoAcq
  <1> DEFINE Few == \A s \in Scope :
               /\ held'[s] # None => held[s] # None \/ (acq[s].pc = "lease" /\ acq'[s].pc = "none")
               /\ acq'[s].pc \in {"provision", "got", "lease"} => acq[s].pc \in {"provision", "got", "lease"}
               /\ acq[s].pc = "none" => acq'[s].pc = "none"
  <1>1. ASSUME Few, idle' \subseteq idle,
               starter'.pc \in {"provision", "got"} => starter.pc \in {"provision", "got"},
               starter'.pc # "on" => starter.pc # "on"
        PROVE  Cap'
    <2>1. Taken' \subseteq Taken
      BY <1>1, TakenIs DEF Taken, Holders, Unrecorded, Provisioning, Got
    <2>2. starter'.pc # "on" => Holders' \subseteq Holders
      BY <1>1 DEF Cap, Holders
    <2> QED
      BY <1>1, <2>1, <2>2, CapKept
  <1>2. CASE StartProvisioned \/ StartFails \/ ReleaseStep \/ RenewFails \/ UNCHANGED vars
    <2>1. UNCHANGED held /\ idle' = idle
      BY <1>2 DEF StartProvisioned, StartFails, ReleaseStep, Deleted, Released, RenewFails, vars, timed
    <2>2. acq' = acq \/ acq' = Woken(acq)
      BY <1>2 DEF StartProvisioned, StartFails, ReleaseStep, Deleted, Released, RenewFails, vars
    <2>3. /\ starter'.pc \in {"provision", "got"} => starter.pc \in {"provision", "got"}
          /\ starter'.pc # "on" => starter.pc # "on"
      BY <1>2 DEF StartProvisioned, StartFails, ReleaseStep, Deleted, Released, RenewFails, vars
    <2>4. Few
      BY <2>1, <2>2, WokenCases, AcqFields
    <2> HIDE DEF Few
    <2> QED
      BY <1>1, <2>1, <2>3, <2>4
  <1>3. ASSUME NEW s \in Scope, Acquire(s) PROVE Cap'
    <2>1. UNCHANGED <<held, starter>> /\ acq[s].pc = "none" /\ Alone
      BY <1>3 DEF Acquire, timed
    <2>2. CASE TakeBack(s)
      <3>1. UNCHANGED <<acq, idle>>
        BY <2>2 DEF TakeBack
      <3> QED
        BY <1>1, <2>1, <3>1
    <2>3. CASE held[s] = None /\ Look(s, FALSE)
      BY <2>1, <2>3, CapLook
    <2> QED
      BY <1>3, <2>2, <2>3 DEF Acquire
  <1>4. ASSUME NEW s \in Scope, LookAgain(s) PROVE Cap'
    <2>1. UNCHANGED <<held, starter>> /\ acq[s].pc \in {"look", "late"} /\ Alone /\ Look(s, acq[s].pc = "late")
      BY <1>4 DEF LookAgain, timed
    <2>2. held[s] = None
      BY <2>1 DEF Sides
    <2> QED
      BY <2>1, <2>2, CapLook
  <1>5. ASSUME NEW s \in Scope,
               Spared(s) \/ Provisioned(s) \/ Counted(s) \/ GiveUp(s) \/ LeaseFails(s)
        PROVE  Cap'
    <2>1. UNCHANGED <<held, idle, starter>>
      BY <1>5 DEF Spared, Provisioned, Counted, GiveUp, LeaseFails, timed
    <2>2. Few
      BY <1>0, <1>5, <2>1, AcqFields DEF Spared, Provisioned, Counted, GiveUp, LeaseFails, Request
    <2> HIDE DEF Few
    <2> QED
      BY <1>1, <2>1, <2>2
  <1>6. ASSUME NEW s \in Scope, Dropped(s) \/ ProvisionFails(s) PROVE Cap'
    <2> DEFINE r == [acq EXCEPT ![s] = NoAcq]
    <2>1. UNCHANGED <<held, idle, starter>> /\ acq' = Woken(r)
      BY <1>6 DEF Dropped, ProvisionFails, timed
    <2>2. r[s].pc = "none" /\ \A t \in Scope \ {s} : r[t] = acq[t]
      BY <1>0
    <2> HIDE DEF r
    <2>3. Few
      BY <2>1, <2>2, WokenCases, AcqFields
    <2> HIDE DEF Few
    <2> QED
      BY <1>1, <2>1, <2>3
  <1>7. ASSUME NEW s \in Scope, Leased(s) PROVE Cap'
    <2>1. UNCHANGED <<idle, starter>> /\ acq[s].pc = "lease" /\ acq'[s].pc = "none"
          /\ \A t \in Scope \ {s} : held'[t] = held[t] /\ acq'[t] = acq[t]
      BY <1>0, <1>7 DEF Leased
    <2>2. Few
      BY <2>1
    <2> HIDE DEF Few
    <2> QED
      BY <1>1, <2>1, <2>2
  <1>8. ASSUME NEW s \in Scope, Finish(s) \/ Orphan(s) PROVE Cap'
    <2>1. UNCHANGED <<acq, idle, starter>> /\ \A t \in Scope : held'[t] # None => held[t] # None
      BY <1>0, <1>8 DEF Finish, Orphan, StartRelease, timed
    <2> QED
      BY <1>1, <2>1
  <1>9. CASE Renew \/ Tick
    <2>1. UNCHANGED <<idle, starter>> /\ \A t \in Scope : held'[t] # None => held[t] # None
      BY <1>9, LeasesStay DEF Renew, Tick
    <2>2. \A t \in Scope : acq'[t].pc = acq[t].pc
      <3>1. CASE Renew
        BY <3>1 DEF Renew
      <3>2. CASE Tick
        <4>1. acq' = [t \in Scope |-> IF acq[t].pc = "lease" THEN [acq[t] EXCEPT !.left = Less(acq[t].left)]
                                                            ELSE acq[t]]
          BY <3>2 DEF Tick
        <4> QED
          BY <1>0, <4>1 DEF Request
      <3> QED
        BY <1>9, <3>1, <3>2
    <2> QED
      BY <1>1, <2>1, <2>2
  <1>10. CASE Sweep
    <2>1. UNCHANGED <<acq, idle, starter>> /\ \A t \in Scope : held'[t] # None => held[t] # None
      BY <1>0, <1>10 DEF Sweep, Sweeping, StartRelease
    <2> QED
      BY <1>1, <2>1
  <1>11. CASE Close \/ CloseNext
    <2>1. UNCHANGED starter /\ idle' \subseteq idle /\ \A t \in Scope : held'[t] # None => held[t] # None
      BY <1>0, <1>11 DEF Close, CloseNext, Closing, StartRelease
    <2>2. acq' = acq \/ acq' = Woken(acq)
      BY <1>11 DEF Close, CloseNext, Closing
    <2>3. Few
      BY <2>1, <2>2, WokenCases, AcqFields
    <2> HIDE DEF Few
    <2> QED
      BY <1>1, <2>1, <2>3
  <1>12. ASSUME NEW x \in releasing, DeleteFails(x) PROVE Cap'
    BY <1>12 DEF DeleteFails
  <1> QED
    BY <1>2, <1>3, <1>4, <1>5, <1>6, <1>7, <1>8, <1>9, <1>10, <1>11, <1>12, CapStart DEF Next, Work

(* The pool never has more than max connections leased, warm or on the way,
   for any max, number of warm connections and of runs
   (pool.ts:294-297, 312-314). *)
THEOREM NeverOverMax == Safety => []WithinMax
  <1> DEFINE IInv == PoolInv /\ (calm => Cap)
  <1>1. Init => IInv
    <2> SUFFICES ASSUME Init PROVE Cap
      BY PoolInit
    <2>1. Taken = {} /\ Holders = {} /\ Starting = 0 /\ idle = {} /\ \A s \in Scope : acq[s].pc = "none"
      BY AcqFields DEF Init, Taken, Holders, Unrecorded, Provisioning, Got, Starting, StarterIn, NoAcq
    <2> QED
      BY <2>1, FS_EmptySet, PoolAssumption DEF Cap
  <1>2. IInv /\ [Next]_vars => IInv'
    <2> SUFFICES ASSUME IInv, [Next]_vars PROVE IInv'
      OBVIOUS
    <2>1. calm' = calm
      BY CalmStays
    <2>2. calm => Cap'
      BY CapStep DEF PoolInv, CalmInv
    <2> QED
      BY <2>1, <2>2, PoolStep
  <1>3. IInv => WithinMax
    <2> SUFFICES ASSUME IInv, calm
                 PROVE  InUse + Cardinality(Got) + StarterIn("got") <= Max
      BY DEF WithinMax, Got
    <2>1. \A S \in SUBSET Scope : Cardinality(S) \in Nat
      BY PoolAssumption, FS_Subset, FS_CardinalityType
    <2>2. /\ Cardinality(Holders) \in Nat /\ Cardinality(Unrecorded) \in Nat
          /\ Cardinality(Provisioning) \in Nat /\ Cardinality(Got) \in Nat
      BY <2>1 DEF Holders, Unrecorded, Provisioning, Got
    <2>3. Cardinality(idle) \in Nat /\ StarterIn("got") \in Nat /\ StarterIn("provision") \in Nat
      BY FS_CardinalityType DEF Cap, StarterIn
    <2>4. /\ Cardinality(Taken) = Cardinality(Holders) + Cardinality(Unrecorded)
                                    + Cardinality(Provisioning) + Cardinality(Got)
          /\ Cardinality(Taken) + Cardinality(idle) + Starting <= Max
      BY TakenSum DEF PoolInv, CalmInv, Cap
    <2> QED
      BY <2>2, <2>3, <2>4, PoolAssumption DEF InUse, Starting
  <1> HIDE DEF IInv
  <1> QED
    BY <1>1, <1>2, <1>3, PTL DEF Safety

=============================================================================
