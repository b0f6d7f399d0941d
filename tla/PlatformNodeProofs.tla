-------------------------- MODULE PlatformNodeProofs --------------------------
(***************************************************************************)
(* Theorems about the two components of packages/platform-node.            *)
(*                                                                         *)
(* The durable queue, for any number of sources, frames, lost connections, *)
(* failed storage calls and crashes; and, step by step, that its calm      *)
(* behaviours implement OrderedDelivery.                                   *)
(*                                                                         *)
(* The webhook receiver, for every set of messages and requests, every     *)
(* tolerance, every skew and every bound on the clock.                     *)
(***************************************************************************)
EXTENDS Delivery, WebhookReceiver, TLAPS

AppendRecord == [pc : Phases, num : 0 .. MaxFrames, frame : 0 .. MaxFrames, meta : Meta \cup {None}]
AckRecord == [from : 1 .. MaxFrames + 1, to : 0 .. MaxFrames, pc : {"list", "delete", "meta"},
              todo : SUBSET Num, meta : Meta \cup {None}]
ReplayRecord == [from : 1 .. MaxFrames + 1, listed : BOOLEAN, todo : SUBSET Num, out : Seq(Numbered)]

Types ==
  /\ calm \in BOOLEAN /\ up \in BOOLEAN /\ conn \in BOOLEAN
  /\ frames \in [Num -> Frame \cup {None}] /\ meta \in Meta
  /\ head \in 0 .. MaxFrames /\ acked \in 0 .. MaxFrames /\ made \in 0 .. MaxFrames
  /\ app \in [Source -> AppendRecord] /\ acking \in SUBSET AckRecord
  /\ replay \in ReplayRecord \cup {None}
  /\ highest \in 0 .. MaxFrames /\ mark \in 0 .. MaxFrames /\ ackSent \in 0 .. MaxFrames
  /\ wire \in Seq(Numbered) /\ log \in Seq(Numbered)

(* A meta document that may be written, now or later, holds a head that was
   handed out, and no watermark above it. *)
Sound(m) == m \in Meta /\ m.acked <= m.head /\ m.head <= made

(* Numbers are handed out above whatever is stored. *)
Below ==
  /\ head <= made /\ \A n \in Stored : n <= made
  /\ Sound(meta)
  /\ up => acked <= head /\ \A n \in Stored : n <= head

(* A number on its way to storage is one append's, and no stored frame's. *)
AppendOf(s) ==
  /\ app[s].pc \in {"frame", "meta"} => up /\ app[s].num \in 1 .. head /\ app[s].frame \in Frame
  /\ app[s].pc = "frame" =>
       /\ app[s].num \notin Stored
       /\ \A r \in Source \ {s} : app[r].pc = "frame" => app[r].num # app[s].num
  /\ app[s].pc = "meta" => Sound(app[s].meta)
Appends == \A s \in Source : AppendOf(s)

(* What an acknowledgement deletes was acknowledged. *)
AckOf(a) ==
  /\ up /\ a.to <= ackSent /\ \A n \in a.todo : n <= a.to
  /\ a.pc = "meta" => Sound(a.meta)
Acks == \A a \in acking : AckOf(a)

IInv == Types /\ Below /\ Appends /\ Acks

-----------------------------------------------------------------------------
LEMMA NoneIsNone == None \notin Num /\ None \notin Frame /\ None \notin 0 .. MaxFrames
  BY DeliveryAssumption DEF Num, Frame

LEMMA InitInv == Init => IInv
  <1> SUFFICES ASSUME Init PROVE IInv
    OBVIOUS
  <1>1. Append0 \in AppendRecord
    BY DeliveryAssumption DEF Append0, AppendRecord, Phases
  <1>2. <<>> \in Seq(Numbered)
    OBVIOUS
  <1>3. [head |-> 0, acked |-> 0] \in Meta
    BY DeliveryAssumption DEF Meta
  <1>4. Types
    <2>1. 0 \in 0 .. MaxFrames
      BY DeliveryAssumption
    <2>2. /\ frames \in [Num -> Frame \cup {None}] /\ app \in [Source -> AppendRecord]
          /\ meta \in Meta /\ wire \in Seq(Numbered) /\ log \in Seq(Numbered)
      BY <1>1, <1>2, <1>3 DEF Init
    <2>3. calm \in BOOLEAN /\ up \in BOOLEAN /\ conn \in BOOLEAN /\ acking = {} /\ replay = None
      BY DEF Init
    <2>4. head = 0 /\ acked = 0 /\ made = 0 /\ highest = 0 /\ mark = 0 /\ ackSent = 0
      BY DEF Init
    <2> QED
      BY <2>1, <2>2, <2>3, <2>4 DEF Types
  <1>5. Stored = {}
    BY DEF Init, Stored
  <1>6. Below
    BY <1>3, <1>5 DEF Init, Below, Sound
  <1>7. Appends /\ Acks
    BY DEF Init, Appends, AppendOf, Acks, Append0
  <1> QED
    BY <1>4, <1>6, <1>7 DEF IInv

LEMMA IInvTypeOK == IInv => TypeOK
  <1> SUFFICES ASSUME IInv PROVE TypeOK
    OBVIOUS
  <1>1. \A s \in Seq(Numbered) : Items(s) \subseteq Numbered
    BY DEF Items
  <1>2. replay # None => replay.todo \subseteq Num /\ Items(replay.out) \subseteq Numbered
    BY <1>1 DEF IInv, Types, ReplayRecord
  <1>3. \A a \in acking : /\ a.from \in 1 .. MaxFrames + 1 /\ a.to \in 0 .. MaxFrames
                          /\ a.pc \in {"list", "delete", "meta"}
                          /\ a.todo \subseteq Num /\ a.meta \in Meta \cup {None}
    BY DEF IInv, Types, AckRecord
  <1>4. Items(wire) \subseteq Numbered /\ Items(log) \subseteq Numbered
    BY <1>1 DEF IInv, Types
  <1> QED
    BY <1>2, <1>3, <1>4 DEF IInv, Types, TypeOK, Below, AppendRecord

(* What a replay or an acknowledgement finds in storage. *)
LEMMA FoundTyped ==
  ASSUME Types, NEW n \in Num
  PROVE  Found(n) \in Seq(Numbered)
  <1>1. CASE frames[n] = None
    BY <1>1 DEF Found
  <1>2. CASE frames[n] # None
    <2>1. frames[n] \in Frame
      BY <1>2 DEF Types
    <2>2. [num |-> n, frame |-> frames[n]] \in Numbered
      BY <2>1 DEF Numbered
    <2>3. Found(n) = <<[num |-> n, frame |-> frames[n]]>>
      BY <1>2 DEF Found
    <2> QED
      BY <2>2, <2>3
  <1> QED
    BY <1>1, <1>2

LEMMA NowSound ==
  ASSUME Types, Below, up
  PROVE  Sound(Now) /\ Now \in Meta
  BY DEF Types, Below, Sound, Now, Meta

-----------------------------------------------------------------------------
(* Appends. *)

LEMMA StartInv ==
  ASSUME IInv, NEW s \in Source, Start(s)
  PROVE  IInv'
  <1> USE DEF storage, server, client, host, bounds
  <1> DEFINE a0 == [pc |-> "frame", num |-> head + 1, frame |-> made + 1, meta |-> None]
  <1>0. Types /\ Below /\ Appends /\ Acks /\ MaxFrames \in Nat
    BY DeliveryAssumption DEF IInv
  <1>1. /\ up /\ made < MaxFrames /\ made' = made + 1 /\ head' = head + 1
        /\ app' = [app EXCEPT ![s] = a0]
        /\ UNCHANGED <<calm, frames, meta, up, acked, acking, replay, conn, highest, wire, mark, got, log, ackSent>>
    BY DEF Start, Free
  <1>2. head \in 0 .. MaxFrames /\ made \in 0 .. MaxFrames /\ head <= made
    BY <1>0 DEF Types, Below
  <1>3. a0 \in AppendRecord
    BY <1>0, <1>1, <1>2 DEF AppendRecord, Phases
  <1> HIDE DEF a0
  <1>4. Types'
    BY <1>0, <1>1, <1>2, <1>3 DEF Types
  <1>5. Stored' = Stored /\ Stored \in SUBSET Num
    BY <1>1 DEF Stored
  <1>6. \A m : Sound(m) => Sound(m)'
    BY <1>1, <1>2 DEF Sound, Meta
  <1>7. Below'
    BY <1>0, <1>1, <1>2, <1>5, <1>6 DEF Below, Num, Types
  <1>8. a0.pc = "frame" /\ a0.num = head + 1 /\ a0.frame = made + 1
    BY DEF a0
  <1>9. app'[s] = a0 /\ \A r \in Source \ {s} : app'[r] = app[r]
    BY <1>0, <1>1 DEF Types
  <1>10. \A n \in Stored : n <= head
    BY <1>0, <1>1 DEF Below
  <1>11. Appends'
    <2> SUFFICES ASSUME NEW r \in Source PROVE AppendOf(r)'
      BY DEF Appends
    <2>1. CASE r = s
      <3>1. a0.num \in 1 .. head' /\ a0.frame \in Frame /\ a0.num \notin Stored
        BY <1>0, <1>1, <1>2, <1>5, <1>8, <1>10 DEF Frame, Num
      <3>2. \A q \in Source \ {s} : app[q].pc = "frame" => app[q].num # a0.num
        BY <1>0, <1>2, <1>8 DEF Appends, AppendOf
      <3> QED
        BY <1>1, <1>5, <1>8, <1>9, <2>1, <3>1, <3>2 DEF AppendOf
    <2>2. CASE r # s
      <3>1. app'[r] = app[r] /\ AppendOf(r)
        BY <1>0, <1>9, <2>2 DEF Appends
      <3>2. app[r].pc \in {"frame", "meta"} => app[r].num \in 1 .. head' /\ app[r].num # a0.num
        BY <1>1, <1>2, <1>8, <3>1 DEF AppendOf
      <3>3. \A q \in Source \ {r} : app[r].pc = "frame" /\ app'[q].pc = "frame" => app'[q].num # app[r].num
        BY <1>8, <1>9, <3>1, <3>2 DEF AppendOf
      <3> QED
        BY <1>1, <1>5, <1>6, <3>1, <3>2, <3>3 DEF AppendOf
    <2> QED
      BY <2>1, <2>2
  <1>12. Acks'
    BY <1>0, <1>1, <1>6 DEF Acks, AckOf
  <1> QED
    BY <1>4, <1>7, <1>11, <1>12 DEF IInv

(* An append that is over. *)
LEMMA OverInv ==
  ASSUME Appends, Types, NEW s \in Source, NEW pc \in {"idle", "ended"},
         app' = [app EXCEPT ![s] = [Append0 EXCEPT !.pc = pc]], up' = up, head' = head, made' = made,
         \A r \in Source \ {s} : app[r].pc = "frame" => app[r].num \notin Stored'
  PROVE  Appends' /\ app' \in [Source -> AppendRecord]
  <1>1. /\ [Append0 EXCEPT !.pc = pc] = [pc |-> pc, num |-> 0, frame |-> 0, meta |-> None]
        /\ [Append0 EXCEPT !.pc = pc] \in AppendRecord
    BY DeliveryAssumption DEF Append0, AppendRecord, Phases
  <1>2. app'[s].pc \in {"idle", "ended"} /\ \A r \in Source \ {s} : app'[r] = app[r]
    BY <1>1 DEF Types
  <1>3. \A m : Sound(m) => Sound(m)'
    BY DEF Sound
  <1>4. ASSUME NEW r \in Source PROVE AppendOf(r)'
    <2>1. CASE r = s
      BY <1>2, <2>1 DEF AppendOf
    <2>2. CASE r # s
      BY <1>2, <1>3, <2>2 DEF Appends, AppendOf
    <2> QED
      BY <2>1, <2>2
  <1> QED
    BY <1>1, <1>4 DEF Appends, Types

LEMMA StoreStored ==
  ASSUME Types, NEW s \in Source, app[s].num \in Num, app[s].frame \in Frame, Store(app[s])
  PROVE  /\ frames' \in [Num -> Frame \cup {None}] /\ log' \in Seq(Numbered)
         /\ Stored' = Stored \cup {app[s].num}
         /\ \A n \in Num : n # app[s].num => frames'[n] = frames[n]
  <1>1. frames' = [frames EXCEPT ![app[s].num] = app[s].frame] /\ frames \in [Num -> Frame \cup {None}]
    BY DEF Store, Types
  <1>2. [num |-> app[s].num, frame |-> app[s].frame] \in Numbered
    BY DEF Numbered
  <1>3. log' \in Seq(Numbered)
    BY <1>2 DEF Store, Types
  <1>4. app[s].frame # None
    BY NoneIsNone
  <1> QED
    BY <1>1, <1>3, <1>4 DEF Stored

(* The frame of an append lands: it is the one of no other, and below the head. *)
LEMMA LandsInv ==
  ASSUME Types, Below, Appends, NEW s \in Source, app[s].pc = "frame", Store(app[s]),
         UNCHANGED <<meta, up, head, acked, made>>
  PROVE  /\ Below' /\ frames' \in [Num -> Frame \cup {None}] /\ log' \in Seq(Numbered)
         /\ \A r \in Source \ {s} : app[r].pc = "frame" => app[r].num \notin Stored'
         /\ \A n \in Stored : frames'[n] = frames[n]
  <1>1. AppendOf(s)
    BY DEF Appends
  <1>2. /\ up /\ app[s].num \in 1 .. head /\ app[s].frame \in Frame /\ app[s].num \notin Stored
        /\ head \in 0 .. MaxFrames /\ head <= made /\ MaxFrames \in Nat
    BY <1>1, DeliveryAssumption DEF AppendOf, Types, Below
  <1>3. app[s].num \in Num
    BY <1>2 DEF Num
  <1>4. /\ frames' \in [Num -> Frame \cup {None}] /\ log' \in Seq(Numbered)
        /\ Stored' = Stored \cup {app[s].num}
        /\ \A n \in Num : n # app[s].num => frames'[n] = frames[n]
    BY <1>2, <1>3, StoreStored
  <1>5. app[s].num <= head /\ app[s].num <= made
    BY <1>2 DEF Types
  <1>6. Below'
    BY <1>4, <1>5 DEF Below, Sound
  <1>7. \A r \in Source \ {s} : app[r].pc = "frame" => app[r].num \notin Stored'
    BY <1>1, <1>4 DEF Appends, AppendOf
  <1> QED
    BY <1>2, <1>4, <1>6, <1>7 DEF Stored

LEMMA PersistInv ==
  ASSUME IInv, NEW s \in Source, Persist(s)
  PROVE  IInv' /\ \A n \in Stored : frames'[n] = frames[n]
  <1> USE DEF storage, server, client, host, bounds
  <1>0. Types /\ Below /\ Appends /\ Acks
    BY DEF IInv
  <1>1. /\ app[s].pc = "frame" /\ Store(app[s])
        /\ UNCHANGED <<calm, meta, up, head, acked, acking, replay, conn, highest, wire, mark, got, ackSent, made>>
    BY DEF Persist
  <1>2. /\ Below' /\ frames' \in [Num -> Frame \cup {None}] /\ log' \in Seq(Numbered)
        /\ \A r \in Source \ {s} : app[r].pc = "frame" => app[r].num \notin Stored'
        /\ \A n \in Stored : frames'[n] = frames[n]
    BY <1>0, <1>1, LandsInv
  <1>3. PICK p0 \in Phases, n0 \in 0 .. MaxFrames, f0 \in 0 .. MaxFrames, m0 \in Meta \cup {None} :
          app[s] = [pc |-> p0, num |-> n0, frame |-> f0, meta |-> m0]
    BY <1>0 DEF Types, AppendRecord
  <1>4. app' = [app EXCEPT ![s] = [pc |-> "meta", num |-> n0, frame |-> f0, meta |-> Now]]
    BY <1>0, <1>3 DEF Persist, Types
  <1>5. AppendOf(s) /\ Sound(Now) /\ Now \in Meta
    BY <1>0, <1>1, NowSound DEF Appends, AppendOf
  <1>6. [pc |-> "meta", num |-> n0, frame |-> f0, meta |-> Now] \in AppendRecord
    BY <1>3, <1>5 DEF AppendRecord, Phases
  <1>7. /\ app'[s] = [pc |-> "meta", num |-> n0, frame |-> f0, meta |-> Now]
        /\ \A r \in Source \ {s} : app'[r] = app[r]
    BY <1>0, <1>4 DEF Types
  <1>8. Types'
    BY <1>0, <1>1, <1>2, <1>4, <1>6 DEF Types
  <1>9. \A m : Sound(m) => Sound(m)'
    BY <1>1 DEF Sound
  <1>10. ASSUME NEW r \in Source PROVE AppendOf(r)'
    <2>1. CASE r = s
      <3>1. app'[r].pc = "meta" /\ app'[r].num = app[s].num /\ app'[r].frame = app[s].frame /\ app'[r].meta = Now
        BY <1>3, <1>7, <2>1
      <3>2. up /\ app[s].num \in 1 .. head /\ app[s].frame \in Frame
        BY <1>1, <1>5 DEF AppendOf
      <3>3. Now \in Meta /\ Now.acked <= Now.head /\ Now.head <= made
        BY <1>5 DEF Sound
      <3> QED
        BY <1>1, <3>1, <3>2, <3>3 DEF AppendOf, Sound
    <2>2. CASE r # s
      <3>1. app'[r] = app[r] /\ AppendOf(r)
        BY <1>0, <1>7, <2>2 DEF Appends
      <3>2. \A q \in Source \ {r} : app'[q].pc = "frame" => app'[q] = app[q]
        BY <1>7
      <3> QED
        BY <1>1, <1>2, <1>9, <2>2, <3>1, <3>2 DEF AppendOf
    <2> QED
      BY <2>1, <2>2
  <1>11. Acks'
    BY <1>0, <1>1, <1>9 DEF Acks, AckOf
  <1> QED
    BY <1>2, <1>8, <1>10, <1>11 DEF IInv, Appends

LEMMA FlushInv ==
  ASSUME IInv, NEW s \in Source, Flush(s)
  PROVE  IInv'
  <1> USE DEF storage, server, client, host, bounds
  <1>0. Types /\ Below /\ Appends /\ Acks
    BY DEF IInv
  <1>1. /\ app[s].pc = "meta" /\ meta' = app[s].meta /\ Broadcast(app[s])
        /\ app' = [app EXCEPT ![s] = Append0]
        /\ UNCHANGED <<calm, frames, up, head, acked, acking, replay, conn, highest, mark, got, log, ackSent, made>>
    BY DEF Flush
  <1>2. AppendOf(s)
    BY <1>0 DEF Appends
  <1>3. Sound(app[s].meta) /\ app[s].num \in Num /\ app[s].frame \in Frame
    <2>1. Sound(app[s].meta) /\ app[s].num \in 1 .. head /\ app[s].frame \in Frame
      BY <1>1, <1>2 DEF AppendOf
    <2>2. head \in 0 .. MaxFrames /\ MaxFrames \in Nat
      BY <1>0, DeliveryAssumption DEF Types
    <2> QED
      BY <2>1, <2>2 DEF Num
  <1>4. wire' \in Seq(Numbered)
    <2>1. [num |-> app[s].num, frame |-> app[s].frame] \in Numbered
      BY <1>3 DEF Numbered
    <2> QED
      BY <1>0, <1>1, <2>1 DEF Broadcast, Types
  <1>5. Stored' = Stored
    BY <1>1 DEF Stored
  <1>6. Append0 = [Append0 EXCEPT !.pc = "idle"]
    BY DEF Append0
  <1>7. Appends' /\ app' \in [Source -> AppendRecord]
    <2>1. \A r \in Source \ {s} : app[r].pc = "frame" => app[r].num \notin Stored'
      BY <1>0, <1>5 DEF Appends, AppendOf
    <2> QED
      BY <1>0, <1>1, <1>6, <2>1, OverInv
  <1>8. Types'
    BY <1>0, <1>1, <1>3, <1>4, <1>7 DEF Types, Sound
  <1>9. Below'
    BY <1>0, <1>1, <1>3, <1>5 DEF Below, Sound
  <1>10. Acks'
    BY <1>0, <1>1 DEF Acks, AckOf, Sound
  <1> QED
    BY <1>7, <1>8, <1>9, <1>10 DEF IInv

LEMMA AppendFailsInv ==
  ASSUME IInv, NEW s \in Source, AppendFails(s)
  PROVE  IInv' /\ \A n \in Stored : frames'[n] = frames[n]
  <1> USE DEF storage, server, client, host, bounds
  <1>0. Types /\ Below /\ Appends /\ Acks
    BY DEF IInv
  <1>1. /\ \E pc \in {"idle", "ended"} : app' = [app EXCEPT ![s] = [Append0 EXCEPT !.pc = pc]]
        /\ UNCHANGED <<calm, up, head, acked, acking, replay, conn, highest, wire, mark, got, ackSent, made>>
    BY DEF AppendFails, Fault
  <1>2. /\ Below' /\ frames' \in [Num -> Frame \cup {None}] /\ log' \in Seq(Numbered)
        /\ \A r \in Source \ {s} : app[r].pc = "frame" => app[r].num \notin Stored'
        /\ \A n \in Stored : frames'[n] = frames[n]
        /\ meta' \in Meta
    <2>1. CASE app[s].pc = "frame" /\ Store(app[s]) /\ UNCHANGED meta
      BY <1>0, <1>1, <2>1, LandsInv DEF Types
    <2>2. CASE UNCHANGED <<frames, log>> /\ (UNCHANGED meta \/ (app[s].pc = "meta" /\ meta' = app[s].meta))
      <3>1. Sound(meta')
        BY <1>0, <2>2 DEF Appends, AppendOf, Below
      <3>2. Stored' = Stored
        BY <2>2 DEF Stored
      <3> QED
        BY <1>0, <1>1, <2>2, <3>1, <3>2 DEF Below, Appends, AppendOf, Types, Sound
    <2> QED
      BY <2>1, <2>2 DEF AppendFails
  <1>3. Appends' /\ app' \in [Source -> AppendRecord]
    BY <1>0, <1>1, <1>2, OverInv
  <1>4. Types'
    BY <1>0, <1>1, <1>2, <1>3 DEF Types
  <1>5. Acks'
    BY <1>0, <1>1 DEF Acks, AckOf, Sound
  <1> QED
    BY <1>2, <1>3, <1>4, <1>5 DEF IInv

-----------------------------------------------------------------------------
(* Replays and acknowledgements. *)

(* A step of the client, or of its replay, that leaves storage and counters. *)
LEMMA ClientInv ==
  ASSUME IInv, UNCHANGED <<calm, storage, up, head, acked, app, acking, log, ackSent, made>>,
         conn' \in BOOLEAN, replay' \in ReplayRecord \cup {None}, wire' \in Seq(Numbered),
         highest' \in 0 .. MaxFrames, mark' \in 0 .. MaxFrames
  PROVE  IInv'
  <1> USE DEF storage
  <1>0. Types /\ Below /\ Appends /\ Acks
    BY DEF IInv
  <1>1. Types'
    BY <1>0 DEF Types
  <1>2. Stored' = Stored
    BY DEF Stored
  <1>3. \A m : Sound(m) => Sound(m)'
    BY DEF Sound
  <1>4. Below'
    BY <1>0, <1>2, <1>3 DEF Below
  <1>5. Appends'
    BY <1>0, <1>2, <1>3 DEF Appends, AppendOf
  <1>6. Acks'
    BY <1>0, <1>3 DEF Acks, AckOf
  <1> QED
    BY <1>1, <1>4, <1>5, <1>6 DEF IInv

LEMMA ConnectInv ==
  ASSUME IInv, Connect
  PROVE  IInv'
  <1> USE DEF storage, server, client, host, bounds
  <1>1. Types /\ MaxFrames \in Nat
    BY DeliveryAssumption DEF IInv
  <1>2. mark \in 0 .. MaxFrames /\ mark' = mark
    BY <1>1 DEF Types, Connect
  <1>3. replay' \in ReplayRecord
    BY <1>1, <1>2 DEF Connect, ResumeFrom, ReplayRecord
  <1> QED
    BY <1>1, <1>2, <1>3, ClientInv DEF Connect

LEMMA ReplayInv ==
  ASSUME IInv, Range \/ Get \/ ReplayFails
  PROVE  IInv'
  <1> USE DEF storage, server, client, host, bounds
  <1>1. Types
    BY DEF IInv
  <1>2. UNCHANGED <<calm, storage, up, head, acked, app, acking, log, ackSent, made, conn, highest, mark>>
    BY DEF Range, Get, ReplayFails, Fault
  <1>3. replay # None => \E f \in 1 .. MaxFrames + 1, l \in BOOLEAN, t \in SUBSET Num, o \in Seq(Numbered) :
          replay = [from |-> f, listed |-> l, todo |-> t, out |-> o]
    BY <1>1 DEF Types, ReplayRecord
  <1>4. replay' \in ReplayRecord \cup {None} /\ wire' \in Seq(Numbered)
    <2>1. CASE Range
      <3>1. PICK f \in 1 .. MaxFrames + 1, l \in BOOLEAN, t \in SUBSET Num, o \in Seq(Numbered) :
              replay = [from |-> f, listed |-> l, todo |-> t, out |-> o]
        BY <1>3, <2>1 DEF Range
      <3>2. Listed(replay.from, MaxFrames) \in SUBSET Num
        BY DEF Listed, Stored
      <3> QED
        BY <1>1, <2>1, <3>1, <3>2 DEF ReplayRecord, Range, Types
    <2>2. CASE Get
      <3>1. PICK f \in 1 .. MaxFrames + 1, l \in BOOLEAN, t \in SUBSET Num, o \in Seq(Numbered) :
              replay = [from |-> f, listed |-> l, todo |-> t, out |-> o]
        BY <1>3, <2>2 DEF Get
      <3>2. PICK n \in replay.todo :
              \/ wire' = wire \o replay.out \o Found(n) /\ replay' = None
              \/ /\ replay' = [from |-> f, listed |-> TRUE, todo |-> t \ {n}, out |-> o \o Found(n)]
                 /\ UNCHANGED wire
        BY <2>2, <3>1 DEF Get
      <3>3. n \in Num /\ Found(n) \in Seq(Numbered) /\ wire \in Seq(Numbered) /\ replay.out = o
        BY <1>1, <3>1, <3>2, FoundTyped DEF Types
      <3>4. o \o Found(n) \in Seq(Numbered) /\ wire \o o \o Found(n) \in Seq(Numbered)
        BY <3>3
      <3>5. CASE wire' = wire \o replay.out \o Found(n) /\ replay' = None
        BY <3>3, <3>4, <3>5
      <3>6. CASE replay' # None /\ UNCHANGED wire
        <4>1. replay' = [from |-> f, listed |-> TRUE, todo |-> t \ {n}, out |-> o \o Found(n)]
          BY <3>2, <3>6
        <4>2. t \ {n} \in SUBSET Num
          OBVIOUS
        <4>3. replay' \in ReplayRecord
          BY <3>4, <4>1, <4>2 DEF ReplayRecord
        <4> QED
          BY <3>3, <3>6, <4>3
      <3>7. CASE replay' = None /\ UNCHANGED wire
        BY <3>3, <3>7
      <3> QED
        BY <3>2, <3>5, <3>6, <3>7
    <2>3. CASE ReplayFails
      BY <1>1, <2>3 DEF ReplayFails, Types
    <2> QED
      BY <2>1, <2>2, <2>3
  <1> QED
    BY <1>1, <1>2, <1>4, ClientInv DEF Types

LEMMA ReceiveInv ==
  ASSUME IInv, Receive
  PROVE  IInv'
  <1> USE DEF storage, server, client, host, bounds
  <1>1. Types
    BY DEF IInv
  <1>2. wire # <<>> /\ wire \in Seq(Numbered) /\ wire' = Tail(wire)
    BY <1>1 DEF Receive, Types
  <1>3. Head(wire) \in Numbered /\ wire' \in Seq(Numbered)
    BY <1>2
  <1>4. Head(wire).num \in 0 .. MaxFrames
    BY <1>3, DeliveryAssumption DEF Numbered, Num
  <1>5. highest' \in 0 .. MaxFrames /\ mark' \in 0 .. MaxFrames
    BY <1>1, <1>4 DEF Receive, Types, Greatest
  <1>6. UNCHANGED <<calm, storage, up, head, acked, app, acking, log, ackSent, made, conn, replay>>
    BY DEF Receive
  <1> QED
    BY <1>1, <1>3, <1>5, <1>6, ClientInv DEF Types

LEMMA DisconnectInv ==
  ASSUME IInv, Disconnect
  PROVE  IInv'
  <1> USE DEF storage, server, client, host, bounds
  <1>1. Types /\ 0 \in 0 .. MaxFrames
    BY DeliveryAssumption DEF IInv
  <1>2. <<>> \in Seq(Numbered)
    OBVIOUS
  <1>3. conn' = FALSE /\ wire' = <<>> /\ highest' = 0 /\ replay' = None /\ mark' = mark
    BY DEF Disconnect, Hangup
  <1>4. UNCHANGED <<calm, storage, up, head, acked, app, acking, log, ackSent, made>>
    BY DEF Disconnect
  <1> QED
    BY <1>1, <1>2, <1>3, <1>4, ClientInv DEF Types

LEMMA AckUpToInv ==
  ASSUME IInv, NEW n \in Num, AckUpTo(n)
  PROVE  IInv'
  <1> USE DEF storage, server, client, host, bounds
  <1>0. Types /\ Below /\ Appends /\ Acks /\ MaxFrames \in Nat
    BY DeliveryAssumption DEF IInv
  <1>1. /\ up /\ n \in 1 .. mark /\ n > acked
        /\ ackSent' = Greatest(ackSent, n) /\ acked' = Least(n, head)
        /\ UNCHANGED <<calm, frames, meta, up, head, app, replay, conn, highest, wire, mark, got, log, made>>
    BY DEF AckUpTo, Free
  <1>2. /\ head \in 0 .. MaxFrames /\ acked \in 0 .. MaxFrames /\ mark \in 0 .. MaxFrames
        /\ ackSent \in 0 .. MaxFrames
    BY <1>0 DEF Types
  <1> DEFINE a0 == [from |-> acked + 1, to |-> Least(n, head), pc |-> "list", todo |-> {}, meta |-> None]
  <1>3. acking' = acking \cup {a0}
    BY DEF AckUpTo
  <1>4. Least(n, head) \in 0 .. head /\ Least(n, head) \in 0 .. MaxFrames /\ Least(n, head) <= n
    BY <1>0, <1>1, <1>2 DEF Least, Num
  <1>5. /\ ackSent' \in 0 .. MaxFrames /\ n <= ackSent' /\ ackSent <= ackSent'
        /\ acked' \in 0 .. MaxFrames /\ acked' <= head
    BY <1>0, <1>1, <1>2, <1>4 DEF Greatest, Num
  <1>6. acked + 1 \in 1 .. MaxFrames + 1
    BY <1>0, <1>2
  <1>7. a0 \in AckRecord
    BY <1>4, <1>6 DEF AckRecord
  <1>8. a0.to = Least(n, head) /\ a0.todo = {} /\ a0.pc = "list"
    OBVIOUS
  <1> HIDE DEF a0
  <1>9. Types'
    BY <1>0, <1>1, <1>3, <1>5, <1>7 DEF Types
  <1>10. Stored' = Stored
    BY <1>1 DEF Stored
  <1>11. \A m : Sound(m) => Sound(m)'
    BY <1>1 DEF Sound
  <1>12. Below'
    BY <1>0, <1>1, <1>5, <1>10, <1>11 DEF Below
  <1>13. Appends'
    BY <1>0, <1>1, <1>10, <1>11 DEF Appends, AppendOf
  <1>14. Acks'
    <2> SUFFICES ASSUME NEW a \in acking' PROVE AckOf(a)'
      BY DEF Acks
    <2>1. CASE a = a0
      <3>1. Least(n, head) <= ackSent'
        BY <1>2, <1>4, <1>5 DEF Num
      <3> QED
        BY <1>1, <1>8, <2>1, <3>1 DEF AckOf
    <2>2. CASE a \in acking
      <3>1. AckOf(a) /\ a.to \in 0 .. MaxFrames
        BY <1>0, <2>2 DEF Acks, Types, AckRecord
      <3>2. a.to <= ackSent'
        BY <1>2, <1>5, <3>1 DEF AckOf
      <3> QED
        BY <1>1, <1>11, <3>1, <3>2 DEF AckOf
    <2> QED
      BY <1>3, <2>1, <2>2
  <1> QED
    BY <1>9, <1>12, <1>13, <1>14 DEF IInv

(* An acknowledgement goes on to the rest of its frames, or to its meta document. *)
LEMMA DeletingOf ==
  ASSUME Types, Below, Acks, NEW a \in acking, NEW todo \in SUBSET Num, \A n \in todo : n <= a.to
  PROVE  Deleting(a, todo) \in AckRecord /\ AckOf(Deleting(a, todo))
  <1>1. PICK f0 \in 1 .. MaxFrames + 1, t0 \in 0 .. MaxFrames, p0 \in {"list", "delete", "meta"},
             d0 \in SUBSET Num, m0 \in Meta \cup {None} :
          a = [from |-> f0, to |-> t0, pc |-> p0, todo |-> d0, meta |-> m0]
    BY DEF Types, AckRecord
  <1>2. up /\ a.to <= ackSent /\ Sound(Now) /\ Now \in Meta
    BY NowSound DEF Acks, AckOf
  <1>3. CASE todo = {}
    <2>1. Deleting(a, todo) = [from |-> f0, to |-> t0, pc |-> "meta", todo |-> {}, meta |-> Now]
      BY <1>1, <1>3 DEF Deleting
    <2> QED
      BY <1>1, <1>2, <2>1 DEF AckRecord, AckOf
  <1>4. CASE todo # {}
    <2>1. Deleting(a, todo) = [from |-> f0, to |-> t0, pc |-> "delete", todo |-> todo, meta |-> m0]
      BY <1>1, <1>4 DEF Deleting
    <2> QED
      BY <1>1, <1>2, <2>1 DEF AckRecord, AckOf
  <1> QED
    BY <1>3, <1>4

LEMMA AckStepInv ==
  ASSUME IInv, AckStep \/ \E a \in acking : AckFails(a)
  PROVE  IInv' /\ \A n \in Stored : frames'[n] = frames[n] \/ (frames'[n] = None /\ n <= ackSent)
  <1> USE DEF storage, server, client, host, bounds
  <1>0. Types /\ Below /\ Appends /\ Acks /\ MaxFrames \in Nat
    BY DeliveryAssumption DEF IInv
  <1>1. UNCHANGED <<calm, up, head, acked, app, replay, conn, highest, wire, mark, got, log, ackSent, made>>
    BY DEF AckStep, AckRange, AckDelete, AckFlush, AckFails, Fault
  <1>2. \A m : Sound(m) => Sound(m)'
    BY <1>1 DEF Sound
  <1>3. ASSUME frames' \in [Num -> Frame \cup {None}], Stored' \subseteq Stored, Sound(meta'),
               acking' \in SUBSET AckRecord, \A a \in acking' : AckOf(a)
        PROVE  IInv'
    <2>1. Types'
      BY <1>0, <1>1, <1>3 DEF Types, Sound
    <2>2. Below'
      BY <1>0, <1>1, <1>3 DEF Below, Sound
    <2>3. Appends'
      BY <1>0, <1>1, <1>2, <1>3 DEF Appends, AppendOf
    <2>4. Acks'
      BY <1>1, <1>2, <1>3 DEF Acks, AckOf
    <2> QED
      BY <2>1, <2>2, <2>3, <2>4 DEF IInv
  <1>4. ASSUME NEW a \in acking, AckRange(a) PROVE IInv' /\ frames' = frames
    <2>1. UNCHANGED <<frames, meta>> /\ acking' = (acking \ {a}) \cup {Deleting(a, Listed(a.from, a.to))}
      BY <1>4 DEF AckRange
    <2>2. Listed(a.from, a.to) \in SUBSET Num /\ \A n \in Listed(a.from, a.to) : n <= a.to
      BY DEF Listed, Stored
    <2>3. Deleting(a, Listed(a.from, a.to)) \in AckRecord /\ AckOf(Deleting(a, Listed(a.from, a.to)))
      BY <1>0, <2>2, DeletingOf
    <2>4. acking' \in SUBSET AckRecord /\ \A b \in acking' : AckOf(b)
      BY <1>0, <2>1, <2>3 DEF Types, Acks
    <2>5. Stored' = Stored /\ Sound(meta') /\ frames' \in [Num -> Frame \cup {None}]
      BY <1>0, <2>1 DEF Stored, Below, Types
    <2> QED
      BY <1>3, <2>1, <2>4, <2>5
  <1>5. ASSUME NEW a \in acking, AckDelete(a)
        PROVE  IInv' /\ \A n \in Stored : frames'[n] = frames[n] \/ (frames'[n] = None /\ n <= ackSent)
    <2>1. PICK n \in a.todo : /\ frames' = [frames EXCEPT ![n] = None]
                              /\ acking' = (acking \ {a}) \cup {Deleting(a, a.todo \ {n})}
      BY <1>5 DEF AckDelete
    <2>2. /\ a.todo \in SUBSET Num /\ (\A k \in a.todo : k <= a.to)
          /\ a.to \in 0 .. MaxFrames /\ a.to <= ackSent
      BY <1>0 DEF Types, AckRecord, Acks, AckOf
    <2>3. Deleting(a, a.todo \ {n}) \in AckRecord /\ AckOf(Deleting(a, a.todo \ {n}))
      BY <1>0, <2>2, DeletingOf
    <2>4. acking' \in SUBSET AckRecord /\ \A b \in acking' : AckOf(b)
      BY <1>0, <2>1, <2>3 DEF Types, Acks
    <2>5. /\ frames' \in [Num -> Frame \cup {None}] /\ Stored' \subseteq Stored
          /\ \A k \in Num : frames'[k] = frames[k] \/ (frames'[k] = None /\ k = n)
      BY <1>0, <2>1 DEF Stored, Types
    <2>6. n \in Num /\ n <= ackSent
      BY <1>0, <2>1, <2>2 DEF Num, Types
    <2>7. Sound(meta')
      BY <1>0, <1>5 DEF AckDelete, Below
    <2> QED
      BY <1>3, <2>4, <2>5, <2>6, <2>7 DEF Stored
  <1>6. ASSUME NEW a \in acking, AckFlush(a) \/ AckFails(a) PROVE IInv' /\ frames' = frames
    <2>1. frames' = frames /\ acking' = acking \ {a} /\ Sound(meta')
      BY <1>0, <1>6 DEF AckFlush, AckFails, Acks, AckOf, Below
    <2>2. Stored' = Stored /\ frames' \in [Num -> Frame \cup {None}]
      BY <1>0, <2>1 DEF Stored, Types
    <2>3. acking' \in SUBSET AckRecord /\ \A b \in acking' : AckOf(b)
      BY <1>0, <2>1 DEF Types, Acks
    <2> QED
      BY <1>3, <2>1, <2>2, <2>3
  <1> QED
    BY <1>4, <1>5, <1>6 DEF AckStep

-----------------------------------------------------------------------------
(* Crashes. *)

LEMMA CrashInv ==
  ASSUME IInv, Crash
  PROVE  IInv'
  <1> USE DEF storage, server, client, host, bounds
  <1>0. Types /\ Below /\ Appends /\ Acks /\ MaxFrames \in Nat /\ 0 \in 0 .. MaxFrames
    BY DeliveryAssumption DEF IInv
  <1>1. /\ up' = FALSE /\ head' = 0 /\ acked' = 0 /\ app' = [s \in Source |-> Append0] /\ acking' = {}
        /\ conn' = FALSE /\ wire' = <<>> /\ highest' = 0 /\ replay' = None
        /\ UNCHANGED <<calm, frames, meta, mark, got, log, ackSent, made>>
    BY DEF Crash, Hangup
  <1>2. Append0 \in AppendRecord /\ Append0.pc = "idle"
    BY <1>0 DEF Append0, AppendRecord, Phases
  <1>3. <<>> \in Seq(Numbered)
    OBVIOUS
  <1>4. Types'
    BY <1>0, <1>1, <1>2, <1>3 DEF Types
  <1>5. Stored' = Stored
    BY <1>1 DEF Stored
  <1>6. Below'
    <2>1. 0 <= made
      BY <1>0 DEF Types
    <2> QED
      BY <1>0, <1>1, <1>5, <2>1 DEF Below, Sound
  <1>7. Appends' /\ Acks'
    BY <1>1, <1>2 DEF Appends, AppendOf, Acks
  <1> QED
    BY <1>4, <1>6, <1>7 DEF IInv

(* A server starts from a head that no stored frame is above. *)
LEMMA ListenInv ==
  ASSUME IInv, Listen
  PROVE  IInv'
  <1> USE DEF storage, server, client, host, bounds
  <1>0. Types /\ Below /\ Appends /\ Acks
    BY DEF IInv
  <1>1. /\ ~up /\ up' = TRUE /\ acked' = meta.acked
        /\ UNCHANGED <<calm, frames, meta, app, acking, replay, conn, highest, wire, mark, got, log, ackSent, made>>
    BY DEF Listen
  <1>2. head' \in 0 .. MaxFrames /\ Recovered(head')
    BY DEF Listen
  <1>3. /\ head' <= made /\ meta.head <= head' /\ \A n \in Stored : n <= head'
    BY <1>0, <1>2 DEF Recovered, Below, Sound
  <1>4. meta.acked \in 0 .. MaxFrames /\ meta.head \in 0 .. MaxFrames /\ meta.acked <= meta.head
    BY <1>0 DEF Types, Meta, Below, Sound
  <1>5. meta.acked <= head'
    BY <1>2, <1>3, <1>4
  <1>6. Types'
    BY <1>0, <1>1, <1>2, <1>4 DEF Types
  <1>7. Stored' = Stored
    BY <1>1 DEF Stored
  <1>8. Below'
    BY <1>0, <1>1, <1>3, <1>5, <1>7 DEF Below, Sound
  <1>9. Appends'
    BY <1>0, <1>1 DEF Appends, AppendOf
  <1>10. Acks'
    BY <1>0, <1>1 DEF Acks, AckOf
  <1> QED
    BY <1>6, <1>8, <1>9, <1>10 DEF IInv

-----------------------------------------------------------------------------
(* Theorems. *)

LEMMA NextInv ==
  ASSUME IInv, [Next]_vars
  PROVE  /\ IInv'
         /\ \A n \in Stored : frames'[n] = frames[n] \/ (frames'[n] = None /\ n <= ackSent)
  <1> USE DEF storage, server, client, host, bounds
  <1>1. ASSUME NEW s \in Source, Start(s) PROVE IInv' /\ frames' = frames
    BY <1>1, StartInv DEF Start
  <1>2. ASSUME NEW s \in Source, Persist(s) PROVE IInv' /\ \A n \in Stored : frames'[n] = frames[n]
    BY <1>2, PersistInv
  <1>3. ASSUME NEW s \in Source, Flush(s) PROVE IInv' /\ frames' = frames
    BY <1>3, FlushInv DEF Flush
  <1>4. ASSUME NEW s \in Source, AppendFails(s) PROVE IInv' /\ \A n \in Stored : frames'[n] = frames[n]
    BY <1>4, AppendFailsInv
  <1>5. CASE Connect \/ Range \/ Get \/ ReplayFails \/ Receive \/ Disconnect
    <2>1. frames' = frames
      BY <1>5 DEF Connect, Range, Get, ReplayFails, Receive, Disconnect
    <2> QED
      BY <1>5, <2>1, ConnectInv, ReplayInv, ReceiveInv, DisconnectInv
  <1>6. ASSUME NEW n \in Num, AckUpTo(n) PROVE IInv' /\ frames' = frames
    BY <1>6, AckUpToInv DEF AckUpTo
  <1>7. CASE AckStep \/ \E a \in acking : AckFails(a)
    BY <1>7, AckStepInv
  <1>8. CASE Crash \/ Listen
    <2>1. frames' = frames
      BY <1>8 DEF Crash, Listen
    <2> QED
      BY <1>8, <2>1, CrashInv, ListenInv
  <1>9. CASE UNCHANGED vars
    <2>1. UNCHANGED <<calm, storage, up, head, acked, app, acking, log, ackSent, made, conn, replay, wire, highest, mark>>
      BY <1>9 DEF vars
    <2> QED
      BY <2>1, ClientInv DEF IInv, Types
  <1> QED
    BY <1>1, <1>2, <1>3, <1>4, <1>5, <1>6, <1>7, <1>8, <1>9 DEF Next, AppendStep

(* Every variable keeps its type: whatever is lost, fails or crashes, a server
   counts from a head that no stored frame is above, and its acknowledgement
   watermark stays below that (durable-outbound-queue.ts:96-150). *)
THEOREM QueueTypeCorrect == Spec => []TypeOK
  <1>1. IInv /\ [Next]_vars => IInv'
    BY NextInv
  <1> QED
    BY InitInv, IInvTypeOK, <1>1, PTL DEF Spec, Safety

(* No step overwrites a stored frame, or deletes one whose number no client has
   acknowledged (durable-outbound-queue.ts:22-33). *)
THEOREM UnackedKept == Spec => UnackedStaysStored
  <1>1. IInv /\ [Next]_vars => IInv'
    BY NextInv
  <1>2. IInv /\ [Next]_vars =>
          [\A n \in Stored : frames'[n] = frames[n] \/ (frames'[n] = None /\ n <= ackSent)]_vars
    BY NextInv
  <1> QED
    BY InitInv, <1>1, <1>2, PTL DEF Spec, Safety, UnackedStaysStored

-----------------------------------------------------------------------------
(* Calm behaviours: what is on its way to the host is what the log holds
   beyond what the host was given, in the same order. *)

(* No restart has taken the head below the number of a frame that was stored. *)
HeadSurvives == up => \A i \in DOMAIN log : log[i].num <= head

Storing(s) == app[s].pc = "frame"
Sending(s) == app[s].pc = "meta"
Appending(s) == Storing(s) \/ Sending(s)

(* One storage call at a time. *)
Alone ==
  /\ \A s \in Source : \A t \in Source : Appending(s) /\ Appending(t) => s = t
  /\ \A s \in Source : Appending(s) => acking = {} /\ replay = None
  /\ acking # {} => replay = None
  /\ replay # None => conn

Ascending == \A i, j \in DOMAIN log : i < j => log[i].num < log[j].num

(* The frame being stored goes above the log, the one being sent is its last. *)
FreshNumbers ==
  \A s \in Source :
    /\ Storing(s) => \A i \in DOMAIN log : log[i].num < app[s].num
    /\ Sending(s) => log # <<>> /\ log[Len(log)] = [num |-> app[s].num, frame |-> app[s].frame]

(* Storage holds nothing but what was logged, and all of it beyond the mark. *)
KeptFrames ==
  /\ \A i \in DOMAIN log : log[i].num \in Stored => frames[log[i].num] = log[i].frame
  /\ \A n \in Stored : \E i \in DOMAIN log : log[i].num = n
  /\ \A i \in DOMAIN log : mark < log[i].num => log[i].num \in Stored

(* The host was given the beginning of the log, and its mark is the end of that. *)
Given ==
  /\ got \in Seq(Frame) /\ Len(got) <= Len(log)
  /\ \A i \in 1 .. Len(got) : got[i] = log[i].frame
  /\ mark = IF got = <<>> THEN 0 ELSE log[Len(got)].num
  /\ highest <= mark /\ ackSent <= mark

(* q is what comes next in the log. *)
Follows(q) == \A j \in DOMAIN q : Len(got) + j <= Len(log) /\ q[j] = log[Len(got) + j]

Travelling ==
  /\ ~conn => wire = <<>>
  /\ Follows(wire)
  /\ conn /\ replay = None =>
       Len(got) + Len(wire) = IF \E s \in Source : Sending(s) THEN Len(log) - 1 ELSE Len(log)

(* The numbers of the log from place p on. *)
NumsFrom(p) == {log[i].num : i \in p .. Len(log)}

Replaying ==
  replay # None =>
    /\ wire = <<>> /\ replay.from = mark + 1 /\ Follows(replay.out)
    /\ ~replay.listed => replay.out = <<>>
    /\ replay.listed => /\ replay.todo # {}
                        /\ replay.todo = NumsFrom(Len(got) + Len(replay.out) + 1)

CalmInv == Alone /\ Ascending /\ FreshNumbers /\ KeptFrames /\ Given /\ Travelling /\ Replaying

LEMMA InitCalm == Init => CalmInv
  <1> SUFFICES ASSUME Init PROVE CalmInv
    OBVIOUS
  <1>1. /\ acking = {} /\ replay = None /\ conn = FALSE /\ wire = <<>> /\ got = <<>> /\ log = <<>>
        /\ highest = 0 /\ mark = 0 /\ ackSent = 0
    BY DEF Init
  <1>2. \A s \in Source : ~Storing(s) /\ ~Sending(s)
    BY DEF Init, Append0, Storing, Sending
  <1>3. Alone /\ FreshNumbers
    BY <1>1, <1>2 DEF Alone, FreshNumbers, Appending
  <1>4. Stored = {}
    BY DEF Init, Stored
  <1>5. DOMAIN log = {}
    BY <1>1
  <1>6. Ascending /\ KeptFrames
    BY <1>4, <1>5 DEF Ascending, KeptFrames
  <1>7. Given
    BY <1>1 DEF Given
  <1>8. Travelling
    BY <1>1 DEF Travelling, Follows
  <1>9. Replaying
    BY <1>1 DEF Replaying
  <1> QED
    BY <1>3, <1>6, <1>7, <1>8, <1>9 DEF CalmInv

LEMMA CalmFree ==
  ASSUME calm, Free
  PROVE  up /\ acking = {} /\ replay = None /\ \A s \in Source : ~Appending(s)
  BY DEF Free, InFlight, Appending, Storing, Sending

LEMMA LogTyped ==
  ASSUME Types
  PROVE  /\ DOMAIN log = 1 .. Len(log) /\ Len(log) \in Nat /\ mark \in Nat
         /\ \A i \in DOMAIN log : log[i].num \in Num /\ log[i].num \in Nat /\ log[i].num > 0 /\ log[i].frame \in Frame
  <1>1. log \in Seq(Numbered) /\ mark \in 0 .. MaxFrames /\ MaxFrames \in Nat
    BY DeliveryAssumption DEF Types
  <1>2. \A i \in DOMAIN log : log[i] \in Numbered
    BY <1>1
  <1>3. \A x \in Numbered : x.num \in Num /\ x.num \in Nat /\ x.num > 0 /\ x.frame \in Frame
    BY DeliveryAssumption DEF Numbered, Num
  <1> QED
    BY <1>1, <1>2, <1>3

(* The log up to what the host was given is what its mark covers. *)
LEMMA MarkSplits ==
  ASSUME Types, Ascending, Given
  PROVE  \A i \in DOMAIN log : (log[i].num <= mark) <=> i <= Len(got)
  <1>1. /\ DOMAIN log = 1 .. Len(log) /\ Len(log) \in Nat /\ mark \in Nat
        /\ \A i \in DOMAIN log : log[i].num \in Nat /\ log[i].num > 0
    BY LogTyped
  <1>2. Len(got) \in Nat /\ Len(got) <= Len(log) /\ (got = <<>> <=> Len(got) = 0)
    BY DEF Given
  <1> SUFFICES ASSUME NEW i \in DOMAIN log PROVE (log[i].num <= mark) <=> i <= Len(got)
    OBVIOUS
  <1>3. CASE got = <<>>
    BY <1>1, <1>2, <1>3 DEF Given
  <1>4. CASE got # <<>>
    <2>1. Len(got) \in DOMAIN log /\ mark = log[Len(got)].num
      BY <1>1, <1>2, <1>4 DEF Given
    <2>2. CASE i < Len(got)
      <3>1. log[i].num < log[Len(got)].num
        BY <2>1, <2>2 DEF Ascending
      <3> QED
        BY <1>1, <1>2, <2>1, <2>2, <3>1
    <2>3. CASE i = Len(got)
      BY <1>1, <2>1, <2>3
    <2>4. CASE Len(got) < i
      <3>1. log[Len(got)].num < log[i].num
        BY <2>1, <2>4 DEF Ascending
      <3> QED
        BY <1>1, <1>2, <2>1, <2>4, <3>1
    <2> QED
      BY <1>1, <1>2, <2>2, <2>3, <2>4
  <1> QED
    BY <1>3, <1>4

(* Appends. *)

LEMMA StartCalm ==
  ASSUME calm, IInv, CalmInv, HeadSurvives, NEW s \in Source, Start(s)
  PROVE  CalmInv'
  <1> USE DEF storage, server, client, host, bounds
  <1>0. Types /\ Alone /\ Ascending /\ FreshNumbers /\ KeptFrames /\ Given /\ Travelling /\ Replaying
    BY DEF IInv, CalmInv
  <1>1. up /\ acking = {} /\ replay = None /\ \A r \in Source : ~Appending(r)
    BY CalmFree DEF Start
  <1>2. /\ app' = [app EXCEPT ![s] = [pc |-> "frame", num |-> head + 1, frame |-> made + 1, meta |-> None]]
        /\ UNCHANGED <<frames, acking, replay, conn, highest, wire, mark, got, log, ackSent>>
    BY DEF Start
  <1>3. /\ app'[s].pc = "frame" /\ app'[s].num = head + 1
        /\ \A r \in Source \ {s} : app'[r] = app[r]
    BY <1>0, <1>2 DEF Types
  <1>4. \A r \in Source : ~Sending(r)' /\ (Appending(r)' => r = s) /\ ~Sending(r)
    BY <1>1, <1>3 DEF Appending, Storing, Sending
  <1>5. Alone'
    BY <1>1, <1>2, <1>4 DEF Alone
  <1>6. \A i \in DOMAIN log : log[i].num < head + 1
    <2>1. \A i \in DOMAIN log : log[i].num <= head /\ log[i].num \in Nat
      BY <1>0, <1>1, LogTyped DEF HeadSurvives
    <2>2. head \in Nat
      BY <1>0, DeliveryAssumption DEF Types
    <2> QED
      BY <2>1, <2>2
  <1>7. FreshNumbers'
    <2> SUFFICES ASSUME NEW r \in Source
                 PROVE  /\ Storing(r)' => \A i \in DOMAIN log' : log'[i].num < app'[r].num
                        /\ ~Sending(r)'
      BY DEF FreshNumbers
    <2>1. Storing(r)' => r = s
      BY <1>4 DEF Appending
    <2> QED
      BY <1>2, <1>3, <1>4, <1>6, <2>1
  <1>8. Ascending' /\ Given' /\ Replaying'
    BY <1>0, <1>1, <1>2 DEF Ascending, Given, Replaying
  <1>9. KeptFrames'
    BY <1>0, <1>2 DEF KeptFrames, Stored
  <1>10. Travelling'
    <2>1. Follows(wire)'
      BY <1>0, <1>2 DEF Travelling, Follows
    <2>2. conn => Len(got) + Len(wire) = Len(log)
      BY <1>0, <1>1, <1>4 DEF Travelling
    <2> QED
      BY <1>0, <1>2, <1>4, <2>1, <2>2 DEF Travelling
  <1> QED
    BY <1>5, <1>7, <1>8, <1>9, <1>10 DEF CalmInv

LEMMA PersistCalm ==
  ASSUME calm, IInv, CalmInv, NEW s \in Source, Persist(s)
  PROVE  /\ CalmInv'
         /\ \E e \in Numbered : log' = Append(log, e)
  <1> USE DEF storage, server, client, host, bounds
  <1>0. Types /\ Appends /\ Alone /\ Ascending /\ FreshNumbers /\ KeptFrames /\ Given /\ Travelling /\ Replaying
    BY DEF IInv, CalmInv
  <1>1. /\ app[s].pc = "frame" /\ Store(app[s])
        /\ UNCHANGED <<acking, replay, conn, highest, wire, mark, got, ackSent>>
    BY DEF Persist
  <1>2. app[s].num \in Num /\ app[s].frame \in Frame
    <2>1. app[s].num \in 1 .. head /\ app[s].frame \in Frame /\ head \in 0 .. MaxFrames /\ MaxFrames \in Nat
      BY <1>0, <1>1, DeliveryAssumption DEF Appends, AppendOf, Types
    <2> QED
      BY <2>1 DEF Num
  <1> DEFINE e == [num |-> app[s].num, frame |-> app[s].frame]
  <1>3. e \in Numbered /\ e.num = app[s].num /\ e.frame = app[s].frame
    BY <1>2 DEF Numbered
  <1>4. log' = Append(log, e)
    BY <1>1 DEF Store
  <1>5. /\ Storing(s) /\ Appending(s) /\ acking = {} /\ replay = None
        /\ \A r \in Source : Appending(r) => r = s
    BY <1>0, <1>1 DEF Alone, Appending, Storing
  <1>6. /\ app'[s].pc = "meta" /\ app'[s].num = app[s].num /\ app'[s].frame = app[s].frame
        /\ \A r \in Source \ {s} : app'[r] = app[r]
    <2>1. app' = [app EXCEPT ![s] = [pc |-> "meta", num |-> app[s].num, frame |-> app[s].frame, meta |-> Now]]
      BY <1>0 DEF Persist, Types
    <2> QED
      BY <1>0, <2>1 DEF Types
  <1>7. /\ Stored' = Stored \cup {app[s].num} /\ frames'[app[s].num] = app[s].frame
        /\ \A n \in Num : n # app[s].num => frames'[n] = frames[n]
    <2>1. /\ Stored' = Stored \cup {app[s].num}
          /\ \A n \in Num : n # app[s].num => frames'[n] = frames[n]
      BY <1>0, <1>1, <1>2, StoreStored
    <2>2. frames' = [frames EXCEPT ![app[s].num] = app[s].frame] /\ frames \in [Num -> Frame \cup {None}]
      BY <1>0, <1>1 DEF Store, Types
    <2> QED
      BY <1>2, <2>1, <2>2
  <1>8. /\ DOMAIN log = 1 .. Len(log) /\ Len(log) \in Nat
        /\ \A i \in DOMAIN log : log[i].num \in Num /\ log[i].num < app[s].num
    BY <1>0, <1>5, LogTyped DEF FreshNumbers
  <1> HIDE DEF e
  <1>9. /\ Len(log') = Len(log) + 1 /\ DOMAIN log' = 1 .. Len(log) + 1
        /\ log'[Len(log) + 1] = e /\ \A i \in DOMAIN log : log'[i] = log[i]
    <2>1. log \in Seq(Numbered)
      BY <1>0 DEF Types
    <2> QED
      BY <1>3, <1>4, <2>1
  <1>10. Alone'
    <2>1. \A r \in Source : Appending(r)' => r = s
      BY <1>5, <1>6 DEF Appending, Storing, Sending
    <2> QED
      BY <1>1, <1>5, <2>1 DEF Alone
  <1>11. Ascending'
    <2> SUFFICES ASSUME NEW i \in DOMAIN log', NEW j \in DOMAIN log', i < j
                 PROVE  log'[i].num < log'[j].num
      BY DEF Ascending
    <2>1. i \in DOMAIN log
      BY <1>8, <1>9
    <2>2. CASE j \in DOMAIN log
      BY <1>0, <1>9, <2>1, <2>2 DEF Ascending
    <2>3. CASE j = Len(log) + 1
      BY <1>3, <1>8, <1>9, <2>1, <2>3
    <2> QED
      BY <1>8, <1>9, <2>2, <2>3
  <1>12. FreshNumbers'
    <2>1. \A r \in Source : ~Storing(r)' /\ (Sending(r)' => r = s)
      BY <1>5, <1>6 DEF Appending, Storing, Sending
    <2>2. log' # <<>>
      BY <1>8, <1>9
    <2>3. log'[Len(log')] = [num |-> app'[s].num, frame |-> app'[s].frame]
      BY <1>6, <1>9 DEF e
    <2> QED
      BY <2>1, <2>2, <2>3 DEF FreshNumbers
  <1>13. KeptFrames'
    <2>1. ASSUME NEW i \in DOMAIN log', log'[i].num \in Stored' PROVE frames'[log'[i].num] = log'[i].frame
      <3>1. CASE i \in DOMAIN log
        <4>1. log'[i] = log[i] /\ log[i].num \in Num /\ log[i].num # app[s].num
          BY <1>2, <1>8, <1>9, <3>1 DEF Num
        <4> QED
          BY <1>0, <1>7, <2>1, <3>1, <4>1 DEF KeptFrames
      <3>2. CASE i = Len(log) + 1
        BY <1>3, <1>7, <1>9, <3>2
      <3> QED
        BY <1>8, <1>9, <3>1, <3>2
    <2>2. ASSUME NEW n \in Stored' PROVE \E i \in DOMAIN log' : log'[i].num = n
      <3>1. CASE n \in Stored
        <4>1. PICK i \in DOMAIN log : log[i].num = n
          BY <1>0, <3>1 DEF KeptFrames
        <4>2. i \in DOMAIN log' /\ log'[i] = log[i]
          BY <1>8, <1>9
        <4> QED
          BY <4>1, <4>2
      <3>2. CASE n = app[s].num
        <4>1. Len(log) + 1 \in DOMAIN log'
          BY <1>8, <1>9
        <4> QED
          BY <1>3, <1>9, <3>2, <4>1
      <3> QED
        BY <1>7, <2>2, <3>1, <3>2
    <2>3. ASSUME NEW i \in DOMAIN log', mark' < log'[i].num PROVE log'[i].num \in Stored'
      <3>1. CASE i \in DOMAIN log
        BY <1>0, <1>1, <1>7, <1>9, <2>3, <3>1 DEF KeptFrames
      <3>2. CASE i = Len(log) + 1
        BY <1>3, <1>7, <1>9, <3>2
      <3> QED
        BY <1>8, <1>9, <3>1, <3>2
    <2> QED
      BY <2>1, <2>2, <2>3 DEF KeptFrames
  <1>14. Given'
    <2>1. /\ got \in Seq(Frame) /\ Len(got) <= Len(log) /\ Len(got) \in Nat
          /\ \A i \in 1 .. Len(got) : i \in DOMAIN log /\ got[i] = log[i].frame
          /\ got # <<>> => Len(got) \in DOMAIN log
      BY <1>0, <1>8 DEF Given
    <2>2. got = <<>> \/ log'[Len(got)] = log[Len(got)]
      BY <1>9, <2>1
    <2>3. mark' = IF got = <<>> THEN 0 ELSE log'[Len(got)].num
      BY <1>0, <1>1, <2>2 DEF Given
    <2>4. Len(got) <= Len(log')
      BY <1>8, <1>9, <2>1
    <2>5. \A i \in 1 .. Len(got) : got[i] = log'[i].frame
      BY <1>9, <2>1
    <2> QED
      BY <1>0, <1>1, <2>1, <2>3, <2>4, <2>5 DEF Given
  <1>15. Travelling'
    <2>1. Follows(wire)'
      <3> SUFFICES ASSUME NEW j \in DOMAIN wire
                   PROVE  Len(got) + j <= Len(log') /\ wire[j] = log'[Len(got) + j]
        BY <1>1 DEF Follows
      <3>1. Len(got) + j <= Len(log) /\ wire[j] = log[Len(got) + j]
        BY <1>0 DEF Travelling, Follows
      <3>2. j \in Nat /\ j > 0 /\ Len(got) \in Nat
        BY <1>0 DEF Types, Given
      <3>3. Len(got) + j \in DOMAIN log
        BY <1>8, <3>1, <3>2
      <3> QED
        BY <1>8, <1>9, <3>1, <3>2, <3>3
    <2>2. ~(\E r \in Source : Sending(r)) /\ Sending(s)'
      BY <1>1, <1>5, <1>6 DEF Appending, Sending
    <2>3. conn => Len(got) + Len(wire) = Len(log') - 1
      <3>1. conn => Len(got) + Len(wire) = Len(log)
        BY <1>0, <1>5, <2>2 DEF Travelling
      <3>2. Len(log') - 1 = Len(log)
        BY <1>8, <1>9
      <3> QED
        BY <3>1, <3>2
    <2> QED
      BY <1>0, <1>1, <2>1, <2>2, <2>3 DEF Travelling
  <1>16. Replaying'
    BY <1>1, <1>5 DEF Replaying
  <1> QED
    BY <1>3, <1>4, <1>10, <1>11, <1>12, <1>13, <1>14, <1>15, <1>16 DEF CalmInv

LEMMA FlushCalm ==
  ASSUME calm, IInv, CalmInv, NEW s \in Source, Flush(s)
  PROVE  CalmInv'
  <1> USE DEF storage, server, client, host, bounds
  <1>0. Types /\ Alone /\ Ascending /\ FreshNumbers /\ KeptFrames /\ Given /\ Travelling /\ Replaying
    BY DEF IInv, CalmInv
  <1>1. /\ app[s].pc = "meta" /\ Broadcast(app[s]) /\ app' = [app EXCEPT ![s] = Append0]
        /\ UNCHANGED <<frames, acking, replay, conn, highest, mark, got, log, ackSent>>
    BY DEF Flush
  <1>2. /\ Sending(s) /\ Appending(s) /\ acking = {} /\ replay = None
        /\ \A r \in Source : Appending(r) => r = s
    BY <1>0, <1>1 DEF Alone, Appending, Sending
  <1>3. \A r \in Source : ~Appending(r)' /\ ~Sending(r)' /\ ~Storing(r)'
    <2>1. app'[s].pc = "idle" /\ \A r \in Source \ {s} : app'[r] = app[r]
      BY <1>0, <1>1 DEF Types, Append0
    <2> QED
      BY <1>2, <2>1 DEF Appending, Storing, Sending
  <1>4. Alone' /\ FreshNumbers'
    BY <1>1, <1>2, <1>3 DEF Alone, FreshNumbers
  <1>5. Ascending' /\ Given'
    BY <1>0, <1>1 DEF Ascending, Given
  <1>6. KeptFrames'
    BY <1>0, <1>1 DEF KeptFrames, Stored
  <1>7. Replaying'
    BY <1>1, <1>2 DEF Replaying
  <1> DEFINE e == [num |-> app[s].num, frame |-> app[s].frame]
  <1>8. log # <<>> /\ log[Len(log)] = e
    BY <1>0, <1>2 DEF FreshNumbers
  <1> HIDE DEF e
  <1>9. Travelling'
    <2>1. CASE ~conn
      <3>1. wire' = <<>>
        BY <1>0, <1>1, <2>1 DEF Travelling, Broadcast
      <3> QED
        BY <1>1, <2>1, <3>1 DEF Travelling, Follows
    <2>2. CASE conn
      <3>1. wire' = Append(wire, e) /\ wire \in Seq(Numbered) /\ Len(got) + Len(wire) = Len(log) - 1
        BY <1>0, <1>1, <1>2, <2>2 DEF Travelling, Broadcast, Types, e
      <3>2. Len(got) \in Nat /\ Len(log) \in Nat /\ Len(wire) \in Nat /\ DOMAIN wire = 1 .. Len(wire)
        BY <1>0, <3>1, LogTyped DEF Given
      <3>3. /\ Len(wire') = Len(wire) + 1 /\ DOMAIN wire' = 1 .. Len(wire) + 1
            /\ wire'[Len(wire) + 1] = e /\ \A j \in DOMAIN wire : wire'[j] = wire[j]
        BY <3>1
      <3>4. Follows(wire)'
        <4> SUFFICES ASSUME NEW j \in DOMAIN wire'
                     PROVE  Len(got) + j <= Len(log) /\ wire'[j] = log[Len(got) + j]
          BY <1>1 DEF Follows
        <4>1. CASE j \in DOMAIN wire
          BY <1>0, <3>3, <4>1 DEF Travelling, Follows
        <4>2. CASE j = Len(wire) + 1
          <5>1. Len(got) + j = Len(log)
            BY <3>1, <3>2, <4>2
          <5> QED
            BY <1>8, <3>2, <3>3, <4>2, <5>1
        <4> QED
          BY <3>2, <3>3, <4>1, <4>2
      <3>5. Len(got) + Len(wire') = Len(log)
        BY <3>1, <3>2, <3>3
      <3> QED
        BY <1>1, <1>3, <2>2, <3>4, <3>5 DEF Travelling
    <2> QED
      BY <2>1, <2>2
  <1> QED
    BY <1>4, <1>5, <1>6, <1>7, <1>9 DEF CalmInv

(* The replay of a client. *)

LEMMA ConnectCalm ==
  ASSUME calm, IInv, CalmInv, Connect
  PROVE  CalmInv'
  <1> USE DEF storage, server, client, host, bounds
  <1>0. Types /\ Alone /\ Ascending /\ FreshNumbers /\ KeptFrames /\ Given
    BY DEF IInv, CalmInv
  <1>1. acking = {} /\ \A s \in Source : ~Appending(s)
    BY CalmFree DEF Connect
  <1>2. /\ conn' = TRUE /\ highest' = 0 /\ wire' = <<>>
        /\ replay' = [from |-> mark + 1, listed |-> FALSE, todo |-> {}, out |-> <<>>]
        /\ UNCHANGED <<frames, app, acking, mark, got, log, ackSent>>
    BY DEF Connect, ResumeFrom
  <1>3. mark \in Nat
    BY <1>0, LogTyped
  <1>4. replay' # None
    <2>1. replay' \in [from : Nat, listed : BOOLEAN, todo : SUBSET Nat, out : Seq([num : Nat, frame : Nat])]
      BY <1>2, <1>3
    <2> QED
      BY <2>1, DeliveryAssumption
  <1>5. Alone'
    BY <1>1, <1>2 DEF Alone, Appending, Storing, Sending
  <1>6. Ascending' /\ FreshNumbers'
    BY <1>0, <1>2 DEF Ascending, FreshNumbers, Storing, Sending
  <1>7. KeptFrames'
    BY <1>0, <1>2 DEF KeptFrames, Stored
  <1>8. Given'
    BY <1>0, <1>2, <1>3 DEF Given
  <1>9. Travelling'
    BY <1>2, <1>4 DEF Travelling, Follows
  <1>10. Replaying'
    <2>1. replay'.from = mark + 1 /\ replay'.out = <<>> /\ ~replay'.listed
      BY <1>2
    <2> QED
      BY <1>2, <2>1 DEF Replaying, Follows
  <1> QED
    BY <1>5, <1>6, <1>7, <1>8, <1>9, <1>10 DEF CalmInv

(* A step of the replay touches only the replay and what travels. *)
LEMMA ReplayCalm ==
  ASSUME CalmInv, replay # None,
         UNCHANGED <<frames, app, acking, conn, highest, mark, got, log, ackSent>>,
         Travelling', Replaying'
  PROVE  CalmInv'
  <1>0. Alone /\ Ascending /\ FreshNumbers /\ KeptFrames /\ Given
    BY DEF CalmInv
  <1>1. Alone'
    BY <1>0 DEF Alone, Appending, Storing, Sending
  <1>2. Ascending' /\ FreshNumbers'
    BY <1>0 DEF Ascending, FreshNumbers, Storing, Sending
  <1>3. KeptFrames' /\ Given'
    BY <1>0 DEF KeptFrames, Stored, Given
  <1> QED
    BY <1>1, <1>2, <1>3 DEF CalmInv

LEMMA RangeCalm ==
  ASSUME calm, IInv, CalmInv, Range
  PROVE  CalmInv'
  <1> USE DEF storage, server, client, host, bounds
  <1>0. Types /\ Alone /\ Ascending /\ KeptFrames /\ Given /\ Travelling /\ Replaying
    BY DEF IInv, CalmInv
  <1> DEFINE todo == Listed(replay.from, MaxFrames)
  <1>1. /\ replay # None /\ ~replay.listed
        /\ replay' = IF todo = {} THEN None
                     ELSE [from |-> replay.from, listed |-> TRUE, todo |-> todo, out |-> replay.out]
        /\ UNCHANGED <<frames, app, acking, conn, highest, wire, mark, got, log, ackSent>>
    BY DEF Range
  <1>2. /\ wire = <<>> /\ replay.from = mark + 1 /\ replay.out = <<>> /\ Follows(replay.out) /\ conn
        /\ \A s \in Source : ~Appending(s)
    BY <1>0, <1>1 DEF Replaying, Alone
  <1>3. /\ DOMAIN log = 1 .. Len(log) /\ Len(log) \in Nat /\ mark \in Nat
        /\ \A i \in DOMAIN log : log[i].num \in Num /\ log[i].num \in Nat
    BY <1>0, LogTyped
  <1>4. Len(got) \in Nat /\ Len(got) <= Len(log)
    BY <1>0 DEF Given
  <1>5. \A i \in DOMAIN log : (log[i].num <= mark) <=> i <= Len(got)
    BY <1>0, MarkSplits
  <1>6. todo = NumsFrom(Len(got) + 1)
    <2>1. ASSUME NEW n \in todo PROVE n \in NumsFrom(Len(got) + 1)
      <3>1. n \in Stored /\ mark + 1 <= n /\ n \in Nat
        BY <1>2, <2>1, DeliveryAssumption DEF Listed, Stored, Num
      <3>2. PICK i \in DOMAIN log : log[i].num = n
        BY <1>0, <3>1 DEF KeptFrames
      <3>3. ~(i <= Len(got))
        BY <1>3, <1>5, <3>1, <3>2
      <3>4. i \in Len(got) + 1 .. Len(log)
        BY <1>3, <1>4, <3>3
      <3> QED
        BY <3>2, <3>4 DEF NumsFrom
    <2>2. ASSUME NEW n \in NumsFrom(Len(got) + 1) PROVE n \in todo
      <3>1. PICK i \in Len(got) + 1 .. Len(log) : log[i].num = n
        BY <2>2 DEF NumsFrom
      <3>2. i \in DOMAIN log /\ ~(i <= Len(got))
        BY <1>3, <1>4
      <3>3. mark < n /\ n \in Num /\ n \in Nat
        BY <1>3, <1>5, <3>1, <3>2
      <3>4. n \in Stored
        BY <1>0, <3>1, <3>2, <3>3 DEF KeptFrames
      <3>5. mark + 1 <= n /\ n <= MaxFrames
        BY <1>3, <3>3, DeliveryAssumption DEF Num
      <3> QED
        BY <1>2, <3>4, <3>5 DEF Listed
    <2> QED
      BY <2>1, <2>2
  <1>7. \A s \in Source : ~Sending(s)
    BY <1>2 DEF Appending
  <1> HIDE DEF todo
  <1>8. Travelling'
    <2>1. replay' = None => Len(got) = Len(log)
      <3> SUFFICES ASSUME replay' = None, Len(got) # Len(log) PROVE FALSE
        OBVIOUS
      <3>1. Len(got) + 1 \in Len(got) + 1 .. Len(log)
        BY <1>3, <1>4
      <3>2. log[Len(got) + 1].num \in todo
        BY <1>6, <3>1 DEF NumsFrom
      <3>3. replay' = [from |-> mark + 1, listed |-> TRUE, todo |-> todo, out |-> <<>>]
        BY <1>1, <1>2, <3>2
      <3>4. todo \in SUBSET Nat
        BY <1>6, <1>3, <1>4 DEF NumsFrom
      <3>5. replay' \in [from : Nat, listed : BOOLEAN, todo : SUBSET Nat, out : Seq([num : Nat, frame : Nat])]
        BY <1>3, <3>3, <3>4
      <3> QED
        BY <3>5, DeliveryAssumption
    <2>2. Len(wire') = 0 /\ Len(got') = Len(got) /\ Len(log') = Len(log)
      BY <1>1, <1>2
    <2>3. replay' = None => Len(got') + Len(wire') = Len(log')
      BY <1>4, <2>1, <2>2
    <2>4. \A s \in Source : ~Sending(s)'
      BY <1>1, <1>7 DEF Sending
    <2> QED
      BY <1>1, <1>2, <2>3, <2>4 DEF Travelling, Follows
  <1>9. Replaying'
    <2> SUFFICES ASSUME replay' # None
                 PROVE  /\ wire' = <<>> /\ replay'.from = mark' + 1 /\ Follows(replay.out)'
                        /\ ~replay'.listed => replay'.out = <<>>
                        /\ replay'.listed => /\ replay'.todo # {}
                                             /\ replay'.todo = NumsFrom(Len(got) + Len(replay.out) + 1)'
      BY DEF Replaying
    <2>1. todo # {} /\ replay' = [from |-> mark + 1, listed |-> TRUE, todo |-> todo, out |-> <<>>]
      BY <1>1, <1>2
    <2>2. replay'.from = mark + 1 /\ replay'.listed /\ replay'.todo = todo /\ replay'.out = <<>>
      BY <2>1
    <2>3. Len(got) + Len(replay'.out) + 1 = Len(got) + 1
      BY <1>4, <2>2
    <2>4. replay'.todo = NumsFrom(Len(got) + Len(replay.out) + 1)'
      BY <1>1, <1>6, <2>2, <2>3 DEF NumsFrom
    <2>5. Follows(replay.out)'
      BY <2>2 DEF Follows
    <2> QED
      BY <1>1, <1>2, <2>1, <2>2, <2>4, <2>5
  <1> QED
    BY <1>1, <1>8, <1>9, ReplayCalm

(* A replay gives the next of the log to what follows. *)
LEMMA FollowsOn ==
  ASSUME NEW q \in Seq(Numbered), Follows(q), got \in Seq(Frame), log \in Seq(Numbered),
         Len(got) + Len(q) + 1 <= Len(log)
  PROVE  /\ q \o <<log[Len(got) + Len(q) + 1]>> \in Seq(Numbered)
         /\ Len(q \o <<log[Len(got) + Len(q) + 1]>>) = Len(q) + 1
         /\ Follows(q \o <<log[Len(got) + Len(q) + 1]>>)
  <1> DEFINE p == Len(got) + Len(q) + 1
             r == q \o <<log[p]>>
  <1>1. Len(got) \in Nat /\ Len(q) \in Nat /\ DOMAIN q = 1 .. Len(q) /\ Len(log) \in Nat /\ DOMAIN log = 1 .. Len(log)
    OBVIOUS
  <1>2. p \in DOMAIN log
    BY <1>1
  <1>3. log[p] \in Numbered
    BY <1>2
  <1>4. <<log[p]>> \in Seq(Numbered) /\ Len(<<log[p]>>) = 1
    BY <1>3
  <1> HIDE DEF p
  <1>5. /\ r \in Seq(Numbered) /\ Len(r) = Len(q) + 1 /\ DOMAIN r = 1 .. Len(q) + 1
        /\ \A j \in DOMAIN q : r[j] = q[j]
        /\ r[Len(q) + 1] = log[p]
    BY <1>1, <1>4
  <1> HIDE DEF r
  <1>6. Follows(r)
    <2> SUFFICES ASSUME NEW j \in DOMAIN r PROVE Len(got) + j <= Len(log) /\ r[j] = log[Len(got) + j]
      BY DEF Follows
    <2>1. CASE j \in DOMAIN q
      BY <1>5, <2>1 DEF Follows
    <2>2. CASE j = Len(q) + 1
      <3>1. Len(got) + j = p
        BY <1>1, <2>2 DEF p
      <3> QED
        BY <1>1, <1>2, <1>5, <2>2, <3>1
    <2> QED
      BY <1>1, <1>5, <2>1, <2>2
  <1> QED
    BY <1>5, <1>6 DEF p, r

LEMMA SeqOfMore ==
  ASSUME NEW S, NEW T, S \subseteq T, NEW q \in Seq(S)
  PROVE  q \in Seq(T)
  OBVIOUS

LEMMA GetCalm ==
  ASSUME calm, IInv, CalmInv, Get
  PROVE  CalmInv'
  <1> USE DEF storage, server, client, host, bounds
  <1>0. Types /\ Alone /\ Ascending /\ KeptFrames /\ Given /\ Travelling /\ Replaying
    BY DEF IInv, CalmInv
  <1>1. /\ replay # None /\ replay.listed
        /\ UNCHANGED <<frames, app, acking, conn, highest, mark, got, log, ackSent>>
    BY DEF Get
  <1>2. PICK n \in replay.todo :
          /\ \A k \in replay.todo : n <= k
          /\ IF replay.todo = {n}
             THEN wire' = wire \o replay.out \o Found(n) /\ replay' = None
             ELSE /\ replay' = [from |-> replay.from, listed |-> TRUE,
                                todo |-> replay.todo \ {n}, out |-> replay.out \o Found(n)]
                  /\ UNCHANGED wire
    BY DEF Get
  <1>3. /\ wire = <<>> /\ replay.from = mark + 1 /\ Follows(replay.out) /\ conn
        /\ \A s \in Source : ~Appending(s)
    BY <1>0, <1>1 DEF Replaying, Alone
  <1>4. replay.out \in Seq(Numbered)
    BY <1>0, <1>1 DEF Types, ReplayRecord
  <1> DEFINE p == Len(got) + Len(replay.out) + 1
  <1>5. replay.todo = NumsFrom(p)
    BY <1>0, <1>1 DEF Replaying
  <1>6. /\ DOMAIN log = 1 .. Len(log) /\ Len(log) \in Nat /\ log \in Seq(Numbered)
        /\ \A i \in DOMAIN log : log[i].num \in Num /\ log[i].num \in Nat
    BY <1>0, LogTyped DEF Types
  <1>7. Len(got) \in Nat /\ Len(replay.out) \in Nat /\ got \in Seq(Frame)
    BY <1>0, <1>4 DEF Given
  <1>8. p \in Nat /\ p > Len(got) /\ p > 0
    BY <1>7
  <1> HIDE DEF p
  <1>9. p \in DOMAIN log
    <2>1. PICK i \in p .. Len(log) : log[i].num = n
      BY <1>2, <1>5 DEF NumsFrom
    <2> QED
      BY <1>6, <1>8, <2>1
  <1>10. n = log[p].num
    <2>1. PICK i \in p .. Len(log) : log[i].num = n
      BY <1>2, <1>5 DEF NumsFrom
    <2>2. log[p].num \in replay.todo
      BY <1>5, <1>6, <1>8, <1>9 DEF NumsFrom
    <2>3. n <= log[p].num
      BY <1>2, <2>2
    <2>4. i \in DOMAIN log
      BY <1>6, <1>8, <2>1
    <2>5. CASE p < i
      <3>1. log[p].num < log[i].num
        BY <1>0, <1>9, <2>4, <2>5 DEF Ascending
      <3> QED
        BY <1>6, <1>9, <2>1, <2>3, <2>4, <3>1
    <2> QED
      BY <1>8, <2>1, <2>5
  <1>11. Found(n) = <<log[p]>>
    <2>1. mark < log[p].num
      <3>1. ~(log[p].num <= mark)
        BY <1>0, <1>6, <1>7, <1>8, <1>9, MarkSplits
      <3> QED
        BY <1>0, <1>6, <1>9, <3>1, LogTyped
    <2>2. n \in Stored /\ frames[n] = log[p].frame
      BY <1>0, <1>9, <1>10, <2>1 DEF KeptFrames
    <2>3. Found(n) = <<[num |-> n, frame |-> frames[n]]>>
      BY <2>2 DEF Found, Stored
    <2>4. log[p] \in Numbered
      BY <1>6, <1>9
    <2>5. log[p] = [num |-> log[p].num, frame |-> log[p].frame]
      BY <2>4 DEF Numbered
    <2> QED
      BY <1>10, <2>2, <2>3, <2>5
  <1> DEFINE out == replay.out \o <<log[p]>>
  <1>12. out \in Seq(Numbered) /\ Len(out) = Len(replay.out) + 1 /\ Follows(out)
    <2>1. Len(got) + Len(replay.out) + 1 <= Len(log)
      BY <1>6, <1>9 DEF p
    <2> QED
      BY <1>3, <1>4, <1>6, <1>7, <2>1, FollowsOn DEF p
  <1>13. Len(got) + Len(out) = p
    BY <1>7, <1>12 DEF p
  <1>14. replay.todo \ {n} = NumsFrom(p + 1)
    <2>1. ASSUME NEW m \in replay.todo, m # n PROVE m \in NumsFrom(p + 1)
      <3>1. PICK i \in p .. Len(log) : log[i].num = m
        BY <1>5, <2>1 DEF NumsFrom
      <3>2. i \in p + 1 .. Len(log)
        BY <1>6, <1>8, <1>10, <2>1, <3>1
      <3> QED
        BY <3>1, <3>2 DEF NumsFrom
    <2>2. ASSUME NEW m \in NumsFrom(p + 1) PROVE m \in replay.todo /\ m # n
      <3>1. PICK i \in p + 1 .. Len(log) : log[i].num = m
        BY <2>2 DEF NumsFrom
      <3>2. i \in p .. Len(log) /\ i \in DOMAIN log /\ p < i
        BY <1>6, <1>8, <3>1
      <3>3. log[p].num < log[i].num
        BY <1>0, <1>9, <3>2 DEF Ascending
      <3> QED
        BY <1>5, <1>6, <1>9, <1>10, <3>1, <3>2, <3>3 DEF NumsFrom
    <2> QED
      BY <2>1, <2>2
  <1>15. \A s \in Source : ~Sending(s)'
    BY <1>1, <1>3 DEF Appending, Sending
  <1> HIDE DEF out
  <1>16. CASE replay.todo = {n}
    <2>1. wire' = wire \o replay.out \o <<log[p]>> /\ replay' = None
      BY <1>2, <1>11, <1>16
    <2>2. wire \o replay.out = replay.out
      BY <1>3, <1>4
    <2>3. wire' = out
      BY <2>1, <2>2 DEF out
    <2>4. p = Len(log)
      <3> SUFFICES ASSUME p # Len(log) PROVE FALSE
        OBVIOUS
      <3>1. p + 1 \in p + 1 .. Len(log)
        <4>1. p \in 1 .. Len(log) /\ Len(log) \in Nat /\ p \in Nat
          BY <1>6, <1>8, <1>9
        <4>2. p < Len(log)
          BY <4>1
        <4> QED
          BY <4>1, <4>2
      <3>2. log[p + 1].num \in NumsFrom(p + 1)
        BY <3>1 DEF NumsFrom
      <3> QED
        BY <1>14, <1>16, <3>2
    <2>5. Len(got') + Len(wire') = Len(log')
      BY <1>1, <1>13, <2>3, <2>4
    <2>6. Follows(wire)'
      BY <1>1, <1>12, <2>3 DEF Follows
    <2>7. Travelling'
      BY <1>1, <1>3, <1>15, <2>5, <2>6 DEF Travelling
    <2>8. Replaying'
      BY <2>1 DEF Replaying
    <2> QED
      BY <1>0, <1>1, <2>7, <2>8, ReplayCalm DEF CalmInv
  <1>17. CASE replay.todo # {n}
    <2>1. /\ replay' = [from |-> mark + 1, listed |-> TRUE, todo |-> NumsFrom(p + 1), out |-> out]
          /\ wire' = wire
      BY <1>2, <1>3, <1>11, <1>14, <1>17 DEF out
    <2>2. replay' # None
      <3>1. NumsFrom(p + 1) \in SUBSET Nat
        BY <1>6, <1>8 DEF NumsFrom
      <3>2. out \in Seq([num : Nat, frame : Nat])
        <4>1. Numbered \subseteq [num : Nat, frame : Nat]
          BY DeliveryAssumption DEF Numbered, Num, Frame
        <4> QED
          BY <1>12, <4>1, SeqOfMore
      <3>3. mark + 1 \in Nat
        BY <1>0, LogTyped
      <3>4. replay' \in [from : Nat, listed : BOOLEAN, todo : SUBSET Nat, out : Seq([num : Nat, frame : Nat])]
        BY <2>1, <3>1, <3>2, <3>3
      <3> QED
        BY <3>4, DeliveryAssumption
    <2>3. Travelling'
      <3>1. Follows(wire)'
        BY <1>3, <2>1 DEF Follows
      <3> QED
        BY <1>1, <1>3, <2>2, <3>1 DEF Travelling
    <2>4. Replaying'
      <3>1. replay'.from = mark + 1 /\ replay'.listed /\ replay'.todo = NumsFrom(p + 1) /\ replay'.out = out
        BY <2>1
      <3>2. Follows(replay.out)'
        BY <1>1, <1>12, <3>1 DEF Follows
      <3>3. replay'.todo # {}
        BY <1>2, <1>14, <1>17, <3>1
      <3>4. Len(got') + Len(replay'.out) + 1 = p + 1
        BY <1>1, <1>13, <3>1
      <3>5. replay'.todo = NumsFrom(Len(got) + Len(replay.out) + 1)'
        BY <1>1, <3>1, <3>4 DEF NumsFrom
      <3> QED
        BY <1>1, <1>3, <2>1, <3>1, <3>2, <3>3, <3>5 DEF Replaying
    <2> QED
      BY <1>0, <1>1, <2>3, <2>4, ReplayCalm DEF CalmInv
  <1> QED
    BY <1>16, <1>17

(* Acknowledgements. *)

LEMMA AckUpToCalm ==
  ASSUME calm, IInv, CalmInv, NEW n \in Num, AckUpTo(n)
  PROVE  CalmInv'
  <1> USE DEF storage, server, client, host, bounds
  <1>0. Types /\ Alone /\ Ascending /\ FreshNumbers /\ KeptFrames /\ Given /\ Travelling /\ Replaying
    BY DEF IInv, CalmInv
  <1>1. replay = None /\ \A s \in Source : ~Appending(s)
    BY CalmFree DEF AckUpTo
  <1>2. /\ n \in 1 .. mark /\ ackSent' = Greatest(ackSent, n)
        /\ UNCHANGED <<frames, app, replay, conn, highest, wire, mark, got, log>>
    BY DEF AckUpTo
  <1>3. ackSent' <= mark
    BY <1>0, <1>2, LogTyped DEF Greatest, Given
  <1>4. Alone'
    BY <1>0, <1>1, <1>2 DEF Alone, Appending, Storing, Sending
  <1>5. Ascending' /\ FreshNumbers'
    BY <1>0, <1>2 DEF Ascending, FreshNumbers, Storing, Sending
  <1>6. KeptFrames' /\ Given'
    BY <1>0, <1>2, <1>3 DEF KeptFrames, Stored, Given
  <1>7. Travelling' /\ Replaying'
    BY <1>0, <1>1, <1>2 DEF Travelling, Follows, Sending, Replaying
  <1> QED
    BY <1>4, <1>5, <1>6, <1>7 DEF CalmInv

(* What an acknowledgement deletes the host was given. *)
LEMMA AckStepCalm ==
  ASSUME calm, IInv, CalmInv, AckStep
  PROVE  CalmInv'
  <1> USE DEF storage, server, client, host, bounds
  <1>0. Types /\ Alone /\ Ascending /\ FreshNumbers /\ KeptFrames /\ Given /\ Travelling /\ Replaying
    BY DEF IInv, CalmInv
  <1>1. /\ acking # {}
        /\ UNCHANGED <<app, replay, conn, highest, wire, mark, got, log, ackSent>>
    BY DEF AckStep, AckRange, AckDelete, AckFlush
  <1>2. \A k \in Num : frames'[k] = frames[k] \/ (frames'[k] = None /\ k <= mark)
    <2>1. CASE frames' = frames
      BY <2>1
    <2>2. ASSUME NEW a \in acking, NEW n \in a.todo, frames' = [frames EXCEPT ![n] = None]
          PROVE  \A k \in Num : frames'[k] = frames[k] \/ (frames'[k] = None /\ k <= mark)
      <3>1. n <= a.to /\ a.to <= ackSent /\ a.to \in Nat /\ n \in Num
        BY DeliveryAssumption DEF IInv, Acks, AckOf, Types, AckRecord
      <3>2. ackSent \in Nat /\ ackSent <= mark /\ mark \in Nat /\ n \in Nat
        BY <1>0, <3>1, DeliveryAssumption DEF Types, Given, Num
      <3>3. n <= mark
        BY <3>1, <3>2
      <3>4. frames \in [Num -> Frame \cup {None}]
        BY <1>0 DEF Types
      <3> QED
        BY <2>2, <3>1, <3>3, <3>4
    <2> QED
      BY <2>1, <2>2 DEF AckStep, AckRange, AckDelete, AckFlush
  <1>3. Stored' \subseteq Stored /\ \A k \in Stored' : frames'[k] = frames[k]
    BY <1>2 DEF Stored
  <1>4. KeptFrames'
    <2>1. \A i \in DOMAIN log : mark < log[i].num => log[i].num \in Stored'
      <3> SUFFICES ASSUME NEW i \in DOMAIN log, mark < log[i].num PROVE log[i].num \in Stored'
        OBVIOUS
      <3>1. log[i].num \in Stored /\ log[i].num \in Num /\ ~(log[i].num <= mark)
        BY <1>0, LogTyped DEF KeptFrames
      <3>2. frames'[log[i].num] = frames[log[i].num]
        BY <1>2, <3>1
      <3> QED
        BY <3>1, <3>2 DEF Stored
    <2>2. \A i \in DOMAIN log : log[i].num \in Stored' => frames'[log[i].num] = log[i].frame
      BY <1>0, <1>3 DEF KeptFrames
    <2>3. \A n \in Stored' : \E i \in DOMAIN log : log[i].num = n
      BY <1>0, <1>3 DEF KeptFrames
    <2> QED
      BY <1>1, <2>1, <2>2, <2>3 DEF KeptFrames
  <1>5. Alone'
    <2>1. replay = None /\ \A s \in Source : ~Appending(s)
      BY <1>0, <1>1 DEF Alone
    <2> QED
      BY <1>1, <2>1 DEF Alone, Appending, Storing, Sending
  <1>6. Ascending' /\ FreshNumbers' /\ Given'
    BY <1>0, <1>1 DEF Ascending, FreshNumbers, Storing, Sending, Given
  <1>7. Travelling' /\ Replaying'
    BY <1>0, <1>1 DEF Travelling, Follows, Sending, Replaying, NumsFrom
  <1> QED
    BY <1>4, <1>5, <1>6, <1>7 DEF CalmInv

(* The client. *)

(* What the host is given next is the next of the log. *)
LEMMA ReceiveCalm ==
  ASSUME calm, IInv, CalmInv, Receive
  PROVE  /\ CalmInv'
         /\ Len(got) < Len(log) /\ got' = Append(got, log[Len(got) + 1].frame)
  <1> USE DEF storage, server, client, host, bounds
  <1>0. Types /\ Alone /\ Ascending /\ FreshNumbers /\ KeptFrames /\ Given /\ Travelling /\ Replaying
    BY DEF IInv, CalmInv
  <1>1. /\ wire # <<>> /\ wire \in Seq(Numbered) /\ wire' = Tail(wire)
        /\ UNCHANGED <<calm, frames, app, acking, replay, conn, log, ackSent>>
    BY <1>0 DEF Receive, Types
  <1>2. conn /\ replay = None
    BY <1>0, <1>1 DEF Travelling, Replaying
  <1> DEFINE f == log[Len(got) + 1]
  <1>3. /\ DOMAIN log = 1 .. Len(log) /\ Len(log) \in Nat /\ mark \in Nat
        /\ \A i \in DOMAIN log : log[i].num \in Num /\ log[i].num \in Nat /\ log[i].frame \in Frame
    BY <1>0, LogTyped
  <1>4. got \in Seq(Frame) /\ Len(got) \in Nat
    BY <1>0 DEF Given
  <1>5. Len(wire) \in Nat /\ Len(wire) > 0 /\ DOMAIN wire = 1 .. Len(wire) /\ Head(wire) = wire[1]
    BY <1>1
  <1>6. Len(got) + 1 <= Len(log) /\ Head(wire) = f
    BY <1>0, <1>5 DEF Travelling, Follows
  <1>7. Len(got) + 1 \in DOMAIN log
    BY <1>3, <1>4, <1>6
  <1>8. f.num \in Nat /\ f.frame \in Frame
    BY <1>3, <1>7
  <1>9. mark < f.num
    <2>1. ~(f.num <= mark)
      BY <1>0, <1>4, <1>7, MarkSplits
    <2> QED
      BY <1>3, <1>8, <2>1
  <1>10. ~(f.num <= highest)
    <2>1. highest \in Nat /\ highest <= mark
      BY <1>0, DeliveryAssumption DEF Types, Given
    <2> QED
      BY <1>3, <1>8, <1>9, <2>1
  <1>11. highest' = f.num /\ mark' = f.num /\ got' = Append(got, f.frame)
    <2>1. highest' = f.num /\ mark' = Greatest(mark, f.num) /\ got' = Append(got, f.frame)
      BY <1>6, <1>10 DEF Receive
    <2> QED
      BY <1>9, <2>1 DEF Greatest
  <1> HIDE DEF f
  <1>12. /\ got' \in Seq(Frame) /\ Len(got') = Len(got) + 1 /\ got' # <<>>
         /\ got'[Len(got) + 1] = f.frame /\ \A i \in 1 .. Len(got) : got'[i] = got[i]
    BY <1>4, <1>8, <1>11
  <1>13. Alone' /\ Ascending' /\ FreshNumbers'
    BY <1>0, <1>1 DEF Alone, Ascending, FreshNumbers, Appending, Storing, Sending
  <1>14. KeptFrames'
    <2>1. ASSUME NEW i \in DOMAIN log, mark' < log[i].num PROVE log[i].num \in Stored
      <3>1. log[i].num \in Nat
        BY <1>3
      <3>2. mark < log[i].num
        BY <1>3, <1>8, <1>9, <1>11, <2>1, <3>1
      <3> QED
        BY <1>0, <3>2 DEF KeptFrames
    <2> QED
      BY <1>0, <1>1, <2>1 DEF KeptFrames, Stored
  <1>15. Given'
    <2>1. \A i \in 1 .. Len(got') : got'[i] = log[i].frame
      <3> SUFFICES ASSUME NEW i \in 1 .. Len(got) + 1 PROVE got'[i] = log[i].frame
        BY <1>12
      <3>1. CASE i \in 1 .. Len(got)
        BY <1>0, <1>12, <3>1 DEF Given
      <3>2. CASE i = Len(got) + 1
        BY <1>12, <3>2 DEF f
      <3> QED
        BY <1>4, <3>1, <3>2
    <2>2. mark' = log'[Len(got')].num
      BY <1>1, <1>11, <1>12 DEF f
    <2>3. highest' <= mark'
      BY <1>8, <1>11
    <2>4. ackSent <= mark'
      <3>1. ackSent \in Nat /\ ackSent <= mark
        BY <1>0, DeliveryAssumption DEF Types, Given
      <3> QED
        BY <1>3, <1>8, <1>9, <1>11, <3>1
    <2>5. Len(got') <= Len(log)
      BY <1>6, <1>12
    <2> QED
      BY <1>1, <1>12, <2>1, <2>2, <2>3, <2>4, <2>5 DEF Given
  <1>16. Travelling'
    <2>1. /\ Len(wire') = Len(wire) - 1 /\ DOMAIN wire' = 1 .. Len(wire) - 1
          /\ \A j \in DOMAIN wire' : wire'[j] = wire[j + 1]
      BY <1>1, <1>5
    <2>2. Follows(wire)'
      <3> SUFFICES ASSUME NEW j \in DOMAIN wire'
                   PROVE  Len(got') + j <= Len(log) /\ wire'[j] = log[Len(got') + j]
        BY <1>1 DEF Follows
      <3>1. j \in Nat /\ j + 1 \in DOMAIN wire
        BY <1>5, <2>1
      <3>2. Len(got) + (j + 1) <= Len(log) /\ wire[j + 1] = log[Len(got) + (j + 1)]
        BY <1>0, <3>1 DEF Travelling, Follows
      <3>3. Len(got') + j = Len(got) + (j + 1)
        BY <1>4, <1>12, <3>1
      <3> QED
        BY <2>1, <3>2, <3>3
    <2>3. Len(got') + Len(wire') = Len(got) + Len(wire)
      BY <1>4, <1>5, <1>12, <2>1
    <2>4. \A s \in Source : Sending(s)' <=> Sending(s)
      BY <1>1 DEF Sending
    <2>5. Len(got) + Len(wire) = IF \E s \in Source : Sending(s) THEN Len(log) - 1 ELSE Len(log)
      BY <1>0, <1>2 DEF Travelling
    <2>6. Len(got') + Len(wire') = IF \E s \in Source : Sending(s)' THEN Len(log') - 1 ELSE Len(log')
      BY <1>1, <2>3, <2>4, <2>5
    <2> QED
      BY <1>1, <1>2, <2>2, <2>6 DEF Travelling
  <1>17. Replaying'
    BY <1>1, <1>2 DEF Replaying
  <1>18. Len(got) < Len(log)
    BY <1>3, <1>4, <1>6
  <1> QED
    BY <1>11, <1>13, <1>14, <1>15, <1>16, <1>17, <1>18 DEF CalmInv, f

(* A connection lost, with or without its server, takes what travelled along. *)
LEMMA HangupCalm ==
  ASSUME calm, IInv, CalmInv, Disconnect \/ Crash
  PROVE  CalmInv' /\ UNCHANGED <<got, log>>
  <1> USE DEF storage, server, client, host, bounds
  <1>0. Types /\ Alone /\ Ascending /\ FreshNumbers /\ KeptFrames /\ Given
    BY DEF IInv, CalmInv
  <1>1. /\ conn' = FALSE /\ wire' = <<>> /\ highest' = 0 /\ replay' = None
        /\ UNCHANGED <<frames, mark, got, log, ackSent>>
    BY DEF Disconnect, Crash, Hangup
  <1>2. acking' \subseteq acking /\ \A s \in Source : app'[s] = app[s] \/ app'[s].pc = "idle"
    <2>1. CASE Disconnect
      BY <2>1 DEF Disconnect
    <2>2. CASE Crash
      <3>1. acking' = {} /\ app' = [s \in Source |-> Append0] /\ Append0.pc = "idle"
        BY <2>2 DEF Crash, Append0
      <3> QED
        BY <3>1
    <2> QED
      BY <2>1, <2>2
  <1>3. \A s \in Source : (Storing(s)' => Storing(s) /\ app'[s] = app[s]) /\ (Sending(s)' => Sending(s) /\ app'[s] = app[s])
    BY <1>2 DEF Storing, Sending
  <1>4. Alone'
    BY <1>0, <1>1, <1>2, <1>3 DEF Alone, Appending
  <1>5. Ascending'
    BY <1>0, <1>1 DEF Ascending
  <1>6. FreshNumbers'
    BY <1>0, <1>1, <1>3 DEF FreshNumbers
  <1>7. KeptFrames'
    BY <1>0, <1>1 DEF KeptFrames, Stored
  <1>8. Given'
    BY <1>0, <1>1, LogTyped DEF Given
  <1>9. Travelling' /\ Replaying'
    BY <1>1 DEF Travelling, Follows, Replaying
  <1> QED
    BY <1>1, <1>4, <1>5, <1>6, <1>7, <1>8, <1>9 DEF CalmInv

(* A calm step: the invariant stays, and nothing, the log or the host moves on. *)
CalmStep ==
  /\ CalmInv' /\ calm'
  /\ \/ UNCHANGED <<got, log>>
     \/ \E e \in Numbered : log' = Append(log, e) /\ got' = got
     \/ /\ Len(got) < Len(log) /\ log' = log
        /\ got' = Append(got, log[Len(got) + 1].frame)

LEMMA NextCalm ==
  ASSUME calm, IInv, CalmInv, HeadSurvives, [Next]_vars
  PROVE  CalmStep
  <1> USE DEF storage, server, client, host, bounds
  <1>1. ASSUME NEW s \in Source, Start(s) PROVE CalmStep
    <2>1. UNCHANGED <<calm, got, log>>
      BY <1>1 DEF Start
    <2> QED
      BY <1>1, <2>1, StartCalm DEF CalmStep
  <1>2. ASSUME NEW s \in Source, Persist(s) PROVE CalmStep
    <2>1. UNCHANGED <<calm, got>>
      BY <1>2 DEF Persist
    <2> QED
      BY <1>2, <2>1, PersistCalm DEF CalmStep
  <1>3. ASSUME NEW s \in Source, Flush(s) PROVE CalmStep
    <2>1. UNCHANGED <<calm, got, log>>
      BY <1>3 DEF Flush
    <2> QED
      BY <1>3, <2>1, FlushCalm DEF CalmStep
  <1>4. CASE Connect \/ Range \/ Get
    <2>1. UNCHANGED <<calm, got, log>>
      BY <1>4 DEF Connect, Range, Get
    <2> QED
      BY <1>4, <2>1, ConnectCalm, RangeCalm, GetCalm DEF CalmStep
  <1>5. ASSUME NEW n \in Num, AckUpTo(n) PROVE CalmStep
    <2>1. UNCHANGED <<calm, got, log>>
      BY <1>5 DEF AckUpTo
    <2> QED
      BY <1>5, <2>1, AckUpToCalm DEF CalmStep
  <1>6. CASE AckStep
    <2>1. UNCHANGED <<calm, got, log>>
      BY <1>6 DEF AckStep, AckRange, AckDelete, AckFlush
    <2> QED
      BY <1>6, <2>1, AckStepCalm DEF CalmStep
  <1>7. CASE Receive
    <2>1. UNCHANGED <<calm, log>>
      BY <1>7 DEF Receive
    <2> QED
      BY <1>7, <2>1, ReceiveCalm DEF CalmStep
  <1>8. CASE Disconnect \/ Crash
    <2>1. UNCHANGED calm
      BY <1>8 DEF Disconnect, Crash
    <2> QED
      BY <1>8, <2>1, HangupCalm DEF CalmStep
  <1>9. CASE Listen \/ UNCHANGED vars
    <2>1. UNCHANGED <<calm, frames, app, acking, replay, conn, highest, wire, mark, got, log, ackSent>>
      BY <1>9 DEF Listen, vars
    <2>2. Alone' /\ Ascending' /\ FreshNumbers' /\ KeptFrames' /\ Given'
      BY <2>1 DEF CalmInv, Alone, Ascending, FreshNumbers, KeptFrames, Given, Appending, Storing, Sending, Stored
    <2>3. Travelling' /\ Replaying'
      BY <2>1 DEF CalmInv, Travelling, Follows, Sending, Replaying, NumsFrom
    <2> QED
      BY <2>1, <2>2, <2>3 DEF CalmStep, CalmInv
  <1>10. /\ \A s \in Source : ~AppendFails(s)
         /\ ~ReplayFails /\ \A a \in acking : ~AckFails(a)
    BY DEF AppendFails, ReplayFails, AckFails, Fault
  <1>11. \/ \E s \in Source : Start(s) \/ Persist(s) \/ Flush(s)
         \/ Connect \/ Range \/ Get \/ \E n \in Num : AckUpTo(n)
         \/ AckStep \/ Receive \/ Disconnect \/ Crash \/ Listen \/ UNCHANGED vars
    BY <1>10 DEF Next, AppendStep
  <1> QED
    BY <1>1, <1>2, <1>3, <1>4, <1>5, <1>6, <1>7, <1>8, <1>9, <1>11

(* In a behaviour that is not calm both sides of the promise stay empty. *)
CalmOrNot == calm => CalmInv

LEMMA FramesAppend ==
  ASSUME NEW l \in Seq(Numbered), NEW e \in Numbered
  PROVE  Frames(Append(l, e)) = Append(Frames(l), e.frame)
  <1>1. /\ Frames(l) \in Seq(Frame) /\ Len(Frames(l)) = Len(l)
        /\ \A i \in 1 .. Len(l) : Frames(l)[i] = l[i].frame
    <2>1. Len(l) \in Nat /\ DOMAIN l = 1 .. Len(l) /\ \A i \in 1 .. Len(l) : l[i] \in Numbered
      OBVIOUS
    <2>2. \A x \in Numbered : x.frame \in Frame
      BY DEF Numbered
    <2>3. Frames(l) = [i \in 1 .. Len(l) |-> l[i].frame]
      BY <2>1 DEF Frames
    <2>4. \A i \in 1 .. Len(l) : l[i].frame \in Frame
      BY <2>1, <2>2
    <2> QED
      BY <2>1, <2>3, <2>4
  <1>2. /\ Len(Append(l, e)) = Len(l) + 1 /\ DOMAIN Append(l, e) = 1 .. Len(l) + 1
        /\ Append(l, e)[Len(l) + 1] = e /\ \A i \in 1 .. Len(l) : Append(l, e)[i] = l[i]
    OBVIOUS
  <1>3. e.frame \in Frame
    BY DEF Numbered
  <1> DEFINE a == Frames(Append(l, e))
             b == Append(Frames(l), e.frame)
  <1>4. a = [i \in 1 .. Len(l) + 1 |-> Append(l, e)[i].frame]
    BY <1>2 DEF Frames
  <1>5. /\ Len(b) = Len(l) + 1 /\ b \in Seq(Frame)
        /\ b[Len(l) + 1] = e.frame /\ \A i \in 1 .. Len(l) : b[i] = l[i].frame
    BY <1>1, <1>3
  <1> HIDE DEF a, b
  <1>6. b = [i \in 1 .. Len(l) + 1 |-> b[i]]
    BY <1>5
  <1>7. \A i \in 1 .. Len(l) + 1 : b[i] = Append(l, e)[i].frame
    <2> SUFFICES ASSUME NEW i \in 1 .. Len(l) + 1 PROVE b[i] = Append(l, e)[i].frame
      OBVIOUS
    <2>1. CASE i \in 1 .. Len(l)
      BY <1>2, <1>5, <2>1
    <2>2. CASE i = Len(l) + 1
      BY <1>2, <1>5, <2>2
    <2> QED
      BY <2>1, <2>2
  <1>8. a = b
    BY <1>4, <1>6, <1>7
  <1> QED
    BY <1>8 DEF a, b

LEMMA PromiseInit == Init => Promise!Init
  <1> SUFFICES ASSUME Init PROVE Promise!Init
    OBVIOUS
  <1>1. log = <<>> /\ got = <<>>
    BY DEF Init
  <1>2. Frames(log) = <<>>
    BY <1>1 DEF Frames
  <1> QED
    BY <1>1, <1>2 DEF Promise!Init

LEMMA PromiseStep ==
  ASSUME IInv, CalmOrNot, calm => HeadSurvives, [Next]_vars
  PROVE  /\ CalmOrNot'
         /\ [Promise!Next]_<<IF calm THEN Frames(log) ELSE <<>>, IF calm THEN got ELSE <<>>>>
  <1>1. CASE ~calm
    <2>1. calm' = calm
      BY DEF Next, vars, Start, AppendStep, Persist, Flush, AppendFails, Connect, Range, Get, ReplayFails,
             AckUpTo, AckStep, AckRange, AckDelete, AckFlush, AckFails, Receive, Disconnect, Crash, Listen
    <2> QED
      BY <1>1, <2>1 DEF CalmOrNot
  <1>2. CASE calm
    <2>1. /\ CalmInv' /\ calm'
          /\ \/ UNCHANGED <<got, log>>
             \/ \E e \in Numbered : log' = Append(log, e) /\ got' = got
             \/ /\ Len(got) < Len(log) /\ log' = log
                /\ got' = Append(got, log[Len(got) + 1].frame)
      BY <1>2, NextCalm DEF CalmOrNot, CalmStep
    <2>2. log \in Seq(Numbered) /\ got \in Seq(Frame)
      BY <1>2 DEF IInv, Types, CalmOrNot, CalmInv, Given
    <2>3. CASE UNCHANGED <<got, log>>
      BY <1>2, <2>1, <2>3 DEF CalmOrNot, Frames
    <2>4. ASSUME NEW e \in Numbered, log' = Append(log, e), got' = got
          PROVE  Promise!Next
      <3>1. Frames(log') = Append(Frames(log), e.frame) /\ e.frame \in Frame
        BY <2>2, <2>4, FramesAppend DEF Numbered
      <3>2. Promise!Send(e.frame)
        BY <1>2, <2>1, <2>4, <3>1 DEF Promise!Send
      <3> QED
        BY <3>1, <3>2 DEF Promise!Next
    <2>5. ASSUME Len(got) < Len(log), log' = log, got' = Append(got, log[Len(got) + 1].frame)
          PROVE  Promise!Next
      <3>1. Len(got) \in Nat /\ Len(log) \in Nat /\ DOMAIN log = 1 .. Len(log)
        BY <2>2
      <3>2. Frames(log) = [i \in 1 .. Len(log) |-> log[i].frame]
        BY <3>1 DEF Frames
      <3>3. Len(Frames(log)) = Len(log) /\ Frames(log)[Len(got) + 1] = log[Len(got) + 1].frame
        BY <2>5, <3>1, <3>2
      <3>4. Frames(log') = Frames(log)
        BY <2>5
      <3>5. Promise!Deliver
        BY <1>2, <2>1, <2>5, <3>3, <3>4 DEF Promise!Deliver
      <3> QED
        BY <3>5 DEF Promise!Next
    <2> QED
      BY <1>2, <2>1, <2>3, <2>4, <2>5 DEF CalmOrNot
  <1> QED
    BY <1>1, <1>2

(* While storage calls neither overlap nor fail, and no restart takes the head
   below a number handed out (durable-outbound-queue.ts:24-26), the host is
   given what was kept, once and in order: whatever connections and servers
   are lost (agent-ipc-server.ts:161-166). *)
THEOREM DeliversWhileHeadSurvives == Spec /\ [](calm => HeadSurvives) => DeliversInOrder
  <1>1. IInv /\ [Next]_vars => IInv'
    BY NextInv
  <1>2. Init => CalmOrNot
    BY InitCalm DEF CalmOrNot
  <1>3. IInv /\ CalmOrNot /\ (calm => HeadSurvives) /\ [Next]_vars =>
          /\ CalmOrNot'
          /\ [Promise!Next]_<<IF calm THEN Frames(log) ELSE <<>>, IF calm THEN got ELSE <<>>>>
    BY PromiseStep
  <1> QED
    BY InitInv, PromiseInit, <1>1, <1>2, <1>3, PTL DEF Spec, Safety, DeliversInOrder, Promise!Spec

-----------------------------------------------------------------------------
(* The head survives one crash: until the first, storage knows every number
   that was logged, by the frame itself or by the meta document. *)

MetaFollows ==
  /\ (\A s \in Source : ~Appending(s)) => meta.head = head
  /\ \A s \in Source : Sending(s) => app[s].meta.head = head
  /\ \A a \in acking : a.pc = "meta" => a.meta.head = head

HeadInv ==
  /\ crashes \in Nat /\ (crashes = 0 => up) /\ HeadSurvives
  /\ crashes = 0 \/ ~up => \A i \in DOMAIN log : log[i].num \in Stored \/ log[i].num <= meta.head
  /\ crashes = 0 => MetaFollows

LEMMA InitHead == Init => HeadInv
  <1> SUFFICES ASSUME Init PROVE HeadInv
    OBVIOUS
  <1>1. DOMAIN log = {}
    BY DEF Init
  <1>2. meta.head = head /\ acking = {} /\ \A s \in Source : ~Sending(s)
    BY DEF Init, Append0, Sending
  <1>3. crashes = 0 /\ up
    BY DEF Init
  <1> QED
    BY <1>1, <1>2, <1>3 DEF HeadInv, HeadSurvives, MetaFollows

LEMMA AppendHead ==
  ASSUME calm, IInv, CalmInv, HeadInv, NEW s \in Source, Start(s) \/ Persist(s) \/ Flush(s)
  PROVE  HeadInv'
  <1> USE DEF storage, server, client, host, bounds
  <1>0. Types /\ Below /\ Appends /\ Alone /\ KeptFrames
    BY DEF IInv, CalmInv
  <1>1. UNCHANGED <<up, acking, crashes>> /\ acking = {} /\ up
    <2>1. CASE Start(s)
      BY <2>1, CalmFree DEF Start
    <2>2. CASE Persist(s) \/ Flush(s)
      BY <1>0, <2>2 DEF Persist, Flush, Alone, Appending, Storing, Sending, Appends, AppendOf
    <2> QED
      BY <2>1, <2>2
  <1>2. head \in Nat /\ \A i \in DOMAIN log : log[i].num \in Nat
    BY <1>0, LogTyped, DeliveryAssumption DEF Types
  <1>3. CASE Start(s)
    <2>1. /\ head' = head + 1 /\ UNCHANGED <<frames, meta, log>>
          /\ app' = [app EXCEPT ![s] = [pc |-> "frame", num |-> head + 1, frame |-> made + 1, meta |-> None]]
      BY <1>3 DEF Start
    <2>2. Storing(s)' /\ \A r \in Source : ~Sending(r)'
      <3>1. \A r \in Source : ~Appending(r)
        BY <1>3, CalmFree DEF Start
      <3>2. app'[s].pc = "frame" /\ \A r \in Source \ {s} : app'[r] = app[r]
        BY <1>0, <2>1 DEF Types
      <3> QED
        BY <3>1, <3>2 DEF Appending, Storing, Sending
    <2>3. MetaFollows'
      BY <1>1, <2>2 DEF MetaFollows, Appending
    <2>4. HeadSurvives'
      BY <1>1, <1>2, <2>1 DEF HeadInv, HeadSurvives
    <2> QED
      BY <1>1, <2>1, <2>3, <2>4 DEF HeadInv, Stored
  <1>4. CASE Persist(s)
    <2>1. /\ app[s].pc = "frame" /\ Store(app[s]) /\ UNCHANGED <<meta, head>>
          /\ app' = [app EXCEPT ![s] = [pc |-> "meta", num |-> @.num, frame |-> @.frame, meta |-> Now]]
      BY <1>4 DEF Persist
    <2>2. app[s].num \in 1 .. head /\ app[s].num \in Num /\ app[s].frame \in Frame
      BY <1>0, <2>1, DeliveryAssumption DEF Appends, AppendOf, Types, Num
    <2>3. Stored' = Stored \cup {app[s].num}
      BY <1>0, <2>1, <2>2, StoreStored
    <2>4. \A i \in DOMAIN log' : (i \in DOMAIN log /\ log'[i] = log[i]) \/ log'[i].num = app[s].num
      <3>1. log \in Seq(Numbered) /\ log' = Append(log, [num |-> app[s].num, frame |-> app[s].frame])
        BY <1>0, <2>1 DEF Types, Store
      <3> QED
        BY <3>1
    <2>5. HeadSurvives'
      BY <1>1, <1>2, <2>1, <2>2, <2>4 DEF HeadInv, HeadSurvives
    <2>6. Sending(s)' /\ app'[s].meta = Now /\ \A r \in Source : Sending(r)' => r = s
      <3>1. app'[s].pc = "meta" /\ app'[s].meta = Now /\ \A r \in Source \ {s} : app'[r] = app[r]
        BY <1>0, <2>1 DEF Types
      <3>2. \A r \in Source : Appending(r) => r = s
        BY <1>0, <2>1 DEF Alone, Appending, Storing
      <3> QED
        BY <3>1, <3>2 DEF Appending, Sending
    <2>7. Now.head = head
      BY DEF Now
    <2>8. MetaFollows'
      BY <1>1, <2>1, <2>6, <2>7 DEF MetaFollows, Appending
    <2>9. crashes = 0 => \A i \in DOMAIN log' : log'[i].num \in Stored' \/ log'[i].num <= meta'.head
      BY <2>1, <2>3, <2>4 DEF HeadInv
    <2> QED
      BY <1>1, <2>5, <2>8, <2>9 DEF HeadInv
  <1>5. CASE Flush(s)
    <2>1. /\ app[s].pc = "meta" /\ meta' = app[s].meta /\ app' = [app EXCEPT ![s] = Append0]
          /\ UNCHANGED <<frames, head, log>>
      BY <1>5 DEF Flush
    <2>2. crashes = 0 => meta'.head = head
      BY <2>1 DEF HeadInv, MetaFollows, Sending
    <2>3. \A r \in Source : ~Sending(r)'
      <3>1. app'[s].pc = "idle" /\ \A r \in Source \ {s} : app'[r] = app[r]
        BY <1>0, <2>1 DEF Types, Append0
      <3>2. \A r \in Source : Appending(r) => r = s
        BY <1>0, <2>1 DEF Alone, Appending, Sending
      <3> QED
        BY <3>1, <3>2 DEF Appending, Sending
    <2>4. crashes = 0 => MetaFollows'
      BY <1>1, <2>1, <2>2, <2>3 DEF MetaFollows
    <2>5. HeadSurvives'
      BY <1>1, <2>1 DEF HeadInv, HeadSurvives
    <2>6. crashes = 0 => \A i \in DOMAIN log' : log'[i].num <= meta'.head
      BY <1>1, <2>1, <2>2, <2>5 DEF HeadSurvives
    <2> QED
      BY <1>1, <2>4, <2>5, <2>6 DEF HeadInv
  <1> QED
    BY <1>3, <1>4, <1>5

LEMMA AckHead ==
  ASSUME calm, IInv, CalmInv, HeadInv, AckStep \/ \E n \in Num : AckUpTo(n)
  PROVE  HeadInv'
  <1> USE DEF storage, server, client, host, bounds
  <1>0. Types /\ Alone /\ KeptFrames /\ Acks
    BY DEF IInv, CalmInv
  <1>1. /\ UNCHANGED <<up, head, app, log, crashes>> /\ up
        /\ \A s \in Source : ~Appending(s)
    <2>1. CASE AckStep
      <3>1. acking # {} /\ UNCHANGED <<up, head, app, log, crashes>>
        BY <2>1 DEF AckStep, AckRange, AckDelete, AckFlush
      <3> QED
        BY <1>0, <3>1 DEF Alone, Acks, AckOf
    <2>2. ASSUME NEW n \in Num, AckUpTo(n)
          PROVE  /\ UNCHANGED <<up, head, app, log, crashes>> /\ up
                 /\ \A s \in Source : ~Appending(s)
      BY <2>2, CalmFree DEF AckUpTo
    <2> QED
      BY <2>1, <2>2
  <1>2. HeadSurvives'
    BY <1>1 DEF HeadInv, HeadSurvives
  <1>3. ASSUME crashes = 0 PROVE MetaFollows'
    <2>1. meta.head = head /\ Now.head = head
      BY <1>1, <1>3 DEF HeadInv, MetaFollows, Now
    <2>2. \A a \in acking : a.pc = "meta" => a.meta.head = head
      BY <1>3 DEF HeadInv, MetaFollows
    <2>3. ASSUME NEW a \in acking, NEW todo, Deleting(a, todo).pc = "meta"
          PROVE  Deleting(a, todo).meta.head = head
      <3>1. PICK f0 \in 1 .. MaxFrames + 1, t0 \in 0 .. MaxFrames, p0 \in {"list", "delete", "meta"},
                 d0 \in SUBSET Num, m0 \in Meta \cup {None} :
              a = [from |-> f0, to |-> t0, pc |-> p0, todo |-> d0, meta |-> m0]
        BY <1>0 DEF Types, AckRecord
      <3>2. CASE todo = {}
        <4>1. Deleting(a, todo) = [from |-> f0, to |-> t0, pc |-> "meta", todo |-> {}, meta |-> Now]
          BY <3>1, <3>2 DEF Deleting
        <4> QED
          BY <2>1, <4>1
      <3>3. CASE todo # {}
        <4>1. Deleting(a, todo) = [from |-> f0, to |-> t0, pc |-> "delete", todo |-> todo, meta |-> m0]
          BY <3>1, <3>3 DEF Deleting
        <4> QED
          BY <2>3, <4>1
      <3> QED
        BY <3>2, <3>3
    <2>4. meta'.head = head /\ \A a \in acking' : a.pc = "meta" => a.meta.head = head
      <3>1. ASSUME NEW a \in acking, AckRange(a) \/ AckDelete(a)
            PROVE  meta'.head = head /\ \A b \in acking' : b.pc = "meta" => b.meta.head = head
        <4>1. meta' = meta /\ \E todo : acking' = (acking \ {a}) \cup {Deleting(a, todo)}
          BY <3>1 DEF AckRange, AckDelete
        <4> QED
          BY <2>1, <2>2, <2>3, <4>1
      <3>2. ASSUME NEW a \in acking, AckFlush(a)
            PROVE  meta'.head = head /\ \A b \in acking' : b.pc = "meta" => b.meta.head = head
        BY <2>2, <3>2 DEF AckFlush
      <3>3. ASSUME NEW n \in Num, AckUpTo(n)
            PROVE  meta'.head = head /\ \A b \in acking' : b.pc = "meta" => b.meta.head = head
        <4> DEFINE a0 == [from |-> acked + 1, to |-> Least(n, head), pc |-> "list",
                          todo |-> {}, meta |-> None]
        <4>1. meta' = meta /\ acking' = acking \cup {a0}
          BY <3>3 DEF AckUpTo
        <4>2. a0.pc = "list"
          OBVIOUS
        <4> HIDE DEF a0
        <4> QED
          BY <2>1, <2>2, <4>1, <4>2
      <3> QED
        BY <3>1, <3>2, <3>3 DEF AckStep
    <2> QED
      BY <1>1, <2>4 DEF MetaFollows, Sending, Appending
  <1>4. crashes = 0 => \A i \in DOMAIN log' : log'[i].num <= meta'.head
    <2>1. crashes = 0 => meta'.head = head
      BY <1>1, <1>3 DEF MetaFollows, Appending, Storing, Sending
    <2> QED
      BY <1>1, <2>1 DEF HeadInv, HeadSurvives
  <1> QED
    BY <1>1, <1>2, <1>3, <1>4 DEF HeadInv

LEMMA RestartHead ==
  ASSUME MaxCrashes \in 0 .. 1, IInv, HeadInv, Crash \/ Listen
  PROVE  HeadInv'
  <1> USE DEF storage, server, client, host, bounds
  <1>0. Types
    BY DEF IInv
  <1>1. CASE Crash
    <2>1. /\ crashes < MaxCrashes /\ crashes' = crashes + 1 /\ ~up'
          /\ UNCHANGED <<frames, meta, log>>
      BY <1>1 DEF Crash
    <2>2. crashes = 0 /\ crashes' \in Nat /\ crashes' # 0
      BY <2>1 DEF HeadInv
    <2> QED
      BY <2>1, <2>2 DEF HeadInv, HeadSurvives, Stored
  <1>2. CASE Listen
    <2>1. ~up /\ up' /\ crashes' = crashes /\ UNCHANGED <<frames, meta, log>> /\ Recovered(head')
      BY <1>2 DEF Listen
    <2>2. crashes # 0
      BY <2>1 DEF HeadInv
    <2>3. \A i \in DOMAIN log : log[i].num <= head'
      <3> SUFFICES ASSUME NEW i \in DOMAIN log PROVE log[i].num <= head'
        OBVIOUS
      <3>1. /\ log[i].num \in Nat /\ meta.head \in Nat /\ head' \in 0 .. MaxFrames /\ head' \in Nat
        BY <1>0, <1>2, LogTyped, DeliveryAssumption DEF Types, Meta, Listen
      <3>2. log[i].num \in Stored \/ log[i].num <= meta.head
        BY <2>1 DEF HeadInv
      <3>3. meta.head <= head' /\ \A n \in Stored : n <= head'
        BY <2>1 DEF Recovered
      <3> QED
        BY <3>1, <3>2, <3>3
    <2> QED
      BY <2>1, <2>2, <2>3 DEF HeadInv, HeadSurvives
  <1> QED
    BY <1>1, <1>2

LEMMA NextHead ==
  ASSUME MaxCrashes \in 0 .. 1, calm, IInv, CalmInv, HeadInv, [Next]_vars
  PROVE  HeadInv'
  <1> USE DEF storage, server, client, host, bounds
  <1>1. ASSUME NEW s \in Source, Start(s) \/ Persist(s) \/ Flush(s) PROVE HeadInv'
    BY <1>1, AppendHead
  <1>2. CASE AckStep \/ \E n \in Num : AckUpTo(n)
    BY <1>2, AckHead
  <1>3. CASE Crash \/ Listen
    BY <1>3, RestartHead
  <1>4. CASE Connect \/ Range \/ Get \/ Receive \/ Disconnect \/ UNCHANGED vars
    <2>1. UNCHANGED <<frames, meta, up, head, app, acking, log, crashes>>
      BY <1>4 DEF Connect, Range, Get, Receive, Disconnect, vars
    <2>2. HeadSurvives' /\ (MetaFollows <=> MetaFollows')
      BY <2>1 DEF HeadInv, HeadSurvives, MetaFollows, Appending, Storing, Sending
    <2> QED
      BY <2>1, <2>2 DEF HeadInv, Stored
  <1>5. /\ \A s \in Source : ~AppendFails(s)
        /\ ~ReplayFails /\ \A a \in acking : ~AckFails(a)
    BY DEF AppendFails, ReplayFails, AckFails, Fault
  <1>6. \/ \E s \in Source : Start(s) \/ Persist(s) \/ Flush(s)
        \/ Connect \/ Range \/ Get \/ \E n \in Num : AckUpTo(n)
        \/ AckStep \/ Receive \/ Disconnect \/ Crash \/ Listen \/ UNCHANGED vars
    BY <1>5 DEF Next, AppendStep
  <1> QED
    BY <1>1, <1>2, <1>3, <1>4, <1>6

(* One crash never takes the head back (durable-outbound-queue.ts:24-34); two
   may: a frame whose meta document a crash cut off is found again, then
   acknowledged and deleted, and a crash before the next meta document leaves
   nothing that knows its number. *)
THEOREM HeadSurvivesOneCrash ==
  ASSUME MaxCrashes \in 0 .. 1
  PROVE  Spec => [](calm => HeadSurvives)
  <1> DEFINE Held == calm => CalmInv /\ HeadInv
  <1>1. IInv /\ [Next]_vars => IInv'
    BY NextInv
  <1>2. Init => Held
    BY InitCalm, InitHead
  <1>3. IInv /\ Held /\ [Next]_vars => Held'
    <2> SUFFICES ASSUME IInv, Held, [Next]_vars, calm' PROVE CalmInv' /\ HeadInv'
      OBVIOUS
    <2>1. CASE calm
      BY <2>1, NextCalm, NextHead DEF HeadInv, CalmStep
    <2>2. CASE ~calm
      <3>1. calm' = calm
        BY DEF Next, vars, Start, AppendStep, Persist, Flush, AppendFails, Connect, Range, Get, ReplayFails,
               AckUpTo, AckStep, AckRange, AckDelete, AckFlush, AckFails, Receive, Disconnect, Crash, Listen
      <3> QED
        BY <2>2, <3>1
    <2> QED
      BY <2>1, <2>2
  <1>4. Held => (calm => HeadSurvives)
    BY DEF HeadInv
  <1> HIDE DEF Held
  <1> QED
    BY InitInv, <1>1, <1>2, <1>3, <1>4, PTL DEF Spec, Safety

(* Calm behaviours with at most one crash implement OrderedDelivery. *)
THEOREM InOrderOverOneCrash ==
  ASSUME MaxCrashes \in 0 .. 1
  PROVE  Spec => DeliversInOrder
  BY HeadSurvivesOneCrash, DeliversWhileHeadSurvives, PTL

-----------------------------------------------------------------------------
(* The webhook receiver. *)

Requests == [pc : {"free", "body", "handler"}, id : Msg \cup {NoTime}, ts : Time]

LEMMA NoRequestTyped == NoRequest \in Requests
  BY DEF NoRequest, Requests, Time

LEMMA AttemptTyped ==
  ASSUME NEW m \in Msg, NEW t \in Int
  PROVE  Attempt(m, t) \in Requests
  BY DEF Attempt, Requests, Time

LEMMA PrunedTyped ==
  ASSUME seen \in [Msg -> Nat \cup {NoTime}]
  PROVE  Pruned \in [Msg -> Nat \cup {NoTime}]
  BY DEF Pruned

LEMMA ReceiverTypeInit == ReceiverInit => ReceiverTypeOK
  BY NoRequestTyped DEF ReceiverInit, ReceiverTypeOK, Requests, NoRequest, Running

(* The request of r ends, and with it its handler if it ran one. *)
LEMMA Freed ==
  ASSUME ReceiverTypeOK, NEW r \in Request, req[r].pc # "free", NEW s \in Int, Reply(r, s)
  PROVE  /\ req' \in [Request -> Requests]
         /\ \A q \in Request : req'[q].pc # "free" => req'[q].id \in Msg
         /\ answered' \subseteq Msg
         /\ Running' = Running \ {r}
         /\ \A q \in Running' : req'[q] = req[q]
  <1>1. req' = [req EXCEPT ![r] = NoRequest]
    BY DEF Reply, Answer, Lost
  <1>2. answered' \subseteq Msg
    BY DEF Reply, Answer, Lost, ReceiverTypeOK
  <1>3. NoRequest.pc = "free"
    BY DEF NoRequest
  <1> QED
    BY <1>1, <1>2, <1>3, NoRequestTyped DEF ReceiverTypeOK, Requests, Running

(* A request comes in. *)
LEMMA Arrived ==
  ASSUME ReceiverTypeOK, NEW r \in Request, NEW m \in Msg, NEW t \in Int, Arrive(r, m, t)
  PROVE  ReceiverTypeOK'
  <1>1. /\ req' = [req EXCEPT ![r] = Attempt(m, t)] /\ req[r].pc = "free"
        /\ UNCHANGED <<clock, open, seen, inFlight, answered, done>>
    BY DEF Arrive
  <1>2. Attempt(m, t).pc = "body" /\ Attempt(m, t).id = m
    BY DEF Attempt
  <1>3. req' \in [Request -> Requests] /\ Running' = Running
    BY <1>1, <1>2, AttemptTyped DEF ReceiverTypeOK, Requests, Running
  <1>4. \A q \in Running : req'[q] = req[q]
    BY <1>1 DEF ReceiverTypeOK, Running
  <1>5. inFlight' = {req'[q].id : q \in Running'}
    BY <1>1, <1>3, <1>4 DEF ReceiverTypeOK
  <1>6. \A q \in Request : req'[q].pc # "free" => req'[q].id \in Msg
    BY <1>1, <1>2 DEF ReceiverTypeOK
  <1> QED
    BY <1>1, <1>3, <1>4, <1>5, <1>6 DEF ReceiverTypeOK, Requests

LEMMA ReceiverTypeStep == ReceiverTypeOK /\ [ReceiverNext]_receiverVars => ReceiverTypeOK'
  <1> SUFFICES ASSUME ReceiverTypeOK, [ReceiverNext]_receiverVars PROVE ReceiverTypeOK'
    OBVIOUS
  <1>1. ASSUME NEW m \in Msg, Try(m) PROVE ReceiverTypeOK'
    BY <1>1, Arrived DEF Try, ReceiverTypeOK
  <1>2. CASE Post
    <2>1. PICK r \in Request, m \in Msg, t \in -Skew .. MaxTime + Skew : Arrive(r, m, t)
      BY <1>2 DEF Post
    <2>2. t \in Int
      BY <2>1, ReceiverAssumption
    <2> QED
      BY <2>1, <2>2, Arrived
  <1>3. ASSUME NEW r \in Request, Serve(r) PROVE ReceiverTypeOK'
    <2>1. CASE Refuse(r)
      <3>1. req[r].pc = "body" /\ Reply(r, 401) /\ r \notin Running
        BY <2>1 DEF Refuse, Running
      <3> QED
        BY <2>1, <3>1, Freed DEF Refuse, ReceiverTypeOK, Requests
    <2>2. CASE Duplicate(r)
      <3>1. req[r].pc = "body" /\ (Reply(r, 200) \/ Reply(r, 409)) /\ r \notin Running
        BY <2>2 DEF Duplicate, Running
      <3> QED
        BY <2>2, <3>1, Freed, PrunedTyped DEF Duplicate, ReceiverTypeOK, Requests
    <2>3. CASE Dispatch(r)
      <3>1. /\ req' = [req EXCEPT ![r].pc = "handler"] /\ req[r].pc = "body"
            /\ req[r].id \in Msg \ inFlight
        BY <2>3 DEF Dispatch, ReceiverTypeOK
      <3>2. /\ req' \in [Request -> Requests] /\ Running' = Running \cup {r}
            /\ \A q \in Request : req'[q].id = req[q].id
        BY <3>1 DEF ReceiverTypeOK, Requests, Running
      <3>3. \A q \in Running : req[q].id # req[r].id
        BY <3>1 DEF ReceiverTypeOK
      <3>4. inFlight' = {req'[q].id : q \in Running'}
        BY <2>3, <3>2 DEF Dispatch, ReceiverTypeOK, Running
      <3>5. \A p, q \in Running' : req'[p].id = req'[q].id => p = q
        BY <3>2, <3>3 DEF ReceiverTypeOK, Running
      <3>6. \A q \in Request : req'[q].pc # "free" => req'[q].id \in Msg
        BY <3>1, <3>2 DEF ReceiverTypeOK
      <3> QED
        BY <2>3, <3>2, <3>4, <3>5, <3>6, PrunedTyped DEF Dispatch, ReceiverTypeOK, Requests
    <2>4. CASE Handled(r) \/ Throws(r)
      <3>1. /\ r \in Running /\ inFlight' = inFlight \ {req[r].id}
            /\ Reply(r, 204) \/ Reply(r, 500)
        BY <2>4 DEF Handled, Throws, Running
      <3>2. /\ req' \in [Request -> Requests]
            /\ \A q \in Request : req'[q].pc # "free" => req'[q].id \in Msg
            /\ answered' \subseteq Msg /\ Running' = Running \ {r}
            /\ \A q \in Running' : req'[q] = req[q]
        BY <3>1, Freed DEF Running
      <3>3. inFlight' = {req'[q].id : q \in Running'}
        BY <3>1, <3>2 DEF ReceiverTypeOK
      <3>4. /\ clock' = clock /\ open' = open
            /\ seen' \in [Msg -> Nat \cup {NoTime}] /\ done' \subseteq Completion
        <4>1. req[r].id \in Msg /\ req[r].ts \in Time /\ clock \in Time
          BY <3>1 DEF ReceiverTypeOK, Running, Time
        <4> QED
          BY <2>4, <4>1 DEF Handled, Throws, ReceiverTypeOK, Completion
      <3> QED
        BY <3>2, <3>3, <3>4 DEF ReceiverTypeOK, Requests
    <2> QED
      BY <1>3, <2>1, <2>2, <2>3, <2>4 DEF Serve
  <1>4. CASE Close
    <2>1. open' \in BOOLEAN /\ UNCHANGED <<clock, seen, inFlight, req, answered, done>>
      BY <1>4 DEF Close
    <2> QED
      BY <2>1 DEF ReceiverTypeOK, Running
  <1>5. CASE Tick
    <2>1. clock' \in Nat /\ UNCHANGED <<open, seen, inFlight, req, answered, done>>
      BY <1>5 DEF Tick, ReceiverTypeOK
    <2> QED
      BY <2>1 DEF ReceiverTypeOK, Running
  <1>6. CASE UNCHANGED receiverVars
    BY <1>6 DEF receiverVars, ReceiverTypeOK, Running
  <1> QED
    BY <1>1, <1>2, <1>3, <1>4, <1>5, <1>6 DEF ReceiverNext

(* Every reachable state is type correct, and the ids in flight are those of
   the running handlers, one handler to an id (webhook-receiver.ts:360-378). *)
THEOREM ReceiverTypeCorrect == ReceiverSafety => []ReceiverTypeOK
  BY ReceiverTypeInit, ReceiverTypeStep, PTL DEF ReceiverSafety

-----------------------------------------------------------------------------
(* The argument for HandledOnce: nothing is remembered or handled in the
   future, and what was handled is remembered, at least as late, until twice
   the window has gone by. *)
NotAhead ==
  /\ \A d \in done : d.at <= clock
  /\ \A m \in Msg : seen[m] # NoTime => seen[m] <= clock
Remembered ==
  \A d \in done : \/ seen[d.id] # NoTime /\ seen[d.id] >= d.at
                  \/ clock > d.at + 2 * Tolerance
ReceiverInv == ReceiverTypeOK /\ NotAhead /\ Remembered

LEMMA RememberedInit == ReceiverInit => NotAhead /\ Remembered
  BY DEF ReceiverInit, NotAhead, Remembered

(* Forgetting the old ids keeps what is remembered. *)
LEMMA PrunedKeeps ==
  ASSUME ReceiverInv, UNCHANGED <<clock, done>>, seen' = Pruned
  PROVE  NotAhead' /\ Remembered'
  <1>1. \A m \in Msg : seen'[m] # NoTime => seen'[m] = seen[m]
    BY DEF Pruned
  <1>2. NotAhead'
    BY <1>1 DEF ReceiverInv, NotAhead
  <1>3. ASSUME NEW d \in done
        PROVE  \/ seen'[d.id] # NoTime /\ seen'[d.id] >= d.at
               \/ clock > d.at + 2 * Tolerance
    <2>1. d.id \in Msg /\ d.at \in Int /\ clock \in Int /\ Tolerance \in Int
      BY ReceiverAssumption DEF ReceiverInv, ReceiverTypeOK, Completion, Time
    <2>2. CASE seen[d.id] # NoTime /\ seen[d.id] >= d.at
      <3>1. seen[d.id] \in Nat
        BY <2>1, <2>2 DEF ReceiverInv, ReceiverTypeOK
      <3>2. CASE Kept(seen[d.id])
        BY <2>1, <2>2, <3>2 DEF Pruned
      <3>3. CASE ~Kept(seen[d.id])
        BY <2>1, <2>2, <3>1, <3>3 DEF Kept
      <3> QED
        BY <3>2, <3>3
    <2> QED
      BY <2>2 DEF ReceiverInv, Remembered
  <1> QED
    BY <1>2, <1>3 DEF Remembered

LEMMA ReceiverInvStep == ReceiverInv /\ [ReceiverNext]_receiverVars => ReceiverInv'
  <1> SUFFICES ASSUME ReceiverInv, [ReceiverNext]_receiverVars PROVE ReceiverInv'
    OBVIOUS
  <1>1. ReceiverTypeOK'
    BY ReceiverTypeStep DEF ReceiverInv
  <1>2. ASSUME NEW r \in Request, Handled(r) PROVE NotAhead' /\ Remembered'
    <2>1. /\ clock' = clock /\ clock \in Nat /\ req[r].id \in Msg
          /\ seen' = [seen EXCEPT ![req[r].id] = clock]
          /\ done' = done \cup {[id |-> req[r].id, ts |-> req[r].ts, at |-> clock]}
      BY <1>2 DEF Handled, ReceiverInv, ReceiverTypeOK
    <2>2. seen'[req[r].id] = clock /\ clock # NoTime
      BY <2>1, ReceiverAssumption DEF ReceiverInv, ReceiverTypeOK
    <2>3. \A m \in Msg \ {req[r].id} : seen'[m] = seen[m]
      BY <2>1 DEF ReceiverInv, ReceiverTypeOK
    <2>4. NotAhead'
      BY <2>1, <2>2, <2>3 DEF ReceiverInv, NotAhead
    <2>5. ASSUME NEW d \in done'
          PROVE  \/ seen'[d.id] # NoTime /\ seen'[d.id] >= d.at
                 \/ clock' > d.at + 2 * Tolerance
      <3>1. CASE d.id = req[r].id
        <4>1. d.at <= clock
          BY <2>1 DEF ReceiverInv, NotAhead
        <4> QED
          BY <2>1, <2>2, <3>1, <4>1 DEF ReceiverInv, ReceiverTypeOK, Completion, Time
      <3>2. CASE d.id # req[r].id
        <4>1. d \in done /\ d.id \in Msg
          BY <2>1, <3>2 DEF ReceiverInv, ReceiverTypeOK, Completion
        <4> QED
          BY <2>1, <2>3, <3>2, <4>1 DEF ReceiverInv, Remembered
      <3> QED
        BY <3>1, <3>2
    <2> QED
      BY <2>4, <2>5 DEF Remembered
  <1>3. ASSUME NEW r \in Request, Duplicate(r) \/ Dispatch(r)
        PROVE  NotAhead' /\ Remembered'
    BY <1>3, PrunedKeeps DEF Duplicate, Dispatch
  <1>4. ASSUME Tick PROVE NotAhead' /\ Remembered'
    <2>1. /\ clock' = clock + 1 /\ clock \in Nat /\ Tolerance \in Nat
          /\ UNCHANGED <<seen, done>>
      BY <1>4, ReceiverAssumption DEF Tick, ReceiverInv, ReceiverTypeOK
    <2>2. \A d \in done : d.at \in Int
      BY DEF ReceiverInv, ReceiverTypeOK, Completion, Time
    <2>3. \A m \in Msg : seen[m] # NoTime => seen[m] \in Nat
      BY DEF ReceiverInv, ReceiverTypeOK
    <2> QED
      BY <2>1, <2>2, <2>3 DEF ReceiverInv, NotAhead, Remembered
  <1>5. ASSUME UNCHANGED <<clock, seen, done>> PROVE NotAhead' /\ Remembered'
    BY <1>5 DEF ReceiverInv, NotAhead, Remembered
  <1>6. ASSUME NEW r \in Request, Serve(r) PROVE NotAhead' /\ Remembered'
    BY <1>2, <1>3, <1>5, <1>6 DEF Serve, Refuse, Throws
  <1>7. ASSUME Post \/ \E m \in Msg : Try(m) PROVE NotAhead' /\ Remembered'
    BY <1>5, <1>7 DEF Post, Try, Arrive
  <1>8. ASSUME Close \/ UNCHANGED receiverVars PROVE NotAhead' /\ Remembered'
    BY <1>5, <1>8 DEF Close, receiverVars
  <1> QED
    BY <1>1, <1>4, <1>6, <1>7, <1>8 DEF ReceiverNext, ReceiverInv

(* A step of a request whose body was read starts a handler only as Dispatch. *)
LEMMA OnlyDispatch ==
  ASSUME ReceiverInv, [ReceiverNext]_receiverVars, NEW r \in Request, req[r].pc = "body", req'[r].pc = "handler"
  PROVE  Dispatch(r)
  <1>1. ASSUME NEW q \in Request, NEW m \in Msg, NEW t, Arrive(q, m, t) PROVE FALSE
    BY <1>1 DEF Arrive, Attempt, ReceiverInv, ReceiverTypeOK
  <1>2. ASSUME NEW q \in Request, NEW s, Reply(q, s) PROVE FALSE
    BY <1>2 DEF Reply, Answer, Lost, NoRequest, ReceiverInv, ReceiverTypeOK
  <1>3. ASSUME NEW q \in Request, Dispatch(q) PROVE q = r
    BY <1>3 DEF Dispatch, ReceiverInv, ReceiverTypeOK
  <1>4. ASSUME NEW q \in Request, Serve(q) PROVE Dispatch(r)
    BY <1>2, <1>3, <1>4 DEF Serve, Refuse, Duplicate, Handled, Throws
  <1>5. ~Post /\ ~(\E m \in Msg : Try(m))
    BY <1>1 DEF Post, Try
  <1>6. ~Close /\ ~Tick /\ ~UNCHANGED receiverVars
    BY DEF Close, Tick, receiverVars
  <1> QED
    BY <1>4, <1>5, <1>6 DEF ReceiverNext

(* Once a handler has handled an id, only an attempt stamped more than the
   tolerance later starts one for it again (webhook-receiver.ts:332-340,
   350-379). *)
THEOREM HandlesOnce == ReceiverSafety => HandledOnce
  <1> DEFINE Step ==
        \A r \in Request : req[r].pc = "body" /\ req'[r].pc = "handler" =>
          \A d \in done : d.id = req[r].id => req[r].ts > d.at + Tolerance
  <1>1. ReceiverInit => ReceiverInv
    BY ReceiverTypeInit, RememberedInit DEF ReceiverInv
  <1>2. ReceiverInv /\ [ReceiverNext]_receiverVars => Step
    <2> SUFFICES ASSUME ReceiverInv, [ReceiverNext]_receiverVars, NEW r \in Request,
                        req[r].pc = "body", req'[r].pc = "handler",
                        NEW d \in done, d.id = req[r].id
                 PROVE  req[r].ts > d.at + Tolerance
      OBVIOUS
    <2>1. Fresh(req[r].ts) /\ seen' = Pruned /\ seen'[req[r].id] = NoTime
      BY OnlyDispatch DEF Dispatch
    <2>2. /\ req[r].ts \in Int /\ d.at \in Int /\ clock \in Int /\ Tolerance \in Int
          /\ d.id \in Msg /\ seen[d.id] \in Nat \cup {NoTime}
      BY ReceiverAssumption DEF ReceiverInv, ReceiverTypeOK, Completion, Time
    <2>3. ~Kept(seen[d.id]) \/ seen[d.id] = NoTime
      BY <2>1, <2>2 DEF Pruned
    <2>4. clock > d.at + 2 * Tolerance
      BY <2>2, <2>3 DEF Kept, ReceiverInv, Remembered
    <2> QED
      BY <2>1, <2>2, <2>4 DEF Fresh
  <1> QED
    BY <1>1, <1>2, ReceiverInvStep, PTL DEF ReceiverSafety, HandledOnce

==============================================================================
