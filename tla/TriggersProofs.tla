---------------------------- MODULE TriggersProofs ----------------------------
(***************************************************************************)
(* Theorems about a trigger for every stream of events, every assignment   *)
(* of threads, every number of attempts and every number of failed turns,  *)
(* failed calls, ended streams and crashes.                                *)
(***************************************************************************)
EXTENDS Triggers, TLAPS

Job == [pc : {"turn", "mark", "clear", "wait"}, attempt : 1 .. MaxAttempts]
Handling == {"none", "seen", "inbox", "admit", "bad", "put", "advance", "skip"}
Phase == {"down", "redeliver", "idle", "listening", "closed", "failed"}

(* TypeOK without what needs an argument: todo \subseteq inbox. *)
Types ==
  /\ inbox \subseteq Event /\ seen \subseteq Event /\ cursor \in 0 .. Len(Log)
  /\ phase \in Phase /\ todo \subseteq Event /\ pos \in 0 .. Len(Log)
  /\ handling \in Handling
  /\ handling # "none" => phase = "listening" /\ pos > 0
  /\ line \in [Thread -> Seq(Event)] /\ job \in [Thread -> Job]
  /\ aborted \in BOOLEAN
  /\ turns \in [Event -> Nat] /\ left \subseteq Event /\ dead \subseteq Event
  /\ raced \in Nat /\ fails \in Nat /\ faults \in Nat /\ ends \in Nat /\ crashes \in Nat

LEMMA FirstTyped == First \in Job
  BY TriggersAssumption DEF First, Job

LEMMA LenLog == Len(Log) \in Nat /\ \A p \in 1 .. Len(Log) : Log[p] \in Event
  BY TriggersAssumption

LEMMA NowTyped == Types /\ handling # "none" => Now \in Event
  BY LenLog DEF Types, Now

LEMMA RangeTyped ==
  ASSUME NEW q \in Seq(Event)
  PROVE  Range(q) \subseteq Event
  BY DEF Range

LEMMA DeliverTyped ==
  ASSUME Types, NEW e \in Event, Deliver(e)
  PROVE  line' \in [Thread -> Seq(Event)] /\ left' \subseteq Event
  BY TriggersAssumption DEF Types, Deliver

LEMMA NextOnTyped ==
  ASSUME Types, NEW t \in Thread, line[t] # <<>>, NextOn(t)
  PROVE  /\ line' \in [Thread -> Seq(Event)] /\ job' \in [Thread -> Job]
         /\ On(t) \in Event /\ Tail(line[t]) \in Seq(Event)
  BY FirstTyped DEF Types, NextOn, On

(* Init and Crash: no delivery runs. *)
LEMMA NoneTyped ==
  /\ [t \in Thread |-> <<>>] \in [Thread -> Seq(Event)]
  /\ [t \in Thread |-> First] \in [Thread -> Job]
  <1>1. <<>> \in Seq(Event)
    OBVIOUS
  <1> QED
    BY <1>1, FirstTyped

LEMMA TypesInit == Init => Types
  <1> SUFFICES ASSUME Init PROVE Types
    OBVIOUS
  <1>1. 0 \in 0 .. Len(Log)
    BY LenLog
  <1> QED
    BY <1>1, NoneTyped DEF Init, Types, Phase, Handling

LEMMA TypesStep == Types /\ [Next]_vars => Types'
  <1> SUFFICES ASSUME Types, [Next]_vars PROVE Types'
    OBVIOUS
  <1> USE DEF Types, stored, listener, deliveries, history, bounds, Elsewhere
  <1>1. CASE Listening
    <2>1. CASE Start \/ Listen \/ StopListening
      BY <2>1 DEF Start, Listen, StopListening, ResumeAt, Phase, Handling
    <2>2. ASSUME NEW e \in Event, Redeliver(e) PROVE Types'
      BY <2>2, DeliverTyped DEF Redeliver
    <2>3. CASE Receive
      BY <2>3, LenLog DEF Receive, Phase, Handling
    <2>4. CASE LookSeen \/ LookInbox \/ Admit \/ DeadLetter \/ Put
      <3>1. Now \in Event
        BY <2>4, NowTyped DEF LookSeen, LookInbox, Admit, DeadLetter, Put
      <3> QED
        BY <2>4, <3>1 DEF LookSeen, LookInbox, Admit, DeadLetter, Put, Goes, Handling
    <2>5. CASE Skip
      BY <2>5 DEF Skip, Advanced, Goes, Handling
    <2>6. CASE Advance
      BY <2>6, NowTyped, DeliverTyped DEF Advance, Advanced, Handling
    <2> QED
      BY <1>1, <2>1, <2>2, <2>3, <2>4, <2>5, <2>6 DEF Listening
  <1>2. CASE StartFails \/ StreamEnds \/ AdmitFails
    BY <1>2 DEF StartFails, StreamEnds, AdmitFails, Fault, Phase, Handling
  <1>3. CASE HandlerFails
    BY <1>3, NowTyped DEF HandlerFails, Fault, Phase, Handling
  <1>4. ASSUME NEW t \in Thread, Delivering(t) \/ TurnFails(t) \/ RecordFails(t) PROVE Types'
    <2>1. line[t] # <<>>
      BY <1>4 DEF Delivering, TurnDone, Mark, Clear, Retry, GiveUp, TurnFails, RecordFails, Running
    <2>2. On(t) \in Event /\ line[t] \in Seq(Event)
      BY <2>1 DEF On
    <2>3. ASSUME NEW pc \in {"turn", "mark", "clear", "wait"}, Then(t, pc)
          PROVE  job' \in [Thread -> Job]
      BY <2>3 DEF Then, Job
    <2>4. CASE TurnDone(t) \/ Mark(t)
      BY <2>2, <2>3, <2>4 DEF TurnDone, Mark
    <2>5. CASE TurnFails(t) \/ RecordFails(t)
      BY <2>3, <2>5, SMTT(30) DEF TurnFails, RecordFails, Fault
    <2>6. CASE Retry(t)
      <3>1. job[t].attempt + 1 \in 1 .. MaxAttempts
        <4>1. job[t] \in Job /\ job[t].attempt < MaxAttempts /\ MaxAttempts \in Nat
          BY <2>6, TriggersAssumption DEF Retry
        <4>2. job[t].attempt \in 1 .. MaxAttempts
          BY <4>1 DEF Job
        <4> QED
          BY <4>1, <4>2
      <3>2. [pc |-> "turn", attempt |-> job[t].attempt + 1] \in Job
        BY <3>1 DEF Job
      <3>3. job' \in [Thread -> Job]
        <4>1. job' = [job EXCEPT ![t] = [pc |-> "turn", attempt |-> job[t].attempt + 1]]
          BY <2>6 DEF Retry
        <4> QED
          BY <3>2, <4>1
      <3> QED
        BY <2>6, <3>3 DEF Retry
    <2>7. CASE Clear(t) \/ GiveUp(t)
      <3>1. /\ line' \in [Thread -> Seq(Event)] /\ job' \in [Thread -> Job]
            /\ Tail(line[t]) \in Seq(Event)
        BY <2>1, <2>7, NextOnTyped DEF Clear, GiveUp
      <3>2. left' \subseteq Event
        BY <2>2, <2>7, <3>1, RangeTyped DEF Clear, GiveUp
      <3> QED
        BY <2>7, <3>1, <3>2 DEF Clear, GiveUp
    <2> QED
      BY <1>4, <2>4, <2>5, <2>6, <2>7 DEF Delivering
  <1>5. CASE Close
    BY <1>5 DEF Close
  <1>6. CASE Crash
    <2>1. 0 \in 0 .. Len(Log)
      BY LenLog
    <2>2. /\ line' \in [Thread -> Seq(Event)] /\ job' \in [Thread -> Job]
          /\ phase' = "down" /\ handling' = "none" /\ pos' = 0 /\ crashes' = crashes + 1
          /\ todo' = {} /\ left' = {} /\ aborted' = FALSE
          /\ UNCHANGED <<inbox, seen, cursor, turns, dead, raced, fails, faults, ends>>
      BY <1>6, NoneTyped DEF Crash
    <2>3. crashes' \in Nat /\ phase' \in Phase /\ handling' \in Handling
      BY <2>2 DEF Phase, Handling
    <2> QED
      BY <2>1, <2>2, <2>3
  <1>7. CASE UNCHANGED vars
    BY <1>7 DEF vars
  <1> QED
    BY <1>1, <1>2, <1>3, <1>4, <1>5, <1>6, <1>7 DEF Next

-----------------------------------------------------------------------------
(* The deliveries: each chained event is in the inbox and not listed for
   redelivery, once, on its own thread; the event in the handler is chained
   nowhere; the first of a chain had its turn before it is recorded as done,
   and is recorded before its entry is deleted. *)
Occurs(t, e) == \E i \in 1 .. Len(line[t]) : line[t][i] = e
Chained ==
  \A t \in Thread : \A i \in 1 .. Len(line[t]) :
    ThreadOf[line[t][i]] = t /\ line[t][i] \in inbox /\ line[t][i] \notin todo
Once == \A t \in Thread : \A i, j \in 1 .. Len(line[t]) : line[t][i] = line[t][j] => i = j
Rested == \A t \in Thread : line[t] = <<>> => job[t] = First
Apart ==
  /\ handling \in {"admit", "put", "advance", "bad"} => \A t \in Thread : ~Occurs(t, Now)
  /\ handling = "advance" => Now \in inbox
Listed ==
  /\ todo \subseteq inbox /\ (phase # "redeliver" => todo = {})
  /\ phase = "down" => \A t \in Thread : line[t] = <<>>
Proper ==
  \A t \in Thread : line[t] # <<>> =>
    /\ job[t].pc \in {"mark", "clear"} => turns[On(t)] > 0
    /\ job[t].pc = "clear" => On(t) \in seen

Lines == Chained /\ Once /\ Rested /\ Apart /\ Listed /\ Proper

(* deliver appends at most one event, at the end of its thread's chain. *)
LEMMA Appended ==
  ASSUME Types, NEW e \in Event, Deliver(e), NEW t \in Thread
  PROVE  /\ line'[t] = line[t] \/ (t = ThreadOf[e] /\ line'[t] = Append(line[t], e))
         /\ Len(line[t]) \in Nat /\ Len(line'[t]) \in Nat /\ Len(line[t]) <= Len(line'[t])
         /\ \A i \in 1 .. Len(line'[t]) :
              \/ i \in 1 .. Len(line[t]) /\ line'[t][i] = line[t][i]
              \/ t = ThreadOf[e] /\ i = Len(line[t]) + 1 /\ line'[t][i] = e
         /\ line'[t] = <<>> => line[t] = <<>>
         /\ line[t] # <<>> => line'[t] # <<>> /\ Head(line'[t]) = Head(line[t])
  <1>1. line[t] \in Seq(Event)
    BY DEF Types
  <1>2. line'[t] = line[t] \/ (t = ThreadOf[e] /\ line'[t] = Append(line[t], e))
    <2>1. line' = line \/ line' = [line EXCEPT ![ThreadOf[e]] = Append(line[ThreadOf[e]], e)]
      BY DEF Deliver
    <2> QED
      BY <2>1 DEF Types
  <1>3. Len(line[t]) \in Nat
    BY <1>1
  <1>4. CASE line'[t] = line[t]
    <2>1. Len(line'[t]) = Len(line[t])
      BY <1>4
    <2>2. \A i \in 1 .. Len(line'[t]) : i \in 1 .. Len(line[t]) /\ line'[t][i] = line[t][i]
      BY <1>4, <2>1
    <2> QED
      BY <1>3, <1>4, <2>1, <2>2
  <1>5. CASE t = ThreadOf[e] /\ line'[t] = Append(line[t], e)
    BY <1>1, <1>5
  <1> QED
    BY <1>2, <1>4, <1>5

(* The next delivery of a chain, or none once the runner is closed. *)
LEMMA Popped ==
  ASSUME Types, NEW t \in Thread, line[t] # <<>>, NextOn(t)
  PROVE  /\ job'[t] = First
         /\ \A q \in Thread \ {t} : line'[q] = line[q] /\ job'[q] = job[q]
         /\ Len(line[t]) \in Nat \ {0} /\ On(t) = line[t][1]
         /\ \A i \in 1 .. Len(line'[t]) :
              i + 1 \in 1 .. Len(line[t]) /\ line'[t][i] = line[t][i + 1]
  <1>1. line[t] \in Seq(Event)
    BY DEF Types
  <1>2. line'[t] = <<>> \/ line'[t] = Tail(line[t])
    BY DEF NextOn, Types
  <1>3. job'[t] = First /\ \A q \in Thread \ {t} : line'[q] = line[q] /\ job'[q] = job[q]
    BY DEF NextOn, Types
  <1>4. Len(line[t]) \in Nat \ {0} /\ On(t) = line[t][1]
    BY <1>1 DEF On
  <1>5. CASE line'[t] = <<>>
    BY <1>3, <1>4, <1>5
  <1>6. CASE line'[t] = Tail(line[t])
    BY <1>1, <1>3, <1>4, <1>6
  <1> QED
    BY <1>2, <1>5, <1>6

LEMMA LinesInit == Init => Lines
  <1> SUFFICES ASSUME Init PROVE Lines
    OBVIOUS
  <1>1. \A t \in Thread : line[t] = <<>> /\ Len(line[t]) = 0 /\ job[t] = First
    BY DEF Init
  <1> QED
    BY <1>1 DEF Init, Lines, Chained, Once, Rested, Apart, Listed, Proper

(* Chaining an inbox entry that is chained nowhere. *)
LEMMA DeliverKeeps ==
  ASSUME Types, Lines, NEW e \in Event, Deliver(e), e \in inbox, \A t \in Thread : ~Occurs(t, e),
         UNCHANGED <<inbox, job, seen, turns>>, todo' \subseteq todo, e \notin todo'
  PROVE  Chained' /\ Once' /\ Rested' /\ Proper'
  <1>1. Chained'
    <2> SUFFICES ASSUME NEW t \in Thread, NEW i \in 1 .. Len(line'[t])
                 PROVE  /\ ThreadOf[line'[t][i]] = t
                        /\ line'[t][i] \in inbox /\ line'[t][i] \notin todo'
      BY DEF Chained
    <2>1. \/ i \in 1 .. Len(line[t]) /\ line'[t][i] = line[t][i]
          \/ t = ThreadOf[e] /\ line'[t][i] = e
      BY Appended
    <2> QED
      BY <2>1 DEF Lines, Chained
  <1>2. Once'
    <2> SUFFICES ASSUME NEW t \in Thread, NEW i \in 1 .. Len(line'[t]), NEW j \in 1 .. Len(line'[t]),
                        line'[t][i] = line'[t][j]
                 PROVE  i = j
      BY DEF Once
    <2>1. \A k \in 1 .. Len(line'[t]) :
            \/ k \in 1 .. Len(line[t]) /\ line'[t][k] = line[t][k] /\ line[t][k] # e
            \/ k = Len(line[t]) + 1 /\ line'[t][k] = e
      BY Appended DEF Occurs
    <2> QED
      BY <2>1 DEF Lines, Once
  <1>3. Rested'
    BY Appended DEF Lines, Rested
  <1>4. Proper'
    <2> SUFFICES ASSUME NEW t \in Thread, line'[t] # <<>>
                 PROVE  /\ job[t].pc \in {"mark", "clear"} => turns[Head(line'[t])] > 0
                        /\ job[t].pc = "clear" => Head(line'[t]) \in seen
      BY DEF Proper, On
    <2>1. CASE line[t] = <<>>
      BY <2>1 DEF Lines, Rested, First
    <2>2. CASE line[t] # <<>>
      BY <2>2, Appended DEF Lines, Proper, On
    <2> QED
      BY <2>1, <2>2
  <1> QED
    BY <1>1, <1>2, <1>3, <1>4

(* A step of the first delivery of t that chains nothing and deletes nothing. *)
LEMMA HeadKeeps ==
  ASSUME Types, Lines, NEW t \in Thread, line[t] # <<>>, UNCHANGED <<line, inbox, listener>>,
         NEW k \in Job, job' = [job EXCEPT ![t] = k],
         seen \subseteq seen', \A e \in Event : turns[e] <= turns'[e],
         turns' \in [Event -> Nat],
         k.pc \in {"mark", "clear"} => turns'[On(t)] > 0,
         k.pc = "clear" => On(t) \in seen'
  PROVE  Lines'
  <1>1. Chained' /\ Once' /\ Listed' /\ Apart'
    BY DEF Lines, Chained, Once, Listed, Apart, listener, Now, Occurs
  <1>2. Rested'
    BY DEF Lines, Rested, Types
  <1>3. \A q \in Thread : line[q] # <<>> => On(q) \in Event
    BY DEF On, Types
  <1>4. Proper'
    BY <1>3 DEF Lines, Proper, Types, On
  <1> QED
    BY <1>1, <1>2, <1>4 DEF Lines

(* The first delivery of t ends; its entry stays, or is deleted. *)
LEMMA PopKeeps ==
  ASSUME Types, Lines, NEW t \in Thread, line[t] # <<>>, NextOn(t),
         UNCHANGED <<listener, seen, turns>>, inbox' \in {inbox, inbox \ {On(t)}}
  PROVE  Lines'
  <1>1. /\ job'[t] = First /\ On(t) = line[t][1] /\ 1 \in 1 .. Len(line[t])
        /\ \A q \in Thread \ {t} : line'[q] = line[q] /\ job'[q] = job[q]
        /\ \A i \in 1 .. Len(line'[t]) : i + 1 \in 1 .. Len(line[t]) /\ line'[t][i] = line[t][i + 1]
    BY Popped
  <1>2. \A q \in Thread, e \in Event : Occurs(q, e)' => Occurs(q, e)
    BY <1>1 DEF Occurs
  <1>3. Chained'
    <2> SUFFICES ASSUME NEW q \in Thread, NEW i \in 1 .. Len(line'[q])
                 PROVE  /\ ThreadOf[line'[q][i]] = q /\ line'[q][i] \notin todo
                        /\ line'[q][i] \in inbox \ {On(t)}
      BY DEF Chained, listener
    <2>1. CASE q = t
      <3>1. line[t][i + 1] # line[t][1]
        BY <1>1, <2>1 DEF Lines, Once
      <3> QED
        BY <1>1, <2>1, <3>1 DEF Lines, Chained
    <2>2. CASE q # t
      BY <1>1, <2>2 DEF Lines, Chained
    <2> QED
      BY <2>1, <2>2
  <1>4. Once'
    BY <1>1 DEF Lines, Once
  <1>5. Rested' /\ Proper'
    BY <1>1 DEF Lines, Rested, Proper, On, First
  <1>6. Apart' /\ Listed'
    <2>1. On(t) \in Event /\ Occurs(t, On(t)) /\ On(t) \notin todo
      BY <1>1 DEF Lines, Chained, Occurs, Types
    <2>2. phase # "down"
      BY DEF Lines, Listed
    <2>3. handling \in {"admit", "put", "advance", "bad"} => Now \in Event
      BY NowTyped
    <2> QED
      BY <1>2, <2>1, <2>2, <2>3 DEF Lines, Apart, Listed, listener, Now
  <1> QED
    BY <1>3, <1>4, <1>5, <1>6 DEF Lines

(* The first delivery of t takes a step. *)
LEMMA DeliveringLines ==
  ASSUME Types, Lines, NEW t \in Thread, Delivering(t) \/ TurnFails(t) \/ RecordFails(t)
  PROVE  Lines'
  <1> USE DEF stored, deliveries, history, bounds, Elsewhere
  <1>1. line[t] # <<>> /\ On(t) \in Event /\ job[t] \in Job
    BY DEF Delivering, TurnDone, Mark, Clear, Retry, GiveUp, TurnFails, RecordFails, Running, On, Types
  <1>2. ASSUME NEW pc \in {"turn", "mark", "clear", "wait"}, Then(t, pc)
        PROVE  \E k \in Job : k.pc = pc /\ job' = [job EXCEPT ![t] = k]
    <2>1. [job[t] EXCEPT !.pc = pc] \in Job /\ [job[t] EXCEPT !.pc = pc].pc = pc
      BY <1>1 DEF Job
    <2>2. job' = [job EXCEPT ![t] = [job[t] EXCEPT !.pc = pc]]
      BY <1>2 DEF Then
    <2> QED
      BY <2>1, <2>2
  <1>3. CASE TurnDone(t)
    <2>1. PICK k \in Job : k.pc = "mark" /\ job' = [job EXCEPT ![t] = k]
      BY <1>2, <1>3 DEF TurnDone
    <2>2. /\ turns' \in [Event -> Nat] /\ turns'[On(t)] > 0
          /\ \A e \in Event : turns[e] <= turns'[e]
      BY <1>1, <1>3 DEF TurnDone, Types
    <2> QED
      BY <1>1, <1>3, <2>1, <2>2, HeadKeeps DEF TurnDone, listener
  <1>4. CASE Mark(t)
    <2>1. PICK k \in Job : k.pc = "clear" /\ job' = [job EXCEPT ![t] = k]
      BY <1>2, <1>4 DEF Mark
    <2>2. turns[On(t)] > 0 /\ turns \in [Event -> Nat]
      BY <1>1, <1>4 DEF Mark, Running, Lines, Proper, Types
    <2>3. turns' = turns /\ UNCHANGED <<line, inbox, listener>> /\ seen' = seen \cup {On(t)}
      BY <1>4 DEF Mark
    <2>4. turns' \in [Event -> Nat] /\ \A e \in Event : turns[e] <= turns'[e]
      BY <2>2, <2>3
    <2> QED
      BY <1>1, <2>1, <2>2, <2>3, <2>4, HeadKeeps
  <1>5. CASE TurnFails(t) \/ RecordFails(t)
    <2>1. PICK k \in Job : k.pc = "wait" /\ job' = [job EXCEPT ![t] = k]
      BY <1>2, <1>5 DEF TurnFails, RecordFails
    <2>2. turns' = turns /\ seen' = seen /\ UNCHANGED <<line, inbox, listener>>
      BY <1>5 DEF TurnFails, RecordFails, Fault
    <2>3. turns' \in [Event -> Nat] /\ \A e \in Event : turns[e] <= turns'[e]
      BY <2>2 DEF Types
    <2> QED
      BY <1>1, <2>1, <2>2, <2>3, HeadKeeps
  <1>6. CASE Retry(t)
    <2>1. PICK k \in Job : k.pc = "turn" /\ job' = [job EXCEPT ![t] = k]
      <3> DEFINE k == [pc |-> "turn", attempt |-> job[t].attempt + 1]
      <3>1. k \in Job
        <4>1. job[t].attempt \in 1 .. MaxAttempts /\ job[t].attempt < MaxAttempts
          BY <1>1, <1>6 DEF Retry, Job
        <4>2. job[t].attempt + 1 \in 1 .. MaxAttempts
          BY <4>1, TriggersAssumption
        <4> QED
          BY <4>2 DEF Job
      <3>2. job' = [job EXCEPT ![t] = k]
        BY <1>6 DEF Retry
      <3> QED
        BY <3>1, <3>2
    <2>2. turns' = turns /\ seen' = seen /\ UNCHANGED <<line, inbox, listener>>
      BY <1>6 DEF Retry
    <2>3. turns' \in [Event -> Nat] /\ \A e \in Event : turns[e] <= turns'[e]
      BY <2>2 DEF Types
    <2> QED
      BY <1>1, <2>1, <2>2, <2>3, HeadKeeps
  <1>7. CASE Clear(t)
    BY <1>1, <1>7, PopKeeps DEF Clear
  <1>8. CASE GiveUp(t)
    BY <1>1, <1>8, PopKeeps DEF GiveUp
  <1> QED
    BY <1>3, <1>4, <1>5, <1>6, <1>7, <1>8 DEF Delivering

(* The handler of an event goes on, and chains nothing. *)
LEMMA HandlerLines ==
  ASSUME Types, Lines, UNCHANGED <<line, job, turns, todo, pos>>, phase' \in {phase, "idle"},
         phase \notin {"down", "redeliver"}, inbox \subseteq inbox', seen \subseteq seen',
         handling' \in {"admit", "put", "advance", "bad"} => \A t \in Thread : ~Occurs(t, Now),
         handling' = "advance" => Now \in inbox'
  PROVE  Lines'
  <1>1. Chained' /\ Once' /\ Rested' /\ Listed'
    BY DEF Lines, Chained, Once, Rested, Listed
  <1>2. Apart'
    BY DEF Apart, Now, Occurs
  <1>3. Proper'
    BY DEF Lines, Proper, On
  <1> QED
    BY <1>1, <1>2, <1>3 DEF Lines

LEMMA LinesStep == Types /\ Lines /\ [Next]_vars => Lines'
  <1> SUFFICES ASSUME Types, Lines, [Next]_vars PROVE Lines'
    OBVIOUS
  <1> USE DEF stored, listener, deliveries, history, bounds
  <1>1. handling # "none" => phase = "listening" /\ Now \in Event
    BY NowTyped DEF Types
  <1>2. CASE Start
    <2>1. \A t \in Thread : Len(line[t]) = 0
      BY <1>2 DEF Start, Lines, Listed
    <2> QED
      BY <1>2, <2>1 DEF Start, Lines, Chained, Once, Rested, Apart, Listed, Proper, Now, Occurs, On
  <1>3. ASSUME NEW e \in Event, Redeliver(e) PROVE Lines'
    <2>1. /\ e \in todo /\ e \in inbox /\ \A t \in Thread : ~Occurs(t, e)
          /\ phase = "redeliver" /\ handling = "none"
      BY <1>1, <1>3 DEF Redeliver, Lines, Listed, Chained, Occurs
    <2>2. Chained' /\ Once' /\ Rested' /\ Proper'
      BY <1>3, <2>1, DeliverKeeps DEF Redeliver
    <2> QED
      BY <1>3, <2>1, <2>2 DEF Redeliver, Lines, Listed, Apart
  <1>4. CASE StartFails \/ Listen \/ StreamEnds \/ StopListening \/ Close
    <2>1. /\ UNCHANGED <<line, job, turns, inbox, seen, handling>>
          /\ handling = "none" \/ UNCHANGED pos
          /\ todo' \subseteq todo
      BY <1>1, <1>4 DEF StartFails, Listen, StreamEnds, StopListening, Close, Fault
    <2>2. /\ phase' # "redeliver" => todo' = {}
          /\ phase' = "down" => phase = "down"
      BY <1>4 DEF StartFails, Listen, StreamEnds, StopListening, Close, Lines, Listed
    <2>3. Chained' /\ Once' /\ Rested' /\ Listed' /\ Proper'
      BY <2>1, <2>2 DEF Lines, Chained, Once, Rested, Listed, Proper, On
    <2>4. Apart'
      BY <2>1 DEF Lines, Apart, Now, Occurs
    <2> QED
      BY <2>3, <2>4 DEF Lines
  <1>5. CASE Receive
    BY <1>5 DEF Receive, Lines, Chained, Once, Rested, Apart, Listed, Proper, On
  <1>6. CASE LookSeen \/ LookInbox \/ Admit \/ AdmitFails \/ DeadLetter \/ Put \/ Skip \/ HandlerFails
    <2>1. /\ handling # "none" /\ phase = "listening"
          /\ UNCHANGED <<line, job, turns, todo, pos>> /\ phase' \in {phase, "idle"}
          /\ inbox \subseteq inbox' /\ seen \subseteq seen'
      BY <1>1, <1>6 DEF LookSeen, LookInbox, Admit, AdmitFails, DeadLetter, Put, Skip, HandlerFails,
                        Goes, Fault
    <2>2. ASSUME handling' \in {"admit", "put", "advance", "bad"}
          PROVE  \A t \in Thread : ~Occurs(t, Now)
      <3>1. CASE LookInbox
        BY <1>6, <2>2, <3>1 DEF LookInbox, InInbox, Goes, Lines, Chained, Occurs
      <3>2. CASE ~LookInbox
        BY <1>6, <2>2, <3>2 DEF LookSeen, Admit, AdmitFails, DeadLetter, Put, Skip, HandlerFails,
                                Goes, Lines, Apart
      <3> QED
        BY <3>1, <3>2
    <2>3. handling' = "advance" => Now \in inbox'
      BY <1>6 DEF LookSeen, LookInbox, Admit, AdmitFails, DeadLetter, Put, Skip, HandlerFails, Goes
    <2> QED
      BY <2>1, <2>2, <2>3, HandlerLines
  <1>7. CASE Advance
    <2>1. /\ handling = "advance" /\ Now \in Event /\ Now \in inbox /\ phase = "listening" /\ todo = {}
          /\ \A t \in Thread : ~Occurs(t, Now)
      BY <1>1, <1>7 DEF Advance, Lines, Apart, Listed
    <2>2. Chained' /\ Once' /\ Rested' /\ Proper'
      BY <1>7, <2>1, DeliverKeeps DEF Advance
    <2> QED
      BY <1>7, <2>1, <2>2 DEF Advance, Lines, Listed, Apart
  <1>8. ASSUME NEW t \in Thread, Delivering(t) \/ TurnFails(t) \/ RecordFails(t) PROVE Lines'
    BY <1>8, DeliveringLines
  <1>9. CASE Crash
    <2>1. /\ \A t \in Thread : line'[t] = <<>> /\ Len(line'[t]) = 0 /\ job'[t] = First
          /\ phase' = "down" /\ todo' = {} /\ handling' = "none"
      BY <1>9 DEF Crash
    <2> QED
      BY <2>1 DEF Lines, Chained, Once, Rested, Apart, Listed, Proper
  <1>10. CASE UNCHANGED vars
    BY <1>10 DEF vars, Lines, Chained, Once, Rested, Apart, Listed, Proper, Now, Occurs, On
  <1> QED
    BY <1>2, <1>3, <1>4, <1>5, <1>6, <1>7, <1>8, <1>9, <1>10 DEF Next, Listening

(* Every reachable state is type correct, and start reads no key that is not in
   the inbox (triggers.ts:208-218, 366-394). *)
THEOREM TypeCorrect == Safety => []TypeOK
  <1>1. Init => Types /\ Lines
    BY TypesInit, LinesInit
  <1>2. Types /\ Lines /\ [Next]_vars => (Types /\ Lines)'
    BY TypesStep, LinesStep
  <1>3. Types /\ Lines => TypeOK
    BY DEF Types, Lines, Listed, TypeOK, Phase, Handling, Job
  <1> QED
    BY <1>1, <1>2, <1>3, PTL DEF Safety

-----------------------------------------------------------------------------
(* NothingLost: what the listener has read, up to the event it handles, is
   settled, and stays so: an entry leaves the inbox only after its turn. *)
Settled(e) == turns[e] > 0 \/ e \in inbox \cup dead \cup Filtered
Kept ==
  /\ \A e \in seen : turns[e] > 0 \/ e \in dead
  /\ \A p \in 1 .. cursor : Settled(Log[p])
  /\ phase = "listening" =>
       \A p \in 1 .. pos : p < pos \/ handling \in {"none", "skip", "advance"} => Settled(Log[p])
IInv == Types /\ Lines /\ Kept

LEMMA StaysSettled ==
  ASSUME Types, Lines, [Next]_vars, NEW e \in Event
  PROVE  /\ Settled(e) => Settled(e)'
         /\ turns[e] > 0 => turns'[e] > 0
         /\ e \in dead => e \in dead'
  <1> USE DEF stored, history
  <1>1. ASSUME NEW t \in Thread, Delivering(t) \/ TurnFails(t) \/ RecordFails(t)
        PROVE  /\ turns[e] > 0 => turns'[e] > 0
               /\ dead' = dead
               /\ e \in inbox => e \in inbox' \/ turns'[e] > 0
    <2>1. CASE TurnDone(t)
      BY <2>1 DEF TurnDone, Types, Elsewhere, On, Running
    <2>2. CASE Clear(t)
      BY <2>2 DEF Clear, Running, Lines, Proper, Elsewhere
    <2>3. CASE Mark(t) \/ Retry(t) \/ GiveUp(t) \/ TurnFails(t) \/ RecordFails(t)
      BY <2>3 DEF Mark, Retry, GiveUp, TurnFails, RecordFails, Elsewhere
    <2> QED
      BY <1>1, <2>1, <2>2, <2>3 DEF Delivering
  <1>2. CASE Listening
    BY <1>2 DEF Listening, Start, Redeliver, Listen, StopListening, Receive, LookSeen, LookInbox,
                Admit, DeadLetter, Put, Skip, Advance, Settled
  <1>3. CASE StartFails \/ StreamEnds \/ AdmitFails \/ HandlerFails \/ Close \/ Crash
    BY <1>3 DEF StartFails, StreamEnds, AdmitFails, HandlerFails, Close, Crash, Settled
  <1>4. CASE UNCHANGED vars
    BY <1>4 DEF vars, Settled
  <1> QED
    BY <1>1, <1>2, <1>3, <1>4 DEF Next, Settled

LEMMA KeptInit == Init => Kept
  BY DEF Init, Kept

LEMMA KeptStep == IInv /\ [Next]_vars => Kept'
  <1> SUFFICES ASSUME IInv, [Next]_vars PROVE Kept'
    OBVIOUS
  <1> USE DEF stored, listener, history
  <1>1. Types /\ Lines /\ Types' /\ Kept
    BY TypesStep DEF IInv
  <1>2. \A e \in Event : /\ Settled(e) => Settled(e)'
                         /\ turns[e] > 0 => turns'[e] > 0
                         /\ e \in dead => e \in dead'
    BY <1>1, StaysSettled
  <1>3. /\ \A p \in 1 .. Len(Log) : Log[p] \in Event
        /\ cursor \in 0 .. Len(Log) /\ pos \in 0 .. Len(Log) /\ Len(Log) \in Nat
        /\ cursor' \in 0 .. Len(Log) /\ pos' \in 0 .. Len(Log)
        /\ seen \subseteq Event
        /\ handling # "none" => phase = "listening" /\ pos \in 1 .. Len(Log)
    BY <1>1, LenLog DEF Types
  <1>4. \A e \in seen' : turns'[e] > 0 \/ e \in dead'
    <2> SUFFICES ASSUME NEW e \in seen' PROVE turns'[e] > 0 \/ e \in dead'
      OBVIOUS
    <2>1. e \in Event
      BY <1>1 DEF Types
    <2>2. seen' = seen \/ DeadLetter \/ \E t \in Thread : Mark(t)
      BY DEF Next, Listening, Delivering, vars, Start, Redeliver, Listen, StopListening, Receive,
             LookSeen, LookInbox, Admit, Put, Skip, Advance, StartFails, StreamEnds, AdmitFails,
             HandlerFails, TurnDone, Clear, Retry, GiveUp, TurnFails, RecordFails, Close, Crash
    <2>3. CASE e \in seen
      BY <1>1, <1>2, <2>1, <2>3 DEF Kept
    <2>4. CASE e \notin seen /\ DeadLetter
      BY <2>4 DEF DeadLetter
    <2>5. ASSUME e \notin seen, NEW t \in Thread, Mark(t) PROVE turns'[e] > 0
      <3>1. line[t] # <<>> /\ job[t].pc = "mark" /\ e = On(t) /\ turns' = turns
        BY <2>5 DEF Mark, Running
      <3> QED
        BY <1>1, <3>1 DEF Lines, Proper
    <2> QED
      BY <2>2, <2>3, <2>4, <2>5
  <1>5. ASSUME UNCHANGED <<cursor, listener>> PROVE Kept'
    BY <1>1, <1>2, <1>3, <1>4, <1>5 DEF Kept
  <1>6. ASSUME cursor' = cursor, phase' # "listening" PROVE Kept'
    BY <1>1, <1>2, <1>3, <1>4, <1>6 DEF Kept
  <1>7. CASE Start \/ (\E e \in Event : Redeliver(e)) \/ StopListening \/ StartFails \/ StreamEnds \/ Crash
             \/ HandlerFails
    <2>1. cursor' = cursor /\ phase' # "listening"
      BY <1>7 DEF Start, Redeliver, StopListening, StartFails, StreamEnds, Crash, HandlerFails
    <2> QED
      BY <1>6, <2>1
  <1>8. CASE Listen
    <2>1. cursor' = cursor /\ handling' = handling /\ (phase' = "listening" => pos' = cursor)
      BY <1>8 DEF Listen, ResumeAt
    <2> QED
      BY <1>1, <1>2, <1>3, <1>4, <2>1 DEF Kept
  <1>9. CASE Receive
    <2>1. /\ cursor' = cursor /\ pos' = pos + 1 /\ handling' = "seen" /\ handling = "none"
          /\ phase = "listening"
      BY <1>9 DEF Receive
    <2> QED
      BY <1>1, <1>2, <1>3, <1>4, <2>1 DEF Kept
  <1>10. ASSUME UNCHANGED <<cursor, phase, pos>>, handling # "none",
                handling' \in {"none", "skip", "advance"} => Settled(Now)'
         PROVE  Kept'
    <2>1. ASSUME NEW p \in 1 .. pos, p < pos \/ handling' \in {"none", "skip", "advance"},
                 phase = "listening"
          PROVE  Settled(Log[p])'
      BY <1>1, <1>2, <1>3, <1>10, <2>1 DEF Kept, Now, Settled
    <2>2. \A p \in 1 .. cursor : Settled(Log[p])'
      BY <1>1, <1>2, <1>3 DEF Kept
    <2> QED
      BY <1>4, <1>10, <2>1, <2>2 DEF Kept, Settled
  <1>11. CASE LookSeen \/ LookInbox \/ Admit \/ AdmitFails \/ DeadLetter \/ Put
    <2>1. UNCHANGED <<cursor, phase, pos>> /\ handling # "none"
      BY <1>11 DEF LookSeen, LookInbox, Admit, AdmitFails, DeadLetter, Put, Goes
    <2>2. ASSUME handling' \in {"none", "skip", "advance"} PROVE Settled(Now)'
      <3>1. Now' = Now /\ Now \in Event
        BY <1>3, <2>1 DEF Now
      <3>2. CASE LookSeen \/ LookInbox \/ Admit
        <4>1. Now \in seen \/ Now \in inbox \/ Now \in Filtered
          BY <2>2, <3>2 DEF LookSeen, LookInbox, InInbox, Admit, Goes
        <4>2. Settled(Now)
          BY <1>1, <4>1 DEF Settled, Kept
        <4>3. PICK e \in Event : e = Now
          BY <3>1
        <4>4. Settled(e)'
          BY <1>2, <4>2, <4>3
        <4> QED
          BY <3>1, <4>3, <4>4 DEF Settled
      <3>3. CASE AdmitFails \/ DeadLetter \/ Put
        BY <2>2, <3>1, <3>3 DEF AdmitFails, DeadLetter, Put, Goes, Settled
      <3> QED
        BY <1>11, <3>2, <3>3
    <2> QED
      BY <1>10, <2>1, <2>2
  <1>12. CASE Skip \/ Advance
    <2>1. /\ handling \in {"skip", "advance"} /\ handling' = "none" /\ phase = "listening"
          /\ UNCHANGED <<phase, pos>> /\ cursor' \in {cursor, pos}
      BY <1>3, <1>12 DEF Skip, Advance, Advanced, Goes
    <2>2. \A p \in 1 .. pos : Settled(Log[p])'
      <3> SUFFICES ASSUME NEW p \in 1 .. pos PROVE Settled(Log[p])'
        BY DEF Settled
      <3>1. Log[p] \in Event
        BY <1>3
      <3>2. Settled(Log[p])
        BY <1>1, <2>1 DEF Kept
      <3> QED
        BY <1>2, <3>1, <3>2
    <2> QED
      BY <1>1, <1>2, <1>3, <1>4, <2>1, <2>2 DEF Kept
  <1>13. CASE Close \/ UNCHANGED vars
    BY <1>5, <1>13 DEF Close, vars
  <1>14. ASSUME NEW t \in Thread, Delivering(t) \/ TurnFails(t) \/ RecordFails(t) PROVE Kept'
    BY <1>5, <1>14 DEF Delivering, TurnDone, Mark, Clear, Retry, GiveUp, TurnFails, RecordFails,
                       Elsewhere
  <1> QED
    BY <1>7, <1>8, <1>9, <1>11, <1>12, <1>13, <1>14 DEF Next, Listening

LEMMA IInvStep == IInv /\ [Next]_vars => IInv'
  BY TypesStep, LinesStep, KeptStep DEF IInv

(* No event the cursor has passed, or whose repetition would be skipped, is
   lost (triggers.ts:275-314, 374-394). *)
THEOREM EventsNotLost == Safety => []NothingLost
  <1>1. Init => IInv
    BY TypesInit, LinesInit, KeptInit DEF IInv
  <1>2. IInv => NothingLost
    <2> SUFFICES ASSUME IInv, NEW e \in seen \cup {Log[p] : p \in 1 .. cursor}
                 PROVE  turns[e] > 0 \/ e \in inbox \cup dead \cup Filtered
      BY DEF NothingLost
    <2> QED
      BY DEF IInv, Kept, Settled
  <1> QED
    BY <1>1, <1>2, IInvStep, PTL DEF Safety

-----------------------------------------------------------------------------
(* OneTurnPerTrouble: an event that may yet start a turn without a crash or a
   failed call has had at most one turn per trouble so far. *)
Trouble == crashes + faults + raced
Chain(e) == line[ThreadOf[e]]
Waits(e) == \E i \in 1 .. Len(Chain(e)) :
              Chain(e)[i] = e /\ (i = 1 => job[ThreadOf[e]].pc \in {"turn", "wait"})
Pending(e) ==
  \/ phase = "down" \/ e \in todo
  \/ handling \in {"admit", "put", "advance"} /\ Now = e
  \/ Waits(e)
Budget ==
  \A e \in Event :
    /\ turns[e] <= 1 + Trouble
    /\ Pending(e) => turns[e] <= Trouble
    /\ e \notin seen /\ e \notin inbox => turns[e] = 0

LEMMA BudgetInit == Init => Budget
  BY DEF Init, Budget, Trouble

LEMMA TroubleNat == Types => Trouble \in Nat
  BY DEF Types, Trouble

LEMMA TroubleNatNext == Types' => Trouble' \in Nat
  <1>1. Types' => crashes' \in Nat /\ faults' \in Nat /\ raced' \in Nat
    BY DEF Types
  <1>2. Trouble' = crashes' + faults' + raced'
    BY DEF Trouble
  <1> QED
    BY <1>1, <1>2

(* A step that completes no turn keeps the budget when what it makes pending
   comes with a trouble, or was not seen before. *)
LEMMA BudgetKeeps ==
  ASSUME Types, Types', Budget, turns' = turns, Trouble <= Trouble',
         \A e \in Event : Pending(e)' =>
            Pending(e) \/ Trouble < Trouble' \/ (e \notin seen /\ e \notin inbox),
         \A e \in Event : e \in seen \/ e \in inbox => e \in seen' \/ e \in inbox'
  PROVE  Budget'
  <1> SUFFICES ASSUME NEW e \in Event
               PROVE  /\ turns[e] <= 1 + Trouble'
                      /\ Pending(e)' => turns[e] <= Trouble'
                      /\ e \notin seen' /\ e \notin inbox' => turns[e] = 0
    BY DEF Budget
  <1>1. turns[e] \in Nat /\ Trouble \in Nat
    BY TroubleNat DEF Types
  <1>2. Trouble' \in Nat
    BY TroubleNatNext
  <1> QED
    BY <1>1, <1>2 DEF Budget

LEMMA DeliverPends ==
  ASSUME Types, NEW e \in Event, Deliver(e), UNCHANGED job, NEW x \in Event, Waits(x)'
  PROVE  Waits(x) \/ x = e
  <1>1. ThreadOf[x] \in Thread
    BY TriggersAssumption
  <1>2. PICK i \in 1 .. Len(line'[ThreadOf[x]]) :
          line'[ThreadOf[x]][i] = x /\ (i = 1 => job[ThreadOf[x]].pc \in {"turn", "wait"})
    BY DEF Waits, Chain
  <1>3. \/ i \in 1 .. Len(line[ThreadOf[x]]) /\ line'[ThreadOf[x]][i] = line[ThreadOf[x]][i]
        \/ line'[ThreadOf[x]][i] = e
    BY <1>1, Appended
  <1> QED
    BY <1>2, <1>3 DEF Waits, Chain

LEMMA PopPends ==
  ASSUME Types, NEW t \in Thread, line[t] # <<>>, NextOn(t), NEW x \in Event, Waits(x)'
  PROVE  Waits(x)
  <1>1. ThreadOf[x] \in Thread
    BY TriggersAssumption
  <1>2. PICK i \in 1 .. Len(line'[ThreadOf[x]]) :
          line'[ThreadOf[x]][i] = x /\ (i = 1 => job'[ThreadOf[x]].pc \in {"turn", "wait"})
    BY DEF Waits, Chain
  <1>3. CASE ThreadOf[x] = t
    <2>1. i + 1 \in 1 .. Len(line[t]) /\ line'[t][i] = line[t][i + 1] /\ i + 1 # 1
      BY <1>2, <1>3, Popped
    <2> QED
      BY <1>2, <1>3, <2>1 DEF Waits, Chain
  <1>4. CASE ThreadOf[x] # t
    BY <1>1, <1>2, <1>4, Popped DEF Waits, Chain
  <1> QED
    BY <1>3, <1>4

(* The first delivery of t takes a step, and its thread waits for what it
   waited for, the event of a failed attempt aside. *)
LEMMA HeadPends ==
  ASSUME Types, Lines, NEW t \in Thread, line[t] # <<>>, line' = line,
         NEW pc, job'[t].pc = pc, \A q \in Thread \ {t} : job'[q] = job[q],
         NEW x \in Event, Waits(x)'
  PROVE  Waits(x) \/ (x = On(t) /\ pc \in {"turn", "wait"} /\ job[t].pc \notin {"turn", "wait"})
  <1>1. ThreadOf[x] \in Thread /\ On(t) = line[t][1]
    BY TriggersAssumption DEF On, Types
  <1>2. PICK i \in 1 .. Len(line[ThreadOf[x]]) :
          line[ThreadOf[x]][i] = x /\ (i = 1 => job'[ThreadOf[x]].pc \in {"turn", "wait"})
    BY DEF Waits, Chain
  <1> QED
    BY <1>1, <1>2 DEF Waits, Chain

LEMMA DeliveringBudget ==
  ASSUME Types, Types', Lines, Budget,
         NEW t \in Thread, Delivering(t) \/ TurnFails(t) \/ RecordFails(t)
  PROVE  Budget'
  <1> USE DEF stored, listener, deliveries, bounds, Elsewhere
  <1>1. line[t] # <<>> /\ On(t) \in Event /\ job[t] \in Job
    BY DEF Delivering, TurnDone, Mark, Clear, Retry, GiveUp, TurnFails, RecordFails, Running, On, Types
  <1>2. \A x \in Event : Pending(x)' => Pending(x) \/ Waits(x)'
    BY DEF Pending, Now, Delivering, TurnDone, Mark, Clear, Retry, GiveUp, TurnFails, RecordFails
  <1>3. ASSUME NEW pc, Then(t, pc)
        PROVE  job'[t].pc = pc /\ \A q \in Thread \ {t} : job'[q] = job[q]
    BY <1>1, <1>3 DEF Then, Types, Job
  <1>4. CASE Clear(t) \/ GiveUp(t)
    <2>1. NextOn(t) /\ turns' = turns /\ Trouble' = Trouble
      BY <1>4 DEF Clear, GiveUp, Trouble
    <2>2. \A x \in Event : Waits(x)' => Waits(x)
      BY <1>1, <2>1, PopPends
    <2>3. \A x \in Event : Pending(x)' => Pending(x)
      BY <1>2, <2>2 DEF Pending
    <2>4. \A e \in Event : e \in seen \/ e \in inbox => e \in seen' \/ e \in inbox'
      <3>1. CASE Clear(t)
        BY <3>1 DEF Clear, Running, Lines, Proper
      <3>2. CASE GiveUp(t)
        BY <3>2 DEF GiveUp
      <3> QED
        BY <1>4, <3>1, <3>2
    <2> QED
      BY <2>1, <2>3, <2>4, TroubleNat, BudgetKeeps
  <1>5. CASE Mark(t) \/ TurnFails(t) \/ Retry(t)
    <2>1. PICK pc : /\ job'[t].pc = pc /\ \A q \in Thread \ {t} : job'[q] = job[q]
                    /\ pc \in {"turn", "wait"} => job[t].pc \in {"turn", "wait"}
      <3>1. CASE Mark(t)
        BY <1>3, <3>1 DEF Mark
      <3>2. CASE TurnFails(t)
        BY <1>3, <3>2 DEF TurnFails, Running
      <3>3. CASE Retry(t)
        BY <1>1, <3>3 DEF Retry, Running, Types
      <3> QED
        BY <1>5, <3>1, <3>2, <3>3
    <2>2. /\ line' = line /\ turns' = turns /\ Trouble' = Trouble
          /\ inbox' = inbox /\ seen \subseteq seen'
      BY <1>5 DEF Mark, TurnFails, Retry, Trouble
    <2>3. \A x \in Event : Waits(x)' => Waits(x)
      BY <1>1, <2>1, <2>2, HeadPends
    <2>4. \A x \in Event : Pending(x)' => Pending(x)
      BY <1>2, <2>3 DEF Pending
    <2> QED
      BY <2>2, <2>4, TroubleNat, BudgetKeeps
  <1>6. CASE RecordFails(t)
    <2>1. Trouble' = Trouble + 1 /\ turns' = turns /\ UNCHANGED <<inbox, seen>>
      BY <1>6 DEF RecordFails, Fault, Trouble, Types
    <2>2. Trouble \in Nat
      BY TroubleNat
    <2>3. Trouble < Trouble' /\ Trouble <= Trouble'
      BY <2>1, <2>2
    <2> QED
      BY <2>1, <2>3, BudgetKeeps
  <1>7. CASE TurnDone(t)
    <2>1. /\ line' = line /\ job'[t].pc = "mark" /\ \A q \in Thread \ {t} : job'[q] = job[q]
          /\ turns' = [turns EXCEPT ![On(t)] = turns[On(t)] + 1]
          /\ UNCHANGED <<seen, inbox, phase, todo, handling, pos>> /\ Trouble' = Trouble
          /\ job[t].pc = "turn"
      BY <1>3, <1>7 DEF TurnDone, Running, Trouble
    <2>2. /\ line[t] \in Seq(Event) /\ On(t) = line[t][1] /\ 1 \in 1 .. Len(line[t])
          /\ ThreadOf[On(t)] = t /\ On(t) \in inbox /\ On(t) \notin todo /\ phase # "down"
      BY <1>1, SMTT(30) DEF On, Lines, Chained, Listed, Types
    <2> PICK d \in Event : d = On(t)
      BY <1>1
    <2>3. Pending(d)
      BY <1>1, <2>1, <2>2 DEF Pending, Waits, Chain
    <2>4. ~Pending(d)'
      <3>1. ~Waits(d)'
        BY <2>1, <2>2 DEF Waits, Chain, Lines, Once
      <3>2. ~(handling \in {"admit", "put", "advance"} /\ Now = d)
        BY <2>2 DEF Lines, Apart, Occurs
      <3> QED
        BY <2>1, <2>2, <3>1, <3>2 DEF Pending, Now
    <2>5. \A x \in Event : Waits(x)' => Waits(x)
      BY <1>1, <2>1, HeadPends
    <2>6. \A x \in Event : Pending(x)' => Pending(x)
      BY <1>2, <2>5 DEF Pending
    <2>7. Trouble \in Nat /\ turns \in [Event -> Nat]
      BY TroubleNat DEF Types
    <2> SUFFICES ASSUME NEW e \in Event
                 PROVE  /\ turns'[e] <= 1 + Trouble
                        /\ Pending(e)' => turns'[e] <= Trouble
                        /\ e \notin seen /\ e \notin inbox => turns'[e] = 0
      BY <2>1 DEF Budget
    <2>8. CASE e = d
      <3>1. turns[e] <= Trouble /\ turns'[e] = turns[e] + 1 /\ turns[e] \in Nat
        BY <2>1, <2>3, <2>7, <2>8 DEF Budget
      <3>2. e \in inbox
        BY <2>2, <2>8
      <3> QED
        BY <2>4, <2>7, <2>8, <3>1, <3>2
    <2>9. CASE e # d
      <3>1. turns'[e] = turns[e]
        BY <2>1, <2>7, <2>9
      <3> QED
        BY <2>6, <3>1 DEF Budget
    <2> QED
      BY <2>8, <2>9
  <1> QED
    BY <1>4, <1>5, <1>6, <1>7 DEF Delivering

LEMMA BudgetStep == Types /\ Lines /\ Budget /\ [Next]_vars => Budget'
  <1> SUFFICES ASSUME Types, Lines, Budget, [Next]_vars PROVE Budget'
    OBVIOUS
  <1> USE DEF stored, listener, deliveries, history, bounds
  <1>1. Types' /\ Trouble \in Nat
    BY TypesStep, TroubleNat
  <1>2. handling # "none" => phase = "listening" /\ Now \in Event
    BY NowTyped DEF Types
  <1>3. ASSUME turns' = turns, UNCHANGED <<crashes, faults>>, raced' >= raced,
               \A e \in Event : Pending(e)' =>
                  Pending(e) \/ raced' > raced \/ (e \notin seen /\ e \notin inbox),
               inbox \subseteq inbox', seen \subseteq seen'
        PROVE  Budget'
    <2>1. Trouble <= Trouble' /\ (raced' > raced => Trouble < Trouble')
      <3>1. crashes + faults \in Nat /\ raced \in Nat /\ raced' \in Nat
        BY <1>1 DEF Types
      <3>2. crashes' + faults' = crashes + faults
        BY <1>3
      <3> QED
        BY <1>3, <3>1, <3>2 DEF Trouble
    <2> QED
      BY <1>1, <1>3, <2>1, BudgetKeeps
  <1>4. ASSUME turns' = turns, Trouble' = Trouble + 1, UNCHANGED <<inbox, seen>>
        PROVE  Budget'
    <2>1. Trouble < Trouble' /\ Trouble <= Trouble'
      BY <1>1, <1>4
    <2> QED
      BY <1>1, <1>4, <2>1, BudgetKeeps
  <1>5. ASSUME UNCHANGED <<line, job>> PROVE \A e \in Event : Waits(e)' <=> Waits(e)
    BY <1>5 DEF Waits, Chain
  <1>6. CASE Start \/ Listen \/ StopListening \/ Receive \/ StreamEnds \/ Close \/ UNCHANGED vars
    <2>1. /\ turns' = turns /\ UNCHANGED <<crashes, faults, raced, inbox, seen, line, job>>
      BY <1>6 DEF Start, Listen, StopListening, Receive, StreamEnds, Close, vars
    <2>2. \A e \in Event : Pending(e)' => Pending(e)
      BY <1>2, <1>5, <1>6, <2>1 DEF Start, Listen, StopListening, Receive, StreamEnds, Close, vars, Pending,
                                 Lines, Listed, Now
    <2> QED
      BY <1>1, <1>3, <2>1, <2>2 DEF Types
  <1>7. CASE LookSeen \/ Admit \/ DeadLetter \/ Put \/ Skip
    <2>1. /\ turns' = turns /\ UNCHANGED <<crashes, faults, raced, line, job, phase, todo, pos>>
          /\ inbox \subseteq inbox' /\ seen \subseteq seen'
      BY <1>7 DEF LookSeen, Admit, DeadLetter, Put, Skip, Goes
    <2>2. handling' \in {"admit", "put", "advance"} => handling \in {"admit", "put", "advance"}
      BY <1>7 DEF LookSeen, Admit, DeadLetter, Put, Skip, Goes
    <2>3. \A e \in Event : Pending(e)' => Pending(e)
      BY <1>5, <2>1, <2>2 DEF Pending, Now
    <2> QED
      BY <1>1, <1>3, <2>1, <2>3 DEF Types
  <1>8. CASE LookInbox
    <2>1. /\ turns' = turns /\ UNCHANGED <<crashes, faults, line, job, phase, todo, pos, inbox, seen>>
          /\ raced \in Nat /\ raced' >= raced
          /\ (Now \in seen /\ Now \notin inbox => raced' > raced)
          /\ (handling' = "admit" => Now \notin inbox) /\ handling' \in {"skip", "admit"}
      BY <1>8 DEF LookInbox, InInbox, Goes, Types
    <2>2. \A e \in Event : Pending(e)' => Pending(e) \/ raced' > raced \/ (e \notin seen /\ e \notin inbox)
      BY <1>5, <2>1 DEF Pending, Now
    <2> QED
      BY <1>3, <2>1, <2>2
  <1>9. ASSUME NEW e \in Event, Deliver(e), UNCHANGED <<crashes, faults, raced, turns, job, inbox, seen, phase>>,
               todo' \subseteq todo, Pending(e), handling' = "none"
        PROVE  Budget'
    <2>1. \A x \in Event : Pending(x)' => Pending(x)
      BY <1>9, DeliverPends DEF Pending
    <2> QED
      BY <1>1, <1>3, <1>9, <2>1 DEF Types
  <1>10. ASSUME NEW e \in Event, Redeliver(e) PROVE Budget'
    <2>1. handling = "none" /\ Pending(e)
      BY <1>2, <1>10 DEF Redeliver, Pending
    <2> QED
      BY <1>9, <1>10, <2>1 DEF Redeliver
  <1>11. CASE Advance
    <2>1. Now \in Event /\ Pending(Now)
      BY <1>2, <1>11 DEF Advance, Pending
    <2> QED
      BY <1>9, <1>11, <2>1 DEF Advance
  <1>12. CASE StartFails \/ AdmitFails \/ HandlerFails \/ Crash
    <2>1. turns' = turns /\ UNCHANGED <<inbox, seen>> /\ Trouble' = Trouble + 1
      BY <1>12 DEF StartFails, AdmitFails, HandlerFails, Crash, Fault, Trouble, Types
    <2> QED
      BY <1>4, <2>1
  <1>13. ASSUME NEW t \in Thread, Delivering(t) \/ TurnFails(t) \/ RecordFails(t) PROVE Budget'
    BY <1>1, <1>13, DeliveringBudget
  <1> QED
    BY <1>6, <1>7, <1>8, <1>10, <1>11, <1>12, <1>13 DEF Next, Listening

(* An event starts one turn, and one more at most for each crash, each failed
   call and each repetition whose two lookups straddle the end of the first
   delivery (triggers.ts:280-285, 374-392). *)
THEOREM TurnsBounded == Safety => []OneTurnPerTrouble
  <1>1. Init => Types /\ Lines /\ Budget
    BY TypesInit, LinesInit, BudgetInit
  <1>2. Types /\ Lines /\ Budget /\ [Next]_vars => (Types /\ Lines /\ Budget)'
    BY TypesStep, LinesStep, BudgetStep
  <1>3. Types /\ Budget => OneTurnPerTrouble
    BY DEF Types, Budget, Trouble, OneTurnPerTrouble
  <1> QED
    BY <1>1, <1>2, <1>3, PTL DEF Safety

=============================================================================
