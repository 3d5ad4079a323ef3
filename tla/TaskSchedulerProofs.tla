------------------------ MODULE TaskSchedulerProofs -------------------------
(***************************************************************************)
(* What the task store and its two schedulers keep for every number of     *)
(* tasks, edits and units of time: the writer's decisions survive, one     *)
(* process carries tasks out, an occasion is answered at most once.        *)
(*                                                                         *)
(* The last rests on the clock.  Whatever sets a task's due time sets it   *)
(* to a later moment than now, so an occasion that was answered lies       *)
(* before the next one of the same id, even if the id is used again.       *)
(***************************************************************************)
EXTENDS TaskScheduler, FiniteSetTheorems, SequenceTheorems, WellFoundedInduction, TLAPS

USE SchedulerAssumption

\* A store within its limits, whose ids are unique and none above limit.
StoreOK(tasks, limit) ==
    /\ tasks \subseteq Task
    /\ IsFiniteSet(tasks) /\ Cardinality(tasks) <= MaxTasks
    /\ \A s, t \in tasks : s.id = t.id => s = t
    /\ \A t \in tasks : t.id <= limit

\* An id is never more than one edit ahead of the clock.
IdsPassed == StoreOK(store, now + edits)

\* Whoever carries tasks out holds the lease.
Leased == /\ pc # "down" => owner = "agent"
          /\ uiSnap # {} => owner = "ui"

\* The tasks the agent carries out were due, and an answered occasion lies
\* before the task's next one.
Passed(occasion) ==
    /\ occasion[2] <= now
    /\ \A t \in store : t.id = occasion[1] => occasion[2] < t.due
OccasionsPass ==
    /\ \A t \in snap : t.due <= now
    /\ \A o \in posted : Passed(o)
    /\ pc = "queueing" => \A o \in Occasions(snap) : Passed(o) /\ o \notin posted

IInv == TypeOK /\ IdsPassed /\ EditsSurvive /\ Leased /\ OccasionsPass

-----------------------------------------------------------------------------
(* Numbers.                                                                *)

\* A set of natural numbers has a least one.
LEMMA LeastOf ==
    ASSUME NEW T \in SUBSET Nat, T # {}
    PROVE  \E m \in T : \A n \in T : m <= n
<1>1. PICK m \in T : \A n \in T : ~(<<n, m>> \in OpToRel(<, Nat))
    BY NatLessThanWellFounded, WFMin
<1>2. \A n \in T : ~(n < m)
    BY <1>1, Zenon DEF OpToRel
<1> QED BY <1>2

\* A bounded one has a largest one.
LEMMA LargestOf ==
    ASSUME NEW T \in SUBSET Nat, T # {}, NEW limit \in Nat, \A n \in T : n <= limit
    PROVE  \E m \in T : \A n \in T : n <= m
<1> DEFINE D == {limit - n : n \in T}
<1>0. \A n \in T : limit - n \in Nat
    OBVIOUS
<1>1. D \subseteq Nat /\ D # {}
    BY <1>0
<1>2. PICK d \in D : \A e \in D : d <= e
    <2> HIDE DEF D
    <2> QED BY <1>1, LeastOf
<1>3. PICK m \in T : d = limit - m
    BY DEF D
<1>4. \A n \in T : limit - m <= limit - n
    BY <1>2, <1>3
<1> QED BY <1>4

\* The id of a new task is of no task of the store, and one above the bound at
\* most (next_id).
LEMMA NewIdIsNew ==
    ASSUME TypeOK, IdsPassed
    PROVE  /\ NewId \in Nat /\ NewId <= now + edits + 1
           /\ \A t \in store : t.id # NewId
<1>0. now \in Nat /\ edits \in Nat /\ \A t \in store : t.id \in Nat /\ t.id <= now + edits
    BY DEF TypeOK, IdsPassed, StoreOK, Task, Ids
<1>1. CASE store = {}
    BY <1>0, <1>1 DEF NewId
<1>2. CASE store # {}
    <2> DEFINE T == {t.id : t \in store}
               last == CHOOSE i \in T : \A t \in store : t.id <= i
    <2>1. T \in SUBSET Nat /\ T # {} /\ \A n \in T : n <= now + edits
        BY <1>0, <1>2
    <2>2. \E i \in T : \A n \in T : n <= i
        <3> HIDE DEF T
        <3>1. now + edits \in Nat
            BY <1>0
        <3> QED BY <2>1, <3>1, LargestOf
    <2>3. \E i \in T : \A t \in store : t.id <= i
        BY <2>2
    <2>4. last \in T /\ \A t \in store : t.id <= last
        BY <2>3
    <2>5. NewId = IF last + 1 > now THEN last + 1 ELSE now
        BY <1>2 DEF NewId
    <2>6. last \in Nat /\ last <= now + edits
        BY <2>1, <2>4
    <2> HIDE DEF last
    <2> QED BY <1>0, <2>4, <2>5, <2>6
<1> QED BY <1>1, <1>2

\* The time the agent waits for is a time.
LEMMA NextDueIsATimer ==
    ASSUME TypeOK
    PROVE  NextDue(store) \in Timer /\ Never \in Timer /\ Retry \in Timer
<1>1. Never \in Timer
    BY DEF Never, Timer
<1>2. Retry \in Timer
    BY DEF Retry, Timer, TypeOK, Times
<1>3. CASE Active(store) # {}
    <2> DEFINE D == {t.due : t \in Active(store)}
    <2>1. D \in SUBSET Nat /\ D \subseteq Times /\ D # {}
        BY <1>3 DEF Active, TypeOK, Task, Times
    <2>2. \E d \in D : \A n \in D : d <= n
        <3> HIDE DEF D
        <3> QED BY <2>1, LeastOf
    <2>3. \E d \in D : \A t \in Active(store) : d <= t.due
        BY <2>2
    <2>4. (CHOOSE d \in D : \A t \in Active(store) : d <= t.due) \in Times
        BY <2>1, <2>3
    <2> QED BY <1>1, <1>2, <1>3, <2>4 DEF NextDue, Timer
<1> QED BY <1>1, <1>2, <1>3 DEF NextDue

-----------------------------------------------------------------------------
(* The store.                                                              *)

\* Bounds may rise.
LEMMA StoreFits ==
    ASSUME NEW tasks, NEW a \in Nat, NEW b \in Nat, a <= b, StoreOK(tasks, a)
    PROVE  StoreOK(tasks, b)
  BY DEF StoreOK, Task, Ids

\* Tasks that are changed one by one and keep their ids make a store again.
LEMMA ChangedStoreFits ==
    ASSUME NEW tasks, NEW limit, StoreOK(tasks, limit),
           NEW f \in [tasks -> Task], \A t \in tasks : f[t].id = t.id
    PROVE  StoreOK({f[t] : t \in tasks}, limit)
<1> DEFINE changed == {f[t] : t \in tasks}
<1>1. f \in Surjection(tasks, changed)
    <2>1. f \in [tasks -> changed]
        OBVIOUS
    <2>2. \A u \in changed : \E t \in tasks : f[t] = u
        OBVIOUS
    <2> QED BY <2>1, <2>2 DEF Surjection
<1>2. IsFiniteSet(changed) /\ Cardinality(changed) <= Cardinality(tasks)
    <2> HIDE DEF changed
    <2> QED BY <1>1, FS_Surjection DEF StoreOK
<1>3. Cardinality(changed) <= MaxTasks
    BY <1>2, FS_CardinalityType DEF StoreOK
<1>4. changed \subseteq Task
    OBVIOUS
<1>5. \A s, t \in changed : s.id = t.id => s = t
    BY DEF StoreOK
<1>6. \A t \in changed : t.id <= limit
    BY DEF StoreOK
<1> QED BY <1>2, <1>3, <1>4, <1>5, <1>6 DEF StoreOK

\* A task is added (TaskStore::add_at).
LEMMA AddedStoreFits ==
    ASSUME NEW tasks, NEW a \in Nat, NEW b \in Nat, a <= b, StoreOK(tasks, a),
           NEW t \in Task, t.id <= b, \A s \in tasks : s.id # t.id,
           Cardinality(tasks) < MaxTasks
    PROVE  StoreOK(tasks \cup {t}, b)
<1>1. t \notin tasks
    OBVIOUS
<1>2. IsFiniteSet(tasks \cup {t}) /\ Cardinality(tasks \cup {t}) = Cardinality(tasks) + 1
    BY <1>1, FS_AddElement DEF StoreOK
<1>3. Cardinality(tasks) \in Nat
    BY FS_CardinalityType DEF StoreOK
<1>4. StoreOK(tasks, b)
    BY StoreFits
<1>5. Cardinality(tasks \cup {t}) <= MaxTasks
    BY <1>2, <1>3
<1>6. \A u \in tasks \cup {t} : u \in Task /\ u.id <= b
    BY <1>4 DEF StoreOK
<1>7. \A u, v \in tasks \cup {t} : u.id = v.id => u = v
    BY <1>4 DEF StoreOK
<1> QED BY <1>2, <1>5, <1>6, <1>7 DEF StoreOK

\* A task is deleted.
LEMMA ReducedStoreFits ==
    ASSUME NEW tasks, NEW limit, StoreOK(tasks, limit), NEW t
    PROVE  StoreOK(tasks \ {t}, limit)
<1>1. IsFiniteSet(tasks \ {t}) /\ Cardinality(tasks \ {t}) <= Cardinality(tasks)
    BY FS_Subset DEF StoreOK
<1>2. Cardinality(tasks \ {t}) \in Nat /\ Cardinality(tasks) \in Nat
    BY <1>1, FS_CardinalityType DEF StoreOK
<1> QED BY <1>1, <1>2 DEF StoreOK

\* One task is replaced by one with its id.
LEMMA ReplacedStoreFits ==
    ASSUME NEW tasks, NEW limit, StoreOK(tasks, limit),
           NEW t \in tasks, NEW u \in Task, u.id = t.id
    PROVE  StoreOK((tasks \ {t}) \cup {u}, limit)
<1> DEFINE f == [x \in tasks |-> IF x = t THEN u ELSE x]
<1>1. f \in [tasks -> Task] /\ \A x \in tasks : f[x].id = x.id
    BY DEF StoreOK
<1>2. {f[x] : x \in tasks} = (tasks \ {t}) \cup {u}
    OBVIOUS
<1> HIDE DEF f
<1> QED BY <1>1, <1>2, ChangedStoreFits

\* What a step does to the tasks: they keep their limits and the writer's
\* decisions, and a due time that is set is set to a later moment.
StoreSteps ==
    /\ StoreOK(store', now' + edits')
    /\ EditsSurvive'
    /\ wish' \subseteq [id : Ids, rev : 0..MaxEdits, paused : BOOLEAN]
    /\ \A t \in store' : t.due = now + 1 \/ \E u \in store : u.id = t.id /\ u.due = t.due

\* Decisions have a shape.
LEMMA DecisionShapes ==
    \A t \in Task : Decided(t) \in [id : Ids, rev : 0..MaxEdits, paused : BOOLEAN]
  BY DEF Task, Decided

\* The writer edits the tasks.
LEMMA EditSteps ==
    ASSUME TypeOK, IdsPassed, Add \/ Delete \/ Pause \/ Resume \/ Modify
    PROVE  StoreSteps
<1>0. /\ now \in Nat /\ edits \in Nat /\ now + 1 \in Times
      /\ now + edits \in Nat /\ now + edits + 1 \in Nat
    BY DEF TypeOK, Times
<1>1. ASSUME NEW tasks, Edit(tasks), StoreOK(tasks, now + edits + 1),
             \A t \in tasks : t.due = now + 1 \/ \E u \in store : u.id = t.id /\ u.due = t.due
      PROVE  StoreSteps
    <2>1. /\ store' = tasks /\ wish' = {Decided(t) : t \in tasks}
          /\ now' + edits' = now + edits + 1
        BY <1>0, <1>1 DEF Edit
    <2>2. wish' \subseteq [id : Ids, rev : 0..MaxEdits, paused : BOOLEAN]
        BY <1>1, <2>1, DecisionShapes DEF StoreOK
    <2> QED BY <1>1, <2>1, <2>2 DEF StoreSteps, EditsSurvive
<1>2. StoreOK(store, now + edits + 1)
    BY <1>0, StoreFits DEF IdsPassed
<1>3. CASE Add
    <2> DEFINE t == [id |-> NewId, rev |-> edits, due |-> now + 1, paused |-> FALSE]
    <2>1. /\ NewId \in Nat /\ NewId <= now + edits + 1
          /\ \A s \in store : s.id # NewId
        BY NewIdIsNew
    <2>2. edits < MaxEdits /\ now <= MaxNow
        BY <1>3 DEF Add, Edit, TypeOK
    <2>3. NewId \in Ids /\ edits \in 0..MaxEdits
        BY <1>0, <2>1, <2>2 DEF Ids
    <2>4. t \in Task /\ t.id = NewId /\ t.due = now + 1
        BY <1>0, <2>3 DEF Task
    <2>5. Edit(store \cup {t}) /\ Cardinality(store) < MaxTasks
        BY <1>3 DEF Add
    <2> HIDE DEF t
    <2>6. StoreOK(store \cup {t}, now + edits + 1)
        BY <1>0, <2>1, <2>4, <2>5, AddedStoreFits DEF IdsPassed
    <2>7. \A s \in store \cup {t} : s.due = now + 1 \/ \E u \in store : u.id = s.id /\ u.due = s.due
        BY <2>4
    <2> QED BY <1>1, <2>5, <2>6, <2>7
<1>4. CASE Delete
    <2>1. PICK t \in store : Edit(store \ {t})
        BY <1>4 DEF Delete
    <2>2. StoreOK(store \ {t}, now + edits + 1)
        BY <1>2, ReducedStoreFits
    <2> QED BY <1>1, <2>1, <2>2
<1>5. ASSUME NEW t \in store, NEW u \in Task, u.id = t.id,
             u.due = t.due \/ u.due = now + 1, Edit((store \ {t}) \cup {u})
      PROVE  StoreSteps
    <2>1. StoreOK((store \ {t}) \cup {u}, now + edits + 1)
        BY <1>2, <1>5, ReplacedStoreFits
    <2>2. \A s \in (store \ {t}) \cup {u} :
              s.due = now + 1 \/ \E v \in store : v.id = s.id /\ v.due = s.due
        BY <1>5
    <2> QED BY <1>1, <1>5, <2>1, <2>2
<1>6. CASE Pause
    <2>1. PICK t \in store : Edit((store \ {t}) \cup {[t EXCEPT !.paused = TRUE]})
        BY <1>6 DEF Pause
    <2>2. t \in Task
        BY DEF TypeOK
    <2>3. /\ [t EXCEPT !.paused = TRUE] \in Task
          /\ [t EXCEPT !.paused = TRUE].id = t.id /\ [t EXCEPT !.paused = TRUE].due = t.due
        BY <2>2 DEF Task
    <2> QED BY <1>5, <2>1, <2>3
<1>7. CASE Resume
    <2>1. PICK t \in store : Edit((store \ {t}) \cup {[t EXCEPT !.paused = FALSE, !.due = now + 1]})
        BY <1>7 DEF Resume
    <2>2. t \in Task
        BY DEF TypeOK
    <2>3. /\ [t EXCEPT !.paused = FALSE, !.due = now + 1] \in Task
          /\ [t EXCEPT !.paused = FALSE, !.due = now + 1].id = t.id
          /\ [t EXCEPT !.paused = FALSE, !.due = now + 1].due = now + 1
        BY <1>0, <2>2 DEF Task
    <2> QED BY <1>5, <2>1, <2>3
<1>8. CASE Modify
    <2>1. PICK t \in store : Edit((store \ {t}) \cup {[t EXCEPT !.rev = edits, !.due = now + 1]})
        BY <1>8 DEF Modify
    <2>2. t \in Task /\ edits \in 0..MaxEdits
        BY DEF TypeOK
    <2>3. /\ [t EXCEPT !.rev = edits, !.due = now + 1] \in Task
          /\ [t EXCEPT !.rev = edits, !.due = now + 1].id = t.id
          /\ [t EXCEPT !.rev = edits, !.due = now + 1].due = now + 1
        BY <1>0, <2>2 DEF Task
    <2> QED BY <1>5, <2>1, <2>3
<1> QED BY <1>3, <1>4, <1>6, <1>7, <1>8

\* A result is accepted: the tasks it is about move on, the writer's decisions
\* stay (complete_due_if_unchanged).
LEMMA CompletionSteps ==
    ASSUME TypeOK, IdsPassed, EditsSurvive, NEW tasks, Unchanged(tasks, store),
           store' = Advanced(tasks), UNCHANGED <<clockVars, wish>>
    PROVE  /\ StoreSteps
           /\ \A t \in tasks, u \in store' : u.id = t.id => u.due = now + 1
<1> DEFINE f == [t \in store |-> IF t \in tasks THEN [t EXCEPT !.due = now + 1] ELSE t]
<1>0. /\ now + 1 \in Times /\ now' + edits' = now + edits
      /\ tasks \subseteq store /\ store \subseteq Task
    BY DEF TypeOK, Times, clockVars, Unchanged
<1>1. \A t \in store : /\ [t EXCEPT !.due = now + 1] \in Task
                        /\ [t EXCEPT !.due = now + 1].id = t.id
                        /\ [t EXCEPT !.due = now + 1].due = now + 1
                        /\ Decided([t EXCEPT !.due = now + 1]) = Decided(t)
    BY <1>0 DEF Task, Decided
<1>2. /\ f \in [store -> Task]
      /\ \A t \in store : f[t].id = t.id /\ Decided(f[t]) = Decided(t)
    BY <1>0, <1>1
<1>3. store' = {f[t] : t \in store}
    BY <1>0 DEF Advanced
<1>4. \A t \in store : f[t].due = IF t \in tasks THEN now + 1 ELSE t.due
    BY <1>1
<1>5. \A s, t \in store : s.id = t.id => s = t
    BY DEF IdsPassed, StoreOK
<1> HIDE DEF f
<1>6. StoreOK(store', now' + edits')
    BY <1>0, <1>2, <1>3, ChangedStoreFits DEF IdsPassed
<1>7. EditsSurvive'
    <2>1. {Decided(u) : u \in store'} = {Decided(f[t]) : t \in store}
        BY <1>3
    <2>2. {Decided(f[t]) : t \in store} = {Decided(t) : t \in store}
        BY <1>2
    <2> QED BY <2>1, <2>2 DEF EditsSurvive
<1>8. wish' \subseteq [id : Ids, rev : 0..MaxEdits, paused : BOOLEAN]
    BY DEF TypeOK
<1>9. \A u \in store' : u.due = now + 1 \/ \E t \in store : t.id = u.id /\ t.due = u.due
    BY <1>2, <1>3, <1>4
<1>10. \A t \in tasks, u \in store' : u.id = t.id => u.due = now + 1
    BY <1>0, <1>2, <1>3, <1>4, <1>5
<1> QED BY <1>6, <1>7, <1>8, <1>9, <1>10 DEF StoreSteps

\* Every step leaves the tasks alone, edits them, or completes some of them.
LEMMA EveryStoreStep ==
    ASSUME TypeOK, IdsPassed, EditsSurvive, [Next]_vars
    PROVE  StoreSteps
<1>1. ASSUME UNCHANGED <<store, wish, edits>>, now' \in {now, now + 1}
      PROVE  StoreSteps
    <2>1. StoreOK(store', now' + edits')
        BY <1>1, StoreFits DEF IdsPassed, TypeOK
    <2>2. EditsSurvive' /\ wish' = wish
        BY <1>1 DEF EditsSurvive
    <2> QED BY <1>1, <2>1, <2>2 DEF StoreSteps, TypeOK
<1>2. CASE Clock
    BY <1>1, <1>2 DEF Clock, storeVars
<1>3. CASE Add \/ Delete \/ Pause \/ Resume \/ Modify
    BY <1>3, EditSteps
<1>4. CASE Complete
    <2>1. CASE Unchanged(snap, store)
        BY <1>4, <2>1, CompletionSteps DEF Complete
    <2>2. CASE ~Unchanged(snap, store)
        BY <1>1, <1>4, <2>2 DEF Complete, clockVars
    <2> QED BY <2>1, <2>2
<1>5. CASE HeartbeatAnswered
    <2>1. CASE Unchanged(uiSnap, store)
        BY <1>5, <2>1, CompletionSteps DEF HeartbeatAnswered
    <2>2. CASE ~Unchanged(uiSnap, store)
        BY <1>1, <1>5, <2>2 DEF HeartbeatAnswered, clockVars
    <2> QED BY <2>1, <2>2
<1>6. CASE AgentStarts \/ AgentDies \/ Scan \/ Arm \/ Wake \/ Answer \/ QueueReply
    BY <1>1, <1>6
       DEF AgentStarts, AgentDies, Scan, Arm, Wake, Answer, QueueReply, clockVars, storeVars
<1>7. CASE UiStarts \/ UiDies \/ TakeReply \/ StartHeartbeat \/ HeartbeatEnds
    BY <1>1, <1>7
       DEF UiStarts, UiDies, TakeReply, StartHeartbeat, HeartbeatEnds, clockVars, storeVars
<1>8. CASE UNCHANGED vars
    BY <1>1, <1>8 DEF vars, clockVars, storeVars
<1> QED BY <1>2, <1>3, <1>4, <1>5, <1>6, <1>7, <1>8 DEF Next

-----------------------------------------------------------------------------
(* Types.                                                                  *)

\* TypeOK without the store, in parts.
ClockTypes == now \in 0..MaxNow /\ edits \in 0..MaxEdits
AgentTypes == /\ pc \in {"down", "scan", "arming", "asleep", "asking", "answered", "queueing"}
              /\ entries \subseteq Task /\ snap \subseteq Task
              /\ timer \in Timer /\ woken \in BOOLEAN
UiTypes    == /\ ui \in {"down", "hosted", "takeover"} /\ uiSnap \subseteq Task
              /\ queueMode \in BOOLEAN /\ owner \in {"none", "agent", "ui"}
QueueTypes == queue \in Seq(SUBSET Task) /\ posted \subseteq Ids \X Times

\* TypeOK is made of these parts, ...
LEMMA TypeParts ==
    TypeOK => ClockTypes /\ AgentTypes /\ UiTypes /\ QueueTypes
  BY DEF TypeOK, ClockTypes, AgentTypes, UiTypes, QueueTypes

\* ... and the parts make it up.
LEMMA TypesOfParts ==
    ASSUME StoreSteps, (ClockTypes /\ AgentTypes /\ UiTypes /\ QueueTypes)'
    PROVE  TypeOK'
  BY DEF StoreSteps, StoreOK, TypeOK, ClockTypes, AgentTypes, UiTypes, QueueTypes

\* Due tasks are tasks, and occasions are of ids and times.
LEMMA DueTasks ==
    /\ \A t \in Due(store) : t \in store /\ t.due <= now
    /\ \A tasks \in SUBSET Task : Occasions(tasks) \subseteq Ids \X Times
  BY DEF Due, Occasions, Task

\* The agent's steps keep the types of everything but the store.
LEMMA AgentKeepsTypes ==
    ASSUME TypeOK,
           AgentStarts \/ AgentDies \/ Scan \/ Arm \/ Wake \/ Answer \/ Complete \/ QueueReply
    PROVE  (ClockTypes /\ AgentTypes /\ UiTypes /\ QueueTypes)'
<1>1. ClockTypes /\ AgentTypes /\ UiTypes /\ QueueTypes
    BY TypeParts
<1>2. CASE AgentStarts
    BY <1>1, <1>2, NextDueIsATimer
       DEF AgentStarts, clockVars, uiVars, queueVars, ClockTypes, AgentTypes, UiTypes, QueueTypes
<1>3. CASE AgentDies
    BY <1>1, <1>3, NextDueIsATimer
       DEF AgentDies, clockVars, uiVars, queueVars, ClockTypes, AgentTypes, UiTypes, QueueTypes
<1>4. CASE Scan
    <2>1. store \subseteq Task /\ Due(store) \subseteq Task
        BY DueTasks DEF TypeOK
    <2>2. UNCHANGED <<clockVars, uiVars, owner, queueVars, woken>>
        BY <1>4 DEF Scan
    <2>3. entries' = store /\ pc' \in {"asking", "arming"}
          /\ snap' \in {{}, Due(store)} /\ timer' \in {timer, NextDue(store), Retry}
        BY <1>4 DEF Scan, WaitFor
    <2> QED BY <1>1, <2>1, <2>2, <2>3, NextDueIsATimer
            DEF clockVars, uiVars, queueVars, ClockTypes, AgentTypes, UiTypes, QueueTypes
<1>5. CASE Arm \/ Wake
    BY <1>1, <1>5 DEF Arm, Wake, clockVars, uiVars, queueVars, ClockTypes, AgentTypes, UiTypes,
                      QueueTypes
<1>6. CASE Answer
    BY <1>1, <1>6, NextDueIsATimer
       DEF Answer, WaitFor, clockVars, uiVars, queueVars, ClockTypes, AgentTypes, UiTypes, QueueTypes
<1>7. CASE Complete
    BY <1>1, <1>7
       DEF Complete, clockVars, uiVars, queueVars, ClockTypes, AgentTypes, UiTypes, QueueTypes
<1>8. CASE QueueReply
    <2>1. queue' \in Seq(SUBSET Task)
        BY <1>1, <1>8 DEF QueueReply, AgentTypes, QueueTypes
    <2>2. posted' \subseteq Ids \X Times
        BY <1>1, <1>8, DueTasks DEF QueueReply, AgentTypes, QueueTypes
    <2> QED BY <1>1, <1>8, <2>1, <2>2
            DEF QueueReply, clockVars, uiVars, ClockTypes, AgentTypes, UiTypes, QueueTypes
<1> QED BY <1>2, <1>3, <1>4, <1>5, <1>6, <1>7, <1>8

\* An empty queue is a queue.
LEMMA NoAnswers == <<>> \in Seq(SUBSET Task)
  BY EmptySeq

\* The application's steps, the clock's and the writer's do.
LEMMA OthersKeepTypes ==
    ASSUME TypeOK,
           \/ Clock \/ Add \/ Delete \/ Pause \/ Resume \/ Modify
           \/ UiStarts \/ UiDies \/ TakeReply
           \/ StartHeartbeat \/ HeartbeatAnswered \/ HeartbeatEnds \/ UNCHANGED vars
    PROVE  (ClockTypes /\ AgentTypes /\ UiTypes /\ QueueTypes)'
<1>1. ClockTypes /\ AgentTypes /\ UiTypes /\ QueueTypes
    BY TypeParts
<1>2. CASE Clock
    BY <1>1, <1>2 DEF Clock, agentVars, uiVars, queueVars, ClockTypes, AgentTypes, UiTypes,
                      QueueTypes
<1>3. CASE Add \/ Delete \/ Pause \/ Resume \/ Modify
    <2>1. PICK tasks : Edit(tasks)
        BY <1>3, Zenon DEF Add, Delete, Pause, Resume, Modify
    <2> QED BY <1>1, <2>1 DEF Edit, Changed, agentVars, uiVars, queueVars, ClockTypes,
                              AgentTypes, UiTypes, QueueTypes
<1>4. CASE UiStarts
    BY <1>1, <1>4 DEF UiStarts, clockVars, agentVars, queueVars, ClockTypes, AgentTypes,
                      UiTypes, QueueTypes
<1>5. CASE UiDies
    <2>0. queue' = queue \/ queue' = <<>>
        BY <1>5 DEF UiDies
    <2>01. queue \in Seq(SUBSET Task)
        BY <1>1 DEF QueueTypes
    <2>1. queue' \in Seq(SUBSET Task)
        BY ONLY <2>0, <2>01, NoAnswers
    <2> QED BY <1>1, <1>5, <2>1 DEF UiDies, clockVars, agentVars, ClockTypes, AgentTypes,
                                    UiTypes, QueueTypes
<1>6. CASE TakeReply
    <2>1. queue' \in Seq(SUBSET Task)
        BY <1>1, <1>6 DEF TakeReply, QueueTypes
    <2> QED BY <1>1, <1>6, <2>1 DEF TakeReply, clockVars, agentVars, uiVars, ClockTypes,
                                    AgentTypes, UiTypes, QueueTypes
<1>7. CASE StartHeartbeat
    BY <1>1, <1>7, DueTasks DEF StartHeartbeat, TypeOK, clockVars, agentVars, queueVars,
                                ClockTypes, AgentTypes, UiTypes, QueueTypes
<1>8. CASE HeartbeatAnswered
    BY <1>1, <1>8 DEF HeartbeatAnswered, Changed, clockVars, agentVars, queueVars, ClockTypes,
                      AgentTypes, UiTypes, QueueTypes
<1>9. CASE HeartbeatEnds
    BY <1>1, <1>9 DEF HeartbeatEnds, clockVars, agentVars, queueVars, ClockTypes, AgentTypes,
                      UiTypes, QueueTypes
<1>10. CASE UNCHANGED vars
    BY <1>1, <1>10 DEF vars, clockVars, agentVars, uiVars, queueVars, ClockTypes, AgentTypes,
                       UiTypes, QueueTypes
<1> QED BY <1>2, <1>3, <1>4, <1>5, <1>6, <1>7, <1>8, <1>9, <1>10

-----------------------------------------------------------------------------
(* The lease and the occasions.                                            *)

\* The lease passes from one process to the other only when it was given back
\* (SchedulerLease).
LEMMA LeaseStep ==
    ASSUME Leased, [Next]_vars
    PROVE  Leased'
<1>1. CASE AgentStarts \/ AgentDies
    BY <1>1 DEF Leased, AgentStarts, AgentDies, uiVars
<1>2. CASE Scan \/ Arm \/ Wake \/ Answer \/ Complete \/ QueueReply
    <2>1. pc # "down" /\ UNCHANGED <<uiSnap, owner>>
        BY <1>2 DEF Scan, Arm, Wake, Answer, Complete, QueueReply, uiVars
    <2> QED BY <2>1 DEF Leased
<1>3. CASE UiStarts \/ TakeReply \/ Clock
    BY <1>3 DEF Leased, UiStarts, TakeReply, Clock, agentVars, uiVars
<1>4. CASE UiDies
    BY <1>4 DEF Leased, UiDies, agentVars
<1>5. CASE StartHeartbeat \/ HeartbeatAnswered \/ HeartbeatEnds
    BY <1>5 DEF Leased, StartHeartbeat, HeartbeatAnswered, HeartbeatEnds, agentVars
<1>6. CASE Add \/ Delete \/ Pause \/ Resume \/ Modify
    <2>1. PICK tasks : Edit(tasks)
        BY <1>6, Zenon DEF Add, Delete, Pause, Resume, Modify
    <2> QED BY <2>1 DEF Leased, Edit, agentVars, uiVars
<1>7. CASE UNCHANGED vars
    BY <1>7 DEF Leased, vars, agentVars, uiVars
<1> QED BY <1>1, <1>2, <1>3, <1>4, <1>5, <1>6, <1>7 DEF Next

\* The clock does not go back.
LEMMA ClockStep ==
    ASSUME TypeOK, [Next]_vars
    PROVE  now' \in Nat /\ now <= now' /\ now \in Nat
<1>1. now \in Nat
    BY DEF TypeOK
<1>2. CASE Clock
    BY <1>1, <1>2 DEF Clock
<1>3. CASE Add \/ Delete \/ Pause \/ Resume \/ Modify
    <2>1. PICK tasks : Edit(tasks)
        BY <1>3, Zenon DEF Add, Delete, Pause, Resume, Modify
    <2> QED BY <1>1, <2>1 DEF Edit
<1>4. ASSUME UNCHANGED clockVars
      PROVE  now' = now
    BY <1>4 DEF clockVars
<1>5. CASE AgentStarts \/ AgentDies \/ Scan \/ Arm \/ Wake \/ Answer \/ Complete \/ QueueReply
    BY <1>1, <1>4, <1>5
       DEF AgentStarts, AgentDies, Scan, Arm, Wake, Answer, Complete, QueueReply
<1>6. CASE UiStarts \/ UiDies \/ TakeReply \/ StartHeartbeat \/ HeartbeatAnswered \/ HeartbeatEnds
    BY <1>1, <1>4, <1>6
       DEF UiStarts, UiDies, TakeReply, StartHeartbeat, HeartbeatAnswered, HeartbeatEnds
<1>7. CASE UNCHANGED vars
    BY <1>1, <1>4, <1>7 DEF vars
<1> QED BY <1>2, <1>3, <1>5, <1>6, <1>7 DEF Next

\* An occasion that has passed stays behind its task: a due time that is set is
\* set to a later moment.
LEMMA PassedStays ==
    ASSUME TypeOK, StoreSteps, now' \in Nat, now <= now', now \in Nat,
           NEW o \in Ids \X Times, Passed(o)
    PROVE  Passed(o)'
<1>1. o[2] \in Nat /\ o[2] <= now'
    BY DEF Passed, Times
<1>2. ASSUME NEW t \in store', t.id = o[1]
      PROVE  o[2] < t.due
    <2>1. CASE t.due = now + 1
        BY <1>1, <2>1 DEF Passed
    <2>2. CASE \E u \in store : u.id = t.id /\ u.due = t.due
        BY <1>2, <2>2 DEF Passed
    <2> QED BY <2>1, <2>2 DEF StoreSteps
<1> QED BY <1>1, <1>2 DEF Passed

\* What the agent carries out and what was answered changes in its own steps
\* only.
LEMMA OthersPostNothing ==
    ASSUME \/ Clock \/ Add \/ Delete \/ Pause \/ Resume \/ Modify
           \/ UiStarts \/ UiDies \/ TakeReply
           \/ StartHeartbeat \/ HeartbeatAnswered \/ HeartbeatEnds \/ UNCHANGED vars
    PROVE  UNCHANGED <<pc, snap, posted>>
<1>1. CASE Add \/ Delete \/ Pause \/ Resume \/ Modify
    <2>1. PICK tasks : Edit(tasks)
        BY <1>1, Zenon DEF Add, Delete, Pause, Resume, Modify
    <2> QED BY <2>1 DEF Edit, agentVars, queueVars
<1>2. CASE Clock \/ UiStarts \/ UiDies \/ TakeReply
    BY <1>2 DEF Clock, UiStarts, UiDies, TakeReply, agentVars, queueVars
<1>3. CASE StartHeartbeat \/ HeartbeatAnswered \/ HeartbeatEnds
    BY <1>3 DEF StartHeartbeat, HeartbeatAnswered, HeartbeatEnds, agentVars, queueVars
<1>4. CASE UNCHANGED vars
    BY <1>4 DEF vars, agentVars, queueVars
<1> QED BY <1>1, <1>2, <1>3, <1>4

\* OccasionsPass is kept by every step.
LEMMA OccasionsStep ==
    ASSUME TypeOK, IdsPassed, EditsSurvive, OccasionsPass, StoreSteps, [Next]_vars
    PROVE  OccasionsPass'
<1>0. now' \in Nat /\ now <= now' /\ now \in Nat
    BY ClockStep
<1>1. \A o \in Ids \X Times : Passed(o) => Passed(o)'
    BY <1>0, PassedStays
<1>2. posted \subseteq Ids \X Times /\ Occasions(snap) \subseteq Ids \X Times
    BY DueTasks DEF TypeOK
<1>3. \A t \in snap : t.due \in Nat /\ t.due <= now
    BY DEF TypeOK, Task, Times, OccasionsPass
<1>4. \A o \in posted : Passed(o)'
    BY <1>1, <1>2 DEF OccasionsPass
<1>5. ASSUME UNCHANGED posted, snap' \subseteq snap, pc' = "queueing" => pc = "queueing"
      PROVE  OccasionsPass'
    <2>1. Occasions(snap') \subseteq Occasions(snap)
        BY <1>5 DEF Occasions
    <2>2. \A t \in snap' : t.due <= now'
        BY <1>0, <1>3, <1>5
    <2>3. pc' = "queueing" => \A o \in Occasions(snap') : Passed(o)' /\ o \notin posted'
        BY <1>1, <1>2, <1>5, <2>1 DEF OccasionsPass
    <2>4. Occasions(snap)' = Occasions(snap')
        BY DEF Occasions
    <2> QED BY <1>4, <1>5, <2>2, <2>3, <2>4 DEF OccasionsPass
<1>6. CASE AgentStarts \/ AgentDies \/ Arm \/ Wake \/ Answer
    BY <1>5, <1>6 DEF AgentStarts, AgentDies, Arm, Wake, Answer, WaitFor, queueVars
<1>7. CASE Scan
    <2>1. now' = now /\ UNCHANGED posted /\ pc' # "queueing" /\ snap' \subseteq Due(store)
        BY <1>7 DEF Scan, WaitFor, clockVars, queueVars
    <2>2. \A t \in snap' : t.due <= now'
        BY <2>1, DueTasks
    <2> QED BY <1>4, <2>1, <2>2 DEF OccasionsPass
<1>8. CASE Complete
    <2>1. CASE Unchanged(snap, store)
        <3>1. /\ now' = now /\ UNCHANGED <<posted, snap>>
            BY <1>8, <2>1 DEF Complete, clockVars, queueVars
        <3>2. \A t \in snap, u \in store' : u.id = t.id => u.due = now + 1
            BY <1>8, <2>1, CompletionSteps DEF Complete
        <3>3. ASSUME NEW o \in Occasions(snap)
              PROVE  Passed(o)'
            <4>1. PICK t \in snap : o = <<t.id, t.due>>
                BY <3>3 DEF Occasions
            <4>2. o[1] = t.id /\ o[2] = t.due
                BY <4>1
            <4>3. o[2] \in Nat /\ o[2] <= now
                BY <1>3, <4>2
            <4>4. \A u \in store' : u.id = o[1] => u.due = now + 1
                BY <3>2, <4>2
            <4> QED BY <1>0, <3>1, <4>3, <4>4 DEF Passed
        <3>4. \A o \in Occasions(snap) : o \notin posted
            <4>1. \A t \in snap : t \in store
                BY <2>1 DEF Unchanged
            <4>2. \A o \in posted, t \in snap : t.id = o[1] => o[2] < t.due
                BY <4>1 DEF OccasionsPass, Passed
            <4>3. \A t \in snap : <<t.id, t.due>> \in posted => t.due < t.due
                BY <4>2
            <4> QED BY <1>3, <4>3 DEF Occasions
        <3>5. Occasions(snap)' = Occasions(snap)
            BY <3>1 DEF Occasions
        <3> QED BY <1>3, <1>4, <3>1, <3>3, <3>4, <3>5 DEF OccasionsPass
    <2>2. CASE ~Unchanged(snap, store)
        BY <1>5, <1>8, <2>2 DEF Complete, queueVars
    <2> QED BY <2>1, <2>2
<1>9. CASE QueueReply
    <2>1. /\ pc = "queueing" /\ pc' = "scan" /\ snap' = {}
          /\ posted' = posted \cup Occasions(snap)
        BY <1>9 DEF QueueReply
    <2>2. \A o \in posted' : Passed(o)'
        BY <1>1, <1>2, <1>4, <2>1 DEF OccasionsPass
    <2> QED BY <2>1, <2>2 DEF OccasionsPass
<1>10. CASE \/ Clock \/ Add \/ Delete \/ Pause \/ Resume \/ Modify
            \/ UiStarts \/ UiDies \/ TakeReply
            \/ StartHeartbeat \/ HeartbeatAnswered \/ HeartbeatEnds \/ UNCHANGED vars
    BY <1>5, <1>10, OthersPostNothing
<1> QED BY <1>6, <1>7, <1>8, <1>9, <1>10 DEF Next

-----------------------------------------------------------------------------
(* The theorems.                                                           *)

\* The inductive invariant holds at first and is kept.
LEMMA InitIInv == Init => IInv
<1> SUFFICES ASSUME Init PROVE IInv
    OBVIOUS
<1>1. StoreOK({}, 0)
    BY FS_EmptySet DEF StoreOK
<1>2. TypeOK
    <2>1. Cardinality(store) <= MaxTasks
        BY FS_EmptySet, SchedulerAssumption DEF Init
    <2>2. queue \in Seq(SUBSET Task)
        BY NoAnswers DEF Init
    <2>3. timer \in Timer
        BY DEF Init, Never, Timer
    <2>4. now \in 0..MaxNow /\ edits \in 0..MaxEdits
        BY SchedulerAssumption DEF Init
    <2> QED BY <2>1, <2>2, <2>3, <2>4 DEF Init, TypeOK
<1>3. IdsPassed /\ EditsSurvive /\ Leased
    BY <1>1 DEF Init, IdsPassed, EditsSurvive, Leased
<1>4. OccasionsPass
    BY DEF Init, OccasionsPass
<1> QED BY <1>2, <1>3, <1>4 DEF IInv

\* Every step keeps the inductive invariant, ...
LEMMA StepIInv == IInv /\ [Next]_vars => IInv'
<1> SUFFICES ASSUME IInv, [Next]_vars PROVE IInv'
    OBVIOUS
<1>1. TypeOK /\ IdsPassed /\ EditsSurvive /\ Leased /\ OccasionsPass
    BY DEF IInv
<1>2. StoreSteps
    BY <1>1, EveryStoreStep
<1>3. TypeOK'
    BY <1>1, <1>2, AgentKeepsTypes, OthersKeepTypes, TypesOfParts DEF Next
<1>4. Leased' /\ OccasionsPass'
    BY <1>1, <1>2, LeaseStep, OccasionsStep
<1>5. IdsPassed' /\ EditsSurvive'
    BY <1>2 DEF StoreSteps, IdsPassed
<1> QED BY <1>3, <1>4, <1>5 DEF IInv

\* ... so it always holds.
LEMMA AlwaysIInv == Spec => []IInv
  BY InitIInv, StepIInv, PTL DEF Spec

\* The store, the agent, the queue and the application keep their shapes, and
\* ids stay unique.
THEOREM TypesAreKept == Spec => []TypeOK
<1>1. IInv => TypeOK
    BY DEF IInv
<1> QED BY <1>1, AlwaysIInv, PTL

\* What the writer decided of a task survives every completion
\* (complete_due_if_unchanged).
THEOREM EditsAlwaysSurvive == Spec => []EditsSurvive
<1>1. IInv => EditsSurvive
    BY DEF IInv
<1> QED BY <1>1, AlwaysIInv, PTL

\* The agent and the application never carry tasks out at the same time
\* (SchedulerLease).
THEOREM OneSchedulerAlways == Spec => []OneScheduler
<1>1. IInv => OneScheduler
    BY DEF IInv, Leased, OneScheduler
<1> QED BY <1>1, AlwaysIInv, PTL

\* An occasion is answered into the queue at most once (queue_reply).
THEOREM AnsweredAtMostOnce == Spec => QueuedOnce
<1> DEFINE Once == queue' # queue /\ Len(queue') > Len(queue)
                      => posted \cap Occasions(queue'[Len(queue')]) = {}
<1>1. IInv /\ [Next]_vars => [Once]_vars
    <2> SUFFICES ASSUME IInv, [Next]_vars, queue' # queue, Len(queue') > Len(queue)
                 PROVE  posted \cap Occasions(queue'[Len(queue')]) = {}
        OBVIOUS
    <2>0. queue \in Seq(SUBSET Task) /\ Len(queue) \in Nat
        BY LenProperties DEF IInv, TypeOK
    <2>1. CASE QueueReply
        <3>1. /\ pc = "queueing" /\ snap \in SUBSET Task /\ queue' = Append(queue, snap)
            BY <2>1 DEF QueueReply, IInv, TypeOK
        <3>2. queue'[Len(queue')] = snap
            BY <2>0, <3>1, AppendProperties
        <3> QED BY <3>1, <3>2 DEF IInv, OccasionsPass
    <2>2. CASE UiDies
        <3>1. queue' = <<>>
            BY <2>2 DEF UiDies
        <3> QED BY <2>0, <3>1
    <2>3. CASE TakeReply
        <3>1. queue # <<>> /\ queue' = Tail(queue)
            BY <2>3 DEF TakeReply
        <3>2. Len(queue') = Len(queue) - 1
            BY <2>0, <3>1, HeadTailProperties
        <3> QED BY <2>0, <3>2
    <2>4. CASE Add \/ Delete \/ Pause \/ Resume \/ Modify
        <3>1. PICK tasks : Edit(tasks)
            BY <2>4, Zenon DEF Add, Delete, Pause, Resume, Modify
        <3> QED BY <3>1 DEF Edit, queueVars
    <2>5. CASE AgentStarts \/ AgentDies \/ Scan \/ Arm \/ Wake \/ Answer \/ Complete
        BY <2>5 DEF AgentStarts, AgentDies, Scan, Arm, Wake, Answer, Complete, queueVars
    <2>6. CASE Clock \/ UiStarts \/ StartHeartbeat \/ HeartbeatAnswered \/ HeartbeatEnds
        BY <2>6 DEF Clock, UiStarts, StartHeartbeat, HeartbeatAnswered, HeartbeatEnds, queueVars
    <2>7. CASE UNCHANGED vars
        BY <2>7 DEF vars, queueVars
    <2> QED BY <2>1, <2>2, <2>3, <2>4, <2>5, <2>6, <2>7 DEF Next
<1> HIDE DEF Once
<1>2. Spec => [][Once]_vars
    BY <1>1, AlwaysIInv, PTL DEF Spec
<1> QED BY <1>2, PTL DEF QueuedOnce, Once
=============================================================================
