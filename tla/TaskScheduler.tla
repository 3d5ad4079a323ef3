--------------------------- MODULE TaskScheduler ---------------------------
(***************************************************************************)
(* Recurring tasks: the store two processes share (src/storage/tasks), the *)
(* background agent that carries tasks out (src/agent.rs), its queue of    *)
(* answers, and the interactive application that edits the tasks, shows    *)
(* the queued answers and, taken over, may carry tasks out itself.         *)
(*                                                                         *)
(* Every operation of the store runs under its file lock, after a reload,  *)
(* and ends in an atomic rename: one step here.  An operation that fails   *)
(* leaves the store alone.  The agent works from the copy it last loaded,  *)
(* and may crash between any two steps.                                    *)
(*                                                                         *)
(* A task's interval is one unit of time; "rev" stands for its text and    *)
(* interval, which only the writer changes.                                *)
(***************************************************************************)
EXTENDS Naturals, FiniteSets, Sequences

CONSTANTS
    MaxTasks,    \* tasks the store accepts (MAX_TASKS)
    MaxNow,      \* bound: the clock
    MaxEdits,    \* bound: edits by the writer
    MaxQueue     \* bound: answers waiting in the queue

ASSUME SchedulerAssumption ==
    /\ MaxTasks \in Nat /\ MaxNow \in Nat /\ MaxEdits \in Nat /\ MaxQueue \in Nat

VARIABLES
    now, edits,
    store,                   \* index.tsv
    wish,                    \* ghost: what the writer asked for, see EditsSurvive
    pc, entries, snap,       \* the agent: where it is, the copy it loaded,
                             \* the tasks it is carrying out
    timer, woken,            \* what ends its sleep
    ui, uiSnap, queueMode,   \* the application
    owner,                   \* who holds scheduler.lock
    queue, posted            \* answers waiting; ghost: all that ever were

clockVars == <<now, edits>>
storeVars == <<store, wish>>
agentVars == <<pc, entries, snap, timer>>
uiVars    == <<ui, uiSnap, queueMode>>
queueVars == <<queue, posted>>
vars == <<clockVars, storeVars, agentVars, woken, uiVars, owner, queueVars>>

Times == 0..(MaxNow + 1)
Ids   == 0..(MaxNow + MaxEdits)
Task  == [id : Ids, rev : 0..MaxEdits, due : Times, paused : BOOLEAN]
Timer == [kind : {"due", "retry"}, at : Times] \cup {[kind |-> "never", at |-> 0]}
Never == [kind |-> "never", at |-> 0]

Init ==
    /\ now = 0 /\ edits = 0 /\ store = {} /\ wish = {}
    /\ pc = "down" /\ entries = {} /\ snap = {} /\ timer = Never /\ woken = FALSE
    /\ ui = "down" /\ uiSnap = {} /\ queueMode = FALSE
    /\ owner = "none" /\ queue = <<>> /\ posted = {}

\* An inotify watch is only armed while the agent sleeps.
Changed == woken' = (woken \/ pc = "asleep")

Clock == /\ now < MaxNow /\ now' = now + 1
         /\ UNCHANGED <<edits, storeVars, agentVars, woken, uiVars, owner, queueVars>>

-----------------------------------------------------------------------------
(* TaskStore.                                                              *)

Due(tasks)    == {t \in tasks : ~t.paused /\ t.due <= now}
Active(tasks) == {t \in tasks : ~t.paused}

\* next_due, as the agent waits for it
NextDue(tasks) ==
    IF Active(tasks) = {} THEN Never
    ELSE [kind |-> "due",
          at |-> CHOOSE d \in {t.due : t \in Active(tasks)} : \A t \in Active(tasks) : d <= t.due]

\* What the writer decides of a task: everything but when it is due.
Decided(t) == [id |-> t.id, rev |-> t.rev, paused |-> t.paused]

\* Mutation: two tasks added within a second share their id.
NewIdIsNow == now

NewId == IF store = {} THEN now
         ELSE LET last == CHOOSE i \in {t.id : t \in store} : \A t \in store : t.id <= i
              IN  IF last + 1 > now THEN last + 1 ELSE now

Edit(tasks) ==
    /\ ui # "down" /\ edits < MaxEdits /\ edits' = edits + 1
    /\ store' = tasks /\ wish' = {Decided(t) : t \in tasks}
    /\ Changed
    /\ UNCHANGED <<now, agentVars, uiVars, owner, queueVars>>

Add == /\ Cardinality(store) < MaxTasks
       /\ Edit(store \cup {[id |-> NewId, rev |-> edits, due |-> now + 1, paused |-> FALSE]})

Delete == \E t \in store : Edit(store \ {t})

Pause == \E t \in store : ~t.paused /\ Edit((store \ {t}) \cup {[t EXCEPT !.paused = TRUE]})

\* A task that was paused starts a fresh interval.
Resume == \E t \in store :
    t.paused /\ Edit((store \ {t}) \cup {[t EXCEPT !.paused = FALSE, !.due = now + 1]})

Modify == \E t \in store : Edit((store \ {t}) \cup {[t EXCEPT !.rev = edits, !.due = now + 1]})

\* complete_due_if_unchanged accepts the result.
Unchanged(tasks, current) == tasks \subseteq current /\ \A t \in tasks : ~t.paused

\* Mutation: the entries loaded before the request was sent are written back.
AdvancedCopy(tasks) ==
    (entries \ tasks) \cup {[t EXCEPT !.due = now + 1] : t \in tasks}

\* ... and advances the tasks of the store as it is now.
Advanced(tasks) == (store \ tasks) \cup {[t EXCEPT !.due = now + 1] : t \in tasks}

-----------------------------------------------------------------------------
(* The agent.                                                              *)

\* A second scheduler ends at once and is started again later.
AgentStarts ==
    /\ pc = "down" /\ owner = "none"
    /\ pc' = "scan" /\ owner' = "agent"
    /\ entries' = {} /\ snap' = {} /\ timer' = Never
    /\ UNCHANGED <<clockVars, storeVars, woken, uiVars, queueVars>>

AgentDies ==
    /\ pc # "down" /\ pc' = "down" /\ owner' = "none"
    /\ entries' = {} /\ snap' = {} /\ timer' = Never /\ woken' = FALSE
    /\ UNCHANGED <<clockVars, storeVars, uiVars, queueVars>>

WaitFor(when) == pc' = "arming" /\ timer' = when /\ snap' = {}
Retry == [kind |-> "retry", at |-> now + 1]

\* The store is loaded and its due tasks are asked about, unless the store, the
\* power lease or the oracle is unavailable.
Scan ==
    /\ pc = "scan" /\ entries' = store
    /\ \/ Due(store) # {} /\ pc' = "asking" /\ snap' = Due(store) /\ UNCHANGED timer
       \/ Due(store) = {} /\ WaitFor(NextDue(store))
       \/ WaitFor(Retry)
    /\ UNCHANGED <<clockVars, storeVars, woken, uiVars, owner, queueVars>>

\* wait_for_task_change begins to watch the store.
Arm ==
    /\ pc = "arming" /\ pc' = "asleep" /\ woken' = FALSE
    /\ UNCHANGED <<clockVars, storeVars, entries, snap, timer, uiVars, owner, queueVars>>

\* A change, the timer, or another file of the directory.
Wake ==
    /\ pc = "asleep" /\ pc' = "scan" /\ woken' = FALSE
    /\ UNCHANGED <<clockVars, storeVars, entries, snap, timer, uiVars, owner, queueVars>>

\* An answer, or an error, silence, or 180 s without an event.
Answer ==
    /\ pc = "asking"
    /\ \/ pc' = "answered" /\ UNCHANGED <<snap, timer>>
       \/ WaitFor(Retry)
    /\ UNCHANGED <<clockVars, storeVars, entries, woken, uiVars, owner, queueVars>>

\* Mutation: the result is accepted, but the tasks stay due.
CompleteWithoutAdvance ==
    /\ pc = "answered"
    /\ IF Unchanged(snap, store) THEN pc' = "queueing" /\ UNCHANGED snap
       ELSE pc' = "scan" /\ snap' = {}
    /\ UNCHANGED <<clockVars, storeVars, entries, timer, woken, uiVars, owner, queueVars>>

Complete ==
    /\ pc = "answered"
    /\ IF Unchanged(snap, store)
       THEN store' = Advanced(snap) /\ pc' = "queueing" /\ UNCHANGED snap
       ELSE pc' = "scan" /\ snap' = {} /\ UNCHANGED store
    /\ UNCHANGED <<clockVars, wish, entries, timer, woken, uiVars, owner, queueVars>>

Occasions(tasks) == {<<t.id, t.due>> : t \in tasks}

\* queue_reply
QueueReply ==
    /\ pc = "queueing" /\ Len(queue) < MaxQueue
    /\ queue' = Append(queue, snap) /\ posted' = posted \cup Occasions(snap)
    /\ pc' = "scan" /\ snap' = {}
    /\ UNCHANGED <<clockVars, storeVars, entries, timer, woken, uiVars, owner>>

-----------------------------------------------------------------------------
(* The application.                                                        *)

\* Hosted, or started while an agent runs, it leaves scheduling to the agent.
UiStarts ==
    /\ ui = "down"
    /\ \/ ui' = "hosted" /\ queueMode' = TRUE
       \/ ui' = "takeover" /\ queueMode' = (owner # "none")
    /\ UNCHANGED <<clockVars, storeVars, agentVars, woken, uiSnap, owner, queueVars>>

UiDies ==
    /\ ui # "down" /\ ui' = "down" /\ uiSnap' = {} /\ queueMode' = FALSE
    /\ owner' = IF owner = "ui" THEN "none" ELSE owner
    /\ queue' \in {queue} \cup (IF queueMode THEN {<<>>} ELSE {})
                                  \* between truncating the queue and rewriting it
    /\ UNCHANGED <<clockVars, storeVars, agentVars, woken, posted>>

\* take_pending
TakeReply ==
    /\ ui # "down" /\ queueMode /\ uiSnap = {} /\ queue # <<>>
    /\ queue' = Tail(queue)
    /\ UNCHANGED <<clockVars, storeVars, agentVars, woken, uiVars, owner, posted>>

\* Mutation: the scheduler lease is not asked for.
HeartbeatWithoutLease ==
    /\ ui = "takeover" /\ uiSnap = {} /\ Due(store) # {}
    /\ uiSnap' = Due(store)
    /\ UNCHANGED <<clockVars, storeVars, agentVars, woken, ui, queueMode, owner, queueVars>>

\* start_heartbeat; a task command sets its deadline in either mode
StartHeartbeat ==
    /\ ui = "takeover" /\ uiSnap = {} /\ Due(store) # {}
    /\ owner = "none" /\ owner' = "ui"
    /\ uiSnap' = Due(store)
    /\ UNCHANGED <<clockVars, storeVars, agentVars, woken, ui, queueMode, queueVars>>

\* complete_reply for a heartbeat whose answer is on the page
HeartbeatAnswered ==
    /\ uiSnap # {} /\ uiSnap' = {} /\ owner' = "none"
    /\ IF Unchanged(uiSnap, store) THEN store' = Advanced(uiSnap) /\ Changed
       ELSE UNCHANGED <<store, woken>>
    /\ UNCHANGED <<clockVars, wish, agentVars, ui, queueMode, queueVars>>

\* An error, silence or a pen that takes over returns the lease; a directive as
\* the first event ends the turn and keeps it.
HeartbeatEnds ==
    /\ uiSnap # {} /\ uiSnap' = {}
    /\ owner' \in {"none", owner}
    /\ UNCHANGED <<clockVars, storeVars, agentVars, woken, ui, queueMode, queueVars>>

Next == \/ Clock
        \/ Add \/ Delete \/ Pause \/ Resume \/ Modify
        \/ AgentStarts \/ AgentDies \/ Scan \/ Arm \/ Wake \/ Answer \/ Complete \/ QueueReply
        \/ UiStarts \/ UiDies \/ TakeReply
        \/ StartHeartbeat \/ HeartbeatAnswered \/ HeartbeatEnds

Spec == Init /\ [][Next]_vars

-----------------------------------------------------------------------------
(* Properties.                                                             *)

\* Every variable keeps the shape the program's types give it; ids are unique.
TypeOK ==
    /\ now \in 0..MaxNow /\ edits \in 0..MaxEdits
    /\ store \subseteq Task /\ Cardinality(store) <= MaxTasks
    /\ \A s, t \in store : s.id = t.id => s = t
    /\ wish \subseteq [id : Ids, rev : 0..MaxEdits, paused : BOOLEAN]
    /\ pc \in {"down", "scan", "arming", "asleep", "asking", "answered", "queueing"}
    /\ entries \subseteq Task /\ snap \subseteq Task
    /\ timer \in Timer /\ woken \in BOOLEAN
    /\ ui \in {"down", "hosted", "takeover"} /\ uiSnap \subseteq Task /\ queueMode \in BOOLEAN
    /\ owner \in {"none", "agent", "ui"}
    /\ queue \in Seq(SUBSET Task) /\ posted \subseteq Ids \X Times

\* What the writer decided of the tasks survives every completion, whatever the
\* agent had loaded before: a deleted task does not come back, a paused one is
\* not resumed, a changed one keeps its change (complete_due_if_unchanged).
EditsSurvive == {Decided(t) : t \in store} = wish

\* An occasion on which a task was due is answered into the queue at most once,
\* across crashes of the agent and heartbeats of the application.
QueuedOnce == [][queue' # queue /\ Len(queue') > Len(queue)
                   => posted \cap Occasions(queue'[Len(queue')]) = {}]_vars

\* While the agent lives the application carries out no task, and the other way
\* around, however either of them starts, ends or crashes (SchedulerLease).
OneScheduler == pc = "down" \/ uiSnap = {}

\* The agent never sleeps past the moment a task is due: an armed timer covers
\* the store as it is, unless a change is about to wake the agent
\* (wait_for_task_change).
TimerCoversTasks ==
    pc = "asleep" /\ ~woken /\ timer.kind # "retry"
        => \A t \in Active(store) : timer.kind = "due" /\ timer.at <= t.due
=============================================================================
