# A formal model of MagicPaper

MagicPaper is a paper application for reMarkable tablets: the writer writes on
the page, the page drinks the ink, and the answer of an AI agent is written
back by hand. It runs as a resident application of the ReMagic manager
("hosted"), or on its own with the raw devices (`--legacy-takeover`). This
directory holds TLA+ specifications of the parts in which ordering, staleness
and failure matter, the TLC configurations that check them, and proofs for
every value of the bounds.

Paths below are relative to the crate's `src/`.

## 1. Inventory

| Component | State it keeps | Operations | What is hard, what makes it correct | Model |
|---|---|---|---|---|
| Reactor: `app/runtime.rs`, `app/runtime/*`, `app/state.rs`, `app/turn_controller.rs` | the page's `State`, the turn (`turn_*`), input mode and its validity, postponed reader request | one loop: lifecycle commands, events, reader request, one tick | one thread, but every event may arrive between any two ticks and in any state | `Engine` |
| Pen and touch: `app/input.rs`, `runtime/input_loop*`, `ink.rs` | `pen_down`, the host pen's phase, modal contact, touch owner, user ink | frame, release, gap, tap | releases get lost; a contact outlives the state it began in | `Engine` |
| Oracle controller: `app/oracle_controller.rs` | generation, held receivers | ask, ask speculatively, poll, cancel, invalidate | late results; a request must carry the ink it claims | `Engine` |
| Lifecycle channel: `app/lifecycle.rs`, `lifecycle/*`, `runtime/lifecycle_loop.rs` | active token, pending Ready, last Ready, outbound queue | poll, admit, report, flush | a batch is admitted before it is handled; tokens are revoked; the channel ends | `Lifecycle` |
| Tasks: `storage/tasks/*` | `index.tsv`, `scheduler.lock` | add, delete, pause, resume, modify, complete | two processes, minutes between reading a task and answering it | `TaskScheduler` |
| Task agent: `agent.rs` | its copy of the tasks, reply queue | scan, ask, complete, queue, sleep | crashes, lost wakeups, two schedulers | `TaskScheduler` |
| Power: `runtime/power_loop.rs`, `power.rs` | - | sleep, wake, quit | input during a sleep is thrown away | `Engine` (partly) |
| Memory: `storage/memory*` | index, one file of strokes per page, dialogue boundary | append, delete, begin a session, recent dialogue | two files per page, failed and interrupted writes, a second process; a listed page can be shown, a kept page stays, a page before the boundary stays behind it | `Notebook`, `Panels`; which turn is appended, in `Engine` |
| Todos, persistence: `storage/todos.rs`, `storage/persistence.rs` | `todos.tsv` | add, delete, atomic write | reload under lock, a write that fails after its rename | `Notebook`, `Panels` |
| Oracle workers: `oracle/agent*`, `oracle/paddle*`, `oracle/local.rs` | one thread per turn, one permit per lane | ask, recognise, connect, start, stream, cancel | the permit outlives the request that was dropped; one outcome per turn | `OracleTurn`, `AnswerPath` |
| Answer stream: `oracle/stream.rs` | what was emitted | advance | directives only at the start, a hidden transcription at the end; nothing emitted twice, whatever the frames | `AnswerStream`, `AnswerPath` |
| Reply pipeline: `app/reply*`, `app/layout_controller.rs` | plan, layout in flight, queue | extend, recentre, lay out, draw | text that arrives while a layout runs; the paper shows all of the reply once | `ReplyPlan`, `AnswerPath` |
| Reader hand-off: `runtime_control*`, `reader.rs` | a worker per request | request, poll, drop | a late acknowledgement | states in `Engine`, choice of the book in `PanelWidgets`; the worker's socket is not modelled |
| Modal layers: `app/layers.rs` | saved paper, panel, preview | replace, redraw, preview, dismiss | nested panels must not be saved as paper | `Panels` |
| Lists, settings: `app/lists.rs`, `app/*settings_controller.rs`, `preferences.rs`, `pi_preferences.rs` | rows or values shown, files of choices | tap, strike, turn a page, choose | a stroke names a row by number; a choice that cannot be written | `Panels` |
| Widgets: `ui/*` | rows drawn, preview | what a contact means | row numbers over several pages | `PanelWidgets` (no geometry) |
| Refresh: `app/refresh_controller.rs` | replies since a full refresh | count, refresh, change the interval | an overdue refresh | `Panels`; pixels are not modelled |
| Fonts: `appearance/fonts.rs` | the font and the sizes chosen, two files | select, scale | all sizes share one file | `Panels`; rasterising is not modelled |
| Display, transport, script, entry points | pixels, packets, geometry | - | - | not modelled: drawing, numeric code and I/O |

How they interact. The manager sends commands to the lifecycle channel; the
reactor polls it on every turn of its loop (at least each 25 ms). The display
host sends pen and touch frames. The reactor calls the oracle controller, which
starts one worker per request and receives its events over a channel; a
generation counter makes receivers stale. The reactor requests an input mode
from the manager over the runtime socket, under the active lifecycle token. The
task store is a file shared with the background agent under a file lock; the
agent's answers reach the application through a queue file; `scheduler.lock`
decides which of the two processes carries out tasks. A worker's events pass
through the parser of the answer into a channel; the reactor drains it, lays the
text out in a background thread and draws it. A panel is drawn over the saved
page from the entries the process holds; a gesture on it acts on a store under
that store's lock, and the agent is told by a control command with a worker of
its own.

## 2. Modules

- `Engine` - the reactor. `pc` is the place in `run_loop`; each handler is one
  action. Ink is a version that grows with every point (0: blank page), a
  request is its generation, a lease is its epoch. `Takeover` selects the way
  of running.
- `EngineProofs` - the first theorems about `Engine`: types, the speculation and
  the ink on the paper. `EngineInputProofs` extends it with pen, finger and input
  mode; `EngineTurnProofs` extends that, and `EngineDialogue`, with the turn and
  the refinement of `Dialogue`.
- `Dialogue` - what the writer is promised: one page; ink is on the page, carried
  by the one question being asked, or gone; a page is remembered only with the
  answer to exactly that page, and once. `EngineDialogue` states that the
  reactor implements it, with the refinement mapping (`asking` is the ink the
  oracle was really given, not the strokes the turn will be remembered with).
- `Lifecycle` - the application's end of the channel, the commands the reactor
  carries out, and the manager (external). `serial` tells a manager that waits
  for each answer from one that may send anything at any time. `LifecycleProofs` -
  theorems about it.
- `TaskScheduler` - the task store, the agent, its queue, and the application as
  the other user of all three. `TaskSchedulerProofs` - theorems about it.
- `AnswerStream` - the parser as pure operators: `Advance` takes its state and the
  answer so far to a new state and the events put out. `Shown` is the reference:
  what of a whole answer the writer should see.
- `OracleTurn` - the workers, their lanes and permits, and the handle that cancels
  one. The OCR service and the daemon are external and may say anything.
- `ReplyPlan` - the plan of a reply as pure operators.
- `AnswerPath` - composes the three with the reactor's end of the channel, from
  the committed page to the remembered answer. `AnswerProofs` - theorems about the
  lanes, the order of events and the plan; `AnswerInkProofs` extends it with what
  the writer reads.
- `Notebook` - the stores. An operation is the set of its outcomes: what the
  directory and the process hold afterwards, and whether it was done, failed or
  was cut short by the end of the process.
- `PanelWidgets` - what a panel draws, what a contact previews, what its end
  means; and which books answer a query.
- `Panels` - composes the two: every panel with its gestures, `ModalLayers`, the
  choices and their files, the control commands, and another process over the same
  store.
- `PanelsProofs` - theorems about `Panels`.

How actions correspond to the code:

| Code | Actions |
|---|---|
| `handle_host_pen`, `handle_raw_sample`, `gate_pen_frame` | `SwallowFrame`, `FadeAnswerFrame`, `CancelHeartbeatFrame`, `ModalFrame`, `InkFrame` |
| `finish_pen_contact` and `finish_modal_contact` | `PenUp`, `OrphanGap` (through `FinishPen`) |
| `handle_touch` | `FingerDown`, `FingerUp` |
| `enter_background`, `enter_foreground` | `EnterBackground`, `EnterForeground`, `DuplicateForeground` |
| `sleep_and_wake` | `SleepAndWake` |
| `open_reader_target` | `OpenReaderTarget` |
| `tick_listening` | `CommitNothing`, `CommitLockFails`, `CommitWithoutOracle`, `CommitPage`, `Preask`, `ShowQueuedReply`, `StartHeartbeat` |
| `tick_drinking` ... `tick_handoff_pending` | the remaining disjuncts of `Tick` |
| the tail of `tick_state` (the mode is requested after the tick) | `TickTo`, part of every tick |
| `LifecycleClient::poll`, `decode_frames`, `accept_frame` | `Read`, `ReadFails`, `AdmitFrame`, `IgnoreFrame`, `RejectFrame`, `PollDone`, `FlushFails` |
| `handle_lifecycle_command`, `finish_lifecycle` | `Handle...`, `Finish`, `Exit` |
| `TaskStore::apply_from_transcript`, `delete_number`, `toggle_number` | `Add`, `Delete`, `Pause`, `Resume`, `Modify` |
| `agent::run`, `wait_for_task_change` | `Scan`, `Answer`, `Complete`, `QueueReply`, `Arm`, `Wake` |
| `take_pending` | `TakeReply`; a crash inside it, `UiDies` |
| `ask_capture`, `prepare_handwriting`, `run_turn`, `handle_event` | `Ask`, `LoadPage` ... `ReadFrame` (through `WorkerStep`) |
| `Drop for OracleTurn` | `DropTurn` |
| `poll_first`, `consume_first_event` | `FirstEvent`, `FirstTimesOut` of `AnswerPath` |
| `tick_replying`, `consume_stream_poll`, `ReplyController::tick`, `complete_reply` | `TickStream`, `TickReply` (through `Frame` and `Complete`) |
| `begin_modal_contact`, `finish_modal_contact`, `cancel_modal_contact` | `ContactBegins`, `ContactEnds` in each gesture, `Background` |
| `finish_stored_list_stroke`, `finish_reader_stroke`, `finish_help_gesture` | `ListGesture`, `ReaderGesture`, `HelpGesture`; `CrashInStrike` |
| `finish_settings_stroke`, `finish_font_stroke`, `pi_settings_controller::finish_stroke` | `SettingsGesture`, `FontGesture`, `PiGesture`; `CrashInBoundary` |
| `try_append`, `delete_number`, `begin_dialogue_session` | `AppendPage`, `ForgetPage`, `BeginSession` of `Notebook` |

A definition that a comment marks "Mutation" is the plausible bug named there.
No specification uses it; it is substituted for the definition that follows it
to show that a property notices the bug.

### Abstractions

- Time is a choice: a deadline may or may not have passed at a tick. `MustMove`
  lists the states that a tick always leaves.
- Six kinds of list are one `List`: the reactor treats them alike and none leads
  to another. `ReaderList` is apart, because a row of it requests the reader.
- What a reader request finds (a book, several, an excuse, a request to the
  manager) is a free choice of `ReaderOutcomes`. What a local command or a
  transcript does to a store is not in `Engine`.
- The contact ghost (`contact`, `stray`) is read by no guard. A gap of the pen
  may or may not hide a lift; both are explored. `QtfbPenState` counts the pen as
  down before the gesture of the old contact is carried out; when that gesture
  chooses a book, `handle_host_pen` returns before the new frame is handled, and
  `OrphanGap` leaves the pen counted as down with no contact recorded.
- The manager restores the manifest's direct ink with every lease it grants, also
  with one that reaches an application still in front (`EnterForeground`,
  `DuplicateForeground`); this is taken from the comment at
  `runtime/lifecycle_loop.rs:150`. The ghost `regranted` remembers a lease granted
  on top of another until a mode is requested again.
- A postponed reader request comes from a first event only: the parser routes a
  directive as the first thing of an answer and once (`stream.rs:40`,
  `DirectivesComeFirst`), so `Engine` has no action for one that follows ink.
- The five-finger and power gestures, and a broken transport, are one `Stop`.
- The manager may or may not have applied an input-mode request that failed.
- `Engine` receives lifecycle commands one at a time, each with its own epoch;
  batches, repeats within an epoch and revoked leases are `Lifecycle`'s subject.
- In `Lifecycle` a token is an epoch and whether it names its lease; another
  generation is refused exactly like an older epoch. A frame that cannot be decoded
  is `Undecodable`: `decode_frames` fails for all that was read, and nothing of it
  is admitted (`ReadFails`). A command without a token of this application is
  `Malformed`: it is refused within the loop, after those before it were admitted
  (`RejectFrame`). Both end the application as a failure.
- In `TaskScheduler` each store operation is one step: the code holds the store's
  lock, reloads, and ends in a rename. Every interval is one unit. `rev` stands
  for text and interval. The probe of `external_scheduler_active` is atomic, and
  a line torn by a crash in the middle of an append is left out.
- In `AnswerStream` an answer is a sequence of pieces (word, sentence end, the two
  brackets, the sentinel) and the identity of a piece is its position. White space
  and quotation marks are no pieces. A sentence end is assumed to follow a word
  long enough to be cut after.
- `AnswerPath` keeps of the reactor only what decides about requests; drinking is
  part of "thinking", and a panel that an answer opens is "listening". A layout
  yields all of its text or a beginning with the ellipsis. A timeout of the first
  word does not mark the turn as failed, as in the code.
- Three paths exist in the code and not in what can be reached: a stream that
  closes before its first event (a worker whose receiver is held ends with an event,
  if it does not panic; `Engine`, whose oracle may do anything, has that path as
  `ThinkingEnds`), the Reader and panel branches of `consume_reply_event` (the parser
  puts directives first, which `DirectivesComeFirst` checks), and a full page while
  the stream is open (nothing is laid out before the stream closes).
- In `Notebook` the order of a file is the order of its ids, which grow; a crash
  keeps what is published. Texts, size limits and line formats are left out. One
  fault at a time: a store that cannot be locked or read fails with the entries it
  held (`Unread`, and `ListAct` for a row; an append or a new todo that fails there
  changes nothing), but an append whose index is published by a write that
  reports a failure, and whose reload then fails as well, is left out. There the
  code removes the strokes of a published page (`memory.rs:239-245`), so
  `IndexHasStrokes` is a statement about single faults.
- In `Panels` one behaviour is about one topic: stores that do not touch each other
  are not interleaved. "Session" shares the store of pages with "Pages"; the first
  begins sessions, the second strikes pages. A finger is explored on cards only.
  Sliders have two or three values. `settings.json` and the font files are renamed
  as their last step, so a failed write was never published; `pi-settings` is
  synced afterwards and may fail after it was published. Stores and the agent are
  enabled: without a configured agent `start_agent_control` starts nothing
  (`oracle_controller.rs:67-75`) and its panel keeps saying that it is starting.

## 3. Runs

| Run | Bounds | Distinct states | What it shows |
|---|---|---|---|
| `engine_hosted` | 3 requests, 3 points, 2 leases | 2.1 M | type correctness, every invariant below but the lease, hosted, and the refinement of `Dialogue` |
| `engine_takeover` | 3 requests, 2 points | 0.2 M | with the raw pen, whose contact preempts a scheduled turn: what is remembered, and the scheduler lease (that no result covers unsent ink is proved for both ways of running) |
| `engine_live` | 2 requests, 1 point, 2 leases | 26 k | a silent turn and a locked page end |
| `lifecycle` | 3 epochs and 7 commands with a manager that waits, 2 and 3 with one that does not | 0.15 M | reports name the right lease and tell the truth, tokens move on, recalls are answered |
| `scheduler` | 2 tasks, 3 units of time, 3 edits, 2 answers | 0.6 M | edits survive, one scheduler, one answer per occasion |
| `answer` | 2 requests, 5 pieces of answer, frames of 2, 2 events per tick | 0.2 M | the answer reaches the paper and the memory whole and once; lanes come back |
| `panels` | 4 ids, 2 pages kept, 3 todos, 3 books, 2 fonts, 2 sizes, intervals to 2 | 0.4 M | stores, panels and choices under failure, crash and a second process |
| `engine_locked_pen`, `engine_handoff`, `engine_lease`, `scheduler_sleep`, `answer_directive` | smallest that show it | - | disagreements with the documentation, section 6 |

Why the bounds are enough. Three requests are a speculative one, the one that
replaces it after more ink, and that of the next turn, so any two turns and the
speculation between them overlap. Two points tell "the page changed" from "the
page that was asked about"; three let it change again during a second turn. Two
leases are a recall and what precedes it. Three epochs and seven commands let a
lease be granted, revoked, repeated and superseded, and recalled after that; two
epochs and three commands put a background command and the next lease into one
batch, which a manager that does not wait may send. With two
tasks an edit of one meets the completion of the other, and three units of time let
a task come due, be answered, and come due again. Two requests of an answer are one that is
dropped and one that follows it in the same lane. Five pieces hold a directive
with text on both sides, or a sentence, its successor and the sentinel; frames of
one or two cut them everywhere. Two pages kept of four ids let retention push a
page out while another is appended; lists of one row per page make every row but
the first lie on a later page. An interval of two is lowered to one and switched
off.

The invariants of `Engine`: a speculative request carries exactly the ink on the
page (`SpeculationIsExact`); a held receiver is never stale (`HeldTurnIsCurrent`);
text of two requests never meets (`OneRequestPerAnswer`); the contact that
dismissed an answer never draws (`AnswerContactNeverInks`); the cached mode, the
manager's mode and the state agree whenever an event can arrive, unless a lease
was granted on top of another (`ModeFollowsState`); no contact flag outlives its contact
(`ContactsHaveARelease`); memory pairs one turn's strokes with its answer, once
(`MemoryPairsOneTurn`); no result covers unsent ink (`PaperOwnsInk`); a scheduled
turn holds the lease (`HeartbeatHoldsLease`).

Of `Lifecycle`: tokens of reports only move on (`EventTokensMoveOn`); a lease is
reported ready once (`ReadyOncePerToken`); a report carries the token of its
command if nothing was admitted after that command, and never an older one
(`EventsEchoTheirCommand`); the last report is true (`LastReportIsTrue`); a recall
is answered (`RecallIsAnswered`).

Of `AnswerPath`: a lane has one worker while its permit is taken
(`LanesAreExclusive`); what was shown and what waits in the channel are a beginning
of what should be seen, in order and without a gap (`InkIsAPrefix`); only a whole
answer is remembered (`WholeAnswersAreRemembered`); a complete reply is on the
paper once, or its beginning and an ellipsis (`DrawnIsTheReply`); a directive never
follows text (`DirectivesComeFirst`); a worker nobody listens to ends
(`AbandonedWorkersEnd`).

Of `Panels`: a listed page has its strokes (`IndexHasStrokes`); a kept page stays
(`PagesSurvive`); nothing from before a session comes back (`BoundaryHolds`); a
stroke acts on the row it was made on, unless another process changed the store
under the list (`StrikeHitsTheRow`); the page comes back from under the panels as
it was (`PaperIsRestored`); what is shown is in effect and what is in effect is
found after a restart, for every file whose last write was confirmed
(`ChoicesStick`); the agent's panel shows no answer but that of the last command
that was started (`StatusIsOfLastCommand`; a new session whose boundary failed
starts none, and its error gives way to an earlier command's answer); a full refresh is never overdue (`DebtBelowInterval`).

Some invariants depend on how the application runs, or on the manager:

- `ModeFollowsState` does not compare the cache with the manager's mode after a
  lease was granted on top of another; section 6 shows what happens there.
- A layout worker that exits without a result loses its text, and the turn is
  completed and persisted all the same. `DrawnIsTheReply` leaves that case out.
- A row's number is resolved against the store as it is at the end of the contact.
  With a second writer it may name another row than the one drawn.
- `EventsEchoTheirCommand` holds with any manager as it is stated. Equality of the
  two tokens does not: `poll` admits a batch before it handles any of it, so the
  report on a background command goes out under the token of the next lease if
  both came together.
- A recall within an epoch already reported, or of an application already shown,
  is admitted without a Ready. `RecallIsAnswered` is stated for a manager that
  waits and grants a new epoch for each recall.

## 4. Fairness

`Engine!Fairness`. `drain_events` reads until nothing is waiting and the loop then
reaches its reader request and its tick: strong fairness of `Loop`, and weak
fairness of the frame a gap announced. A tick that recurs for ever in one state
sees that state's deadline pass: strong fairness of the actions that stand for a
deadline or for an animation of finite length (`DrinkPage`, `ThinkingTimesOut`,
`TimeoutTick`, `FadingEnds`, `HandoffTick`, `CompleteReply`). The hand-off worker's
socket has time-outs. Nothing is assumed of the writer, the manager, or the
oracle; so `LockEnds` leaves out an answer whose stream stays open, which no
deadline bounds, and a pen held on the glass.

`Lifecycle!LiveSpec` assumes weak fairness of the loop only: `run_loop` polls on
every turn. It assumes nothing of the manager, and not that a failure never
happens.

`AnswerPath!FairSpec` assumes that a worker's thread is scheduled, that the OCR
service and the daemon's socket answer or run into the time limit that the code
sets on reads and on the OCR job, and that the daemon takes what is written to it.
The last is not bounded by the code (`write_frame` has no deadline) and is listed
as a hazard. Nothing is assumed of the frames the daemon sends.

The other specifications state safety only.

## 5. What is proved

Every safety property that a passing run checks (all invariants, the two action
properties and the refinement of `Dialogue`) is also a theorem, for every value of
the constants: any number of requests, points, leases, epochs, commands, tasks,
edits, pieces of an answer, ids, rows and fonts. Runs find a counterexample on a
small instance; the theorems say that none appears on a larger one. The only
assumptions are the named ones of the modules (`EngineAssumption` and so on):
bounds are natural numbers, sizes that cannot be zero in the code are not. Four
theorems hold under a condition besides:

| Theorem | Condition | Why |
|---|---|---|
| `KeepsThePromise` | hosted (`~Takeover`) | a scheduled turn of the raw-pen application asks about no page of the writer's, and `Dialogue` has no such question |
| `InkIsAPrefix`, `WholeAnswersAreRemembered` | no sentence ends inside a directive (`~SplitSpans`) | run `answer_directive` shows what happens otherwise |
| `LastReportIsTrue` | stated for a manager that waits | section 3 |

None of the properties is inductive alone. Each proof names a strengthening, shows
that it holds at first and that every action keeps it, and that it implies the
property. What follows is what each strengthening adds, and why.

**`EngineProofs`**: `TypeOK`, `SpeculationIsExact`, `HeldTurnIsCurrent`,
`PaperOwnsInk`. `IInv` is the conjunction of

- `TypeOK`, and `GenBound`: generations pass the bound only in the last step;
- `HoldersOfRequests`: which states hold a request;
- `SpeculationIsExact` and `HeldTurnIsCurrent`;
- `ReaderWaits`: a postponed reader request is taken before the tick, and no
  speculation exists meanwhile (otherwise the request would replace `Listening`
  under a speculative request). It holds because such a request comes from a first
  event or from a list, never from an answer in the middle;
- `PageRules`: under a manager every turn is the writer's; a page in use has a valid
  mode unless a hand-off is on; ink lies on the paper only while it is written or
  drunk, and under `Writing`; a chosen book finds the list it was chosen from.

Drawing is the only step that changes the ink, and it drops the speculation in the
same step; asking is the only step that moves the generation while the page is in
use, and it happens only in `Listening`, where no receiver is held; a background
command gives up all three together. What has to be excluded is a step that takes
the page away under its ink. That needs the mode: a request for a mode is sent only
if the cache is invalid or differs, and a page with ink has `Writing` already, so a
tick that stays on it cannot be refused.

**`EngineInputProofs`**: `ContactsHaveARelease`, `ModeFollowsState`,
`AnswerContactNeverInks`. `InputInv` adds to `IInv`

- `RawPen`: without a manager there is no background and no hand-off;
- `ModeInv`: what cache, manager and page agree on at each place of the loop, from
  the request for a mode on until a lease is granted on top of another. They
  differ on the way, between an event and the tail of its tick, so the agreement at
  `poll` follows only from what holds at the other places;
- `AnswerInv`: the contact that dismissed an answer is still down, or about to be
  seen down again, while its page fades or waits. This is what keeps it from ever
  drawing: the end of a fade under a held pen waits for its Up (`TickCourse`), and
  the recovery of a lost release does not open the page by itself.

**`EngineTurnProofs`**: `OneRequestPerAnswer`, `HeartbeatHoldsLease`,
`MemoryPairsOneTurn`, and `ThePromiseIsKept`, that every step of the hosted reactor
is a step of `Dialogue` or changes nothing the writer was promised. `TextInv` adds
`Unasked` (no oracle, no text) and `Leased` (a scheduled turn holds the lease
wherever it may still be answered). `TurnInv` adds three facts about one turn:

- `TurnMatches`: its number, its strokes, its request and its text are of one turn,
  which is not remembered yet;
- `MemoryMatches`: nothing remembered is of a turn, or of a speculation, to come;
- `InkIsSpent`: ink is numbered as it is drawn, and what was asked about or
  remembered never lies on the paper again. This is what makes a remembered page an
  answer to the page the writer saw, and it holds hosted only.

Each action is first shown to be one of nine courses (`TurnCourse`: the turn is kept,
committed, drinks, speaks, moves on, is excused, given up, scheduled or
remembered); the invariants are then kept course by course.

**`LifecycleProofs`**: `TypeOK`, `EventTokensMoveOn`, `ReadyOncePerToken`,
`EventsEchoTheirCommand`, `LastReportIsTrue`. The first four hold whatever the
manager sends, batches included. `TokenInv` says that the active token bounds every
token reported, and the last token reported ready bounds the ones reported ready
before; a step either cuts the events off or adds reports under the active token.
`EchoInv` adds `BatchInOrder`: the commands admitted and not yet handled end with
the one whose token is active, and none is newer. So a report, which goes out under
the active token, is never older than its command, and has the command's own token
if nothing was admitted after it. Only `LastReportIsTrue` is about a manager that
waits: `SerialInv` adds `Handshake`, that between a command and its answer nothing is
behind the command, in the socket, in the batch or in the list of admitted
commands, though shutdowns may lie before it, and that a recall names an epoch that
was not reported.

**`TaskSchedulerProofs`**: `TypeOK`, `EditsSurvive`, `OneScheduler`, and the action
property `QueuedOnce`. `IInv` adds `IdsPassed` (the ids of the store are unique, and
none is further ahead of the clock than edits were made), `Leased` (a process that
carries tasks out owns the lease) and `OccasionsPass`: an occasion that was answered
lies before the next one of the same id. That is why none is answered twice, also
when an id is used again after a deletion: whatever sets a due time sets it later
than now.

**`AnswerProofs`**: `TypeOK`, `LanesAreExclusive`, `DirectivesComeFirst`,
`DrawnIsTheReply`. `IInv` adds `Fresh` (a request not made has no worker, and one
without a receiver no events), `EventsInOrder` (a channel fills only after the head
of the answer was looked at, so a directive is its first event), `Places` (which
receivers a page holds), `Begun`, and `PlanInv` (a plan is kept off the paper while
its text arrives, is being laid out as one block, or is laid out in full). These
hold also when sentences end inside directives.

**`AnswerInkProofs`**: `InkIsAPrefix`, `WholeAnswersAreRemembered`. `InkInv` says of
each held request that it is `Honest`: its channel begins with something that takes
the page, or it has brought (`Brought`: the reply so far and the ink in the channel)
exactly the visible pieces of what its parser has delivered (`Told`). A worker's step
adds to what was brought (`Faithful`), a tick only moves ink from the channel into
the reply. `TruthInv` says that a reply whose stream has ended well is the whole of
what the writer should see. The heart is `Between`: the parser stands after a whole
number of directives, or at the end of the answer; only then does a fragment show
what the whole answer shows.

**`PanelsProofs`**: all of `Panels`' properties, from six strengthenings:

- `Sound`, for `IndexHasStrokes`: the directory has its shape, and a listed page
  has strokes in the topics that keep pages. The heart is `AppendKeepsListed`: each
  way `try_append` may end leaves strokes for every entry, because the id of the
  new page is above every id of the index (`PageIdIsNew`, from `LastIdIsLast`), so
  that taking its strokes back takes no other page's.
- `Promised`, for `PagesSurvive` and `BoundaryHolds`: pages put behind the boundary
  are pages of the index and none is above it, and only the card for a new session
  moves the boundary. Appending preserves it because a new id is never among the
  old ones, striking because it removes one row, the boundary because it is taken
  from the reloaded index (`BoundaryIsBehindAll`).
- `Layered`, for `PaperIsRestored`: the upper layer is the panel that is open, and
  a contact never outlives its panel. Without the second part a preview could be
  cleared from a page saved earlier. Every handler does one of five things to the
  screen (`ScreenStays`).
- `Receives`, for `StatusIsOfLastCommand`: only the last command's receiver is kept.
- `ChoiceInv`, for `ChoicesStick` and `DebtBelowInterval`: each file of choices with
  what is in effect, what the open panel shows of it, and that a contact on a font's
  row names a font there is. A level of thinking is normalised on every load, and
  normalising twice changes nothing (`LoadedIsKnown`); the debt is dropped with the
  interval it was counted for, so it is below the new one.
- `Struckable`, for the action property `StrikeHitsTheRow`: `Promised`, `Layered`, a
  list shows the store of its topic, only rows that are there are paused (or
  dropping one would resume another), and a contact on a list began on a row or
  beside it. A gesture ends where its contact began, or beside it
  (`GesturesStayNear`); its number is that of the row (`ActionsNumberTheirRow`), and
  the row of that number is looked up in what the list was drawn from.

`TypeOK` of `Panels` takes `Promised`, `Layered` and `ChoiceInv`, and that a list has
an entry on each of its lines. The order of a list is a function that numbers each
element by those before it (`InOrder`); by `PlacesAreTaken`, numbering a finite
ordered set this way is one to one, so every number up to its size is taken.

Lemmas of general use are stated once: sequences and queues (`LifecycleProofs`), a
least and a largest number of a set (`TaskSchedulerProofs`, `AnswerProofs`,
`LastIdIsLast`), ordered sets (`PlacesAreTaken`), recursive functions (below).

Recursion. `Positions`, `InkOf` and `Consumed` are recursive functions, not
recursive operators; no module declares one of those. What they compute for every
input is proved without the library's induction theorems, from the least member of
a set of counterexamples (`Induction` and `Unfolds` of `AnswerProofs`).

Only model-checked: liveness under fairness (`PatienceEnds`, `LockEnds`,
`RecallIsAnswered`, `AbandonedWorkersEnd`), which like `ENABLED` is out of the
prover's reach, and the five disagreements below.

## 6. Disagreements found

1. `engine_locked_pen`. `app/state.rs:77` says that a contact which began while
   the input was locked is swallowed to its Up. That is true of the end of a fade
   only: a directive that asks for a full refresh (`turn_controller.rs:62`), or a stream
   that closes before a word (`state_loop.rs:422`), reopens the page at once, and the
   next frame of the locked contact draws.
2. `engine_handoff`. `app/state.rs:143` says that no request is issued with the
   token that was handed off. `tick_handoff_pending` gives up after its deadline,
   and the tail of the tick requests a mode under that token.
3. `engine_lease`. The comment at `runtime/lifecycle_loop.rs:150` says that a new
   foreground lease re-enables the direct ink of the manifest, and that an active
   turn must therefore negotiate its mode again. `enter_foreground` does so only on
   the way from the background: a lease that reaches an application still in front
   is acknowledged and returns (lines 81-84), its cached mode still counts as valid,
   and a locked page is left under the manager's direct ink.
4. `scheduler_sleep`. The comment at `agent.rs:175` relies on the watch to end a
   sleep without a timer. The store is read before the watch is added; a task
   added in between wakes nobody.
5. `answer_directive`. The comment at `oracle/stream.rs:157` promises that a
   directive after prose never becomes visible ink. Fragments are stripped one by
   one and end at sentence ends, also inside a directive; the second half of such a
   directive is written on the page.

## 7. Plan and what is not modelled

Done, in this order: `Engine` with `Dialogue` as its abstract specification;
`EngineProofs`; `Lifecycle`, both managers; `TaskScheduler`; `AnswerStream`,
`OracleTurn`, `ReplyPlan` and their composition `AnswerPath`; `Notebook`,
`PanelWidgets` and their composition `Panels`; `PanelsProofs`; then the remaining
safety properties of every module, and the refinement of `Dialogue`, as theorems
(`TaskSchedulerProofs`, `LifecycleProofs`, `EngineInputProofs`,
`EngineTurnProofs`, `AnswerProofs`, `AnswerInkProofs`).

Left:

1. `ReaderHandoff`: the request worker, the manager's acknowledgement, and the drop
   that fences a late one.
2. `EngineLifecycle`: the composition of `Engine` and `Lifecycle`, so that mode
   requests, hand-offs and reports share one active token.
3. Proofs: `ModeFollowsState` without its exception for a lease granted on top of
   another, once finding 3 is mended in the code; lemmas about `Catalog::lookup`
   beyond the type of what it offers.

Not modelled, and why:

- Pixels, geometry, stroke synthesis and font rasterising: numeric code whose
  results no other component's control depends on.
- Packets, evdev, framing, JSON and line formats: I/O and encodings. What a frame
  that cannot be read does is in the models.
- Command line, paths and environment: read once at start.
- The background agent's power lease and the contents of prompts.
- Torn lines, two faults in one operation, and clocks that go back.
