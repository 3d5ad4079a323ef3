------------------------------- MODULE Engine -------------------------------
(***************************************************************************)
(* The reactor of MagicPaper (src/app/runtime.rs and runtime/): one thread *)
(* that, on every turn of run_loop, handles lifecycle commands, then the   *)
(* queued pen and touch events, then a postponed reader request, then one  *)
(* tick of the page's state machine.  "pc" names the part of the loop the  *)
(* thread is in; a handler is one action, so the interleavings are those   *)
(* of the loop: which events arrive between which ticks.                   *)
(*                                                                         *)
(* Data is reduced to identities.  Ink is a version number that grows with *)
(* every drawn point (0 = a blank page), a request is the generation the   *)
(* oracle controller gave it (0 = none), a foreground lease is its epoch.  *)
(* Time is a choice: a deadline may or may not have passed at a tick.      *)
(***************************************************************************)
EXTENDS Naturals

CONSTANTS
    Takeover,   \* TRUE: --legacy-takeover, raw pen, own heartbeats, no manager
                \* FALSE: hosted and managed by ReMagic
    MaxGen,     \* bound: generations handed out by the oracle controller
    MaxInk,     \* bound: drawn points
    MaxEpoch    \* bound: foreground leases

ASSUME EngineAssumption ==
    /\ Takeover \in BOOLEAN
    /\ MaxGen \in Nat /\ MaxInk \in Nat /\ MaxEpoch \in Nat \ {0}

VARIABLES
    pc,           \* where run_loop is
    state,        \* the page's state
    inputMode, synced,    \* cached input mode, and is the cache valid
    hostMode, regranted,  \* the mode the manager applies; ghost: it granted a
                          \* lease since the application last asked for one
    foreground, epoch, handedOff,    \* lease held; ghost: the lease whose
                                     \* hand-off the manager accepted last
    penDown, hostPen, stylusOn, tapped, touch, modal,
    contact, stray,                  \* ghosts, see NextContact
    page, current, lastInk, attempted, spec,
    oracleUp, gen, captured,         \* captured[g]: the ink request g carries
    turn, lease, memory, readerTarget

modeVars    == <<inputMode, synced, hostMode, regranted>>
lifeVars    == <<foreground, epoch, handedOff>>
pointerVars == <<penDown, hostPen, stylusOn, touch, modal>>
ghostVars   == <<contact, stray>>
inkVars     == <<page, current, lastInk>>
specVars    == <<attempted, spec>>
genVars     == <<oracleUp, gen, captured>>
turnVars    == <<turn, lease, memory>>
vars == <<pc, state, modeVars, lifeVars, pointerVars, tapped, ghostVars, inkVars,
          specVars, genVars, turnVars, readerTarget>>

Gens   == 1..MaxGen
NoReq  == 0

Modes  == {"Writing", "Modal", "AnimationLocked"}
Locked == {"Drinking", "Thinking", "Replying", "AnswerVisible", "FadingReply",
           "AwaitingPenUp", "AwaitingHandoffAck", "HandoffPending"}
\* "List" stands for TaskList, TodoList, HistoryList, FontList, Settings and
\* PiSettings: the reactor treats them alike and none leads to another kind.
Lists  == {"List", "ReaderList"}
Panels == Lists \cup {"Help", "Conjuring", "MemoryShown"}
Handoff == {"AwaitingHandoffAck", "HandoffPending"}
Kinds  == {"Listening"} \cup Panels \cup Locked

\* input_mode_for_state
ModeFor(kind) == IF kind = "Listening" THEN "Writing"
                 ELSE IF kind \in Panels THEN "Modal"
                 ELSE "AnimationLocked"

\* enum State.  "open": Listening has a last_pen, Help still shows its panel,
\* MemoryShown still has the page to restore.  "rx": the request it owns.
\* "token": the lease a reader was requested with.
S(kind)          == [kind |-> kind, open |-> FALSE, rx |-> NoReq, token |-> 0]
Open(kind)       == [kind |-> kind, open |-> TRUE, rx |-> NoReq, token |-> 0]
With(kind, g)    == [kind |-> kind, open |-> FALSE, rx |-> g, token |-> 0]
Reading(kind, t) == [kind |-> kind, open |-> FALSE, rx |-> NoReq, token |-> t]
StateSet == [kind : Kinds, open : BOOLEAN, rx : 0..MaxGen, token : 0..MaxEpoch]

\* turn_id (here the request's generation), turn_strokes (the ink they were
\* taken from, and whether stroke_list() held all of it), the requests whose
\* text is in turn_reply, turn_failed and turn_kind.
BlankTurn == [id |-> 0, strokes |-> 0, whole |-> TRUE, reply |-> {},
              failed |-> FALSE, kind |-> "User"]
TurnSet == [id : 0..MaxGen, strokes : 0..MaxInk, whole : BOOLEAN,
            reply : SUBSET Gens, failed : BOOLEAN, kind : {"User", "Heartbeat"}]
Page == [turn : 0..MaxGen, strokes : 0..MaxInk, whole : BOOLEAN, reply : SUBSET Gens]

Init ==
    /\ pc = "poll" /\ state = S("Listening")
    /\ inputMode = "Writing" /\ synced = TRUE /\ hostMode = "Writing" /\ regranted = FALSE
    /\ foreground = TRUE /\ epoch = 1 /\ handedOff = 0
    /\ penDown = FALSE /\ hostPen = FALSE /\ stylusOn = FALSE /\ tapped = FALSE
    /\ touch = FALSE /\ modal = "none"
    /\ contact = "up" /\ stray = {}
    /\ page = 0 /\ current = FALSE /\ lastInk = 0
    /\ attempted = FALSE /\ spec = NoReq
    /\ oracleUp \in BOOLEAN /\ gen = 0 /\ captured = [g \in Gens |-> 0]
    /\ turn = BlankTurn /\ lease = FALSE /\ memory = {}
    /\ readerTarget = "none"

-----------------------------------------------------------------------------
(* Input mode negotiation with the manager.                                *)

\* Mutation: the cached mode is believed whatever the lease.
CacheIsTrusted(mode) == inputMode # mode

NeedsRequest(mode) == ~synced \/ inputMode # mode

SetModeOk(mode) ==
    /\ inputMode' = mode /\ synced' = TRUE
    /\ IF NeedsRequest(mode) THEN hostMode' = mode /\ regranted' = FALSE
                             ELSE UNCHANGED <<hostMode, regranted>>

\* The manager may or may not have applied a request that reports an error.
SetModeFails(mode) ==
    /\ ~Takeover /\ NeedsRequest(mode)
    /\ inputMode' = "AnimationLocked" /\ synced' = FALSE
    /\ hostMode' \in {hostMode, mode} /\ UNCHANGED regranted

-----------------------------------------------------------------------------
(* Pen frames.                                                             *)

HeartbeatInFlight == turn.kind = "Heartbeat" /\ state.kind \in {"Thinking", "Replying"}

\* The phase is Down: QtfbPenState / the raw path saw the pen as up before.
Fresh == IF Takeover THEN ~penDown ELSE ~hostPen

\* Ghost.  What the Down of the contact now on the glass met: "paper" (it may
\* draw), "locked" (swallowed), "answer" (it dismissed an answer), "modal" (it
\* reached a panel).  A contact that draws in spite of its Down is "stray".
NextContact(met) == IF contact = "up" THEN met ELSE contact

Frame(tool) ==
    /\ tool \in {"pen", "eraser"}
    /\ foreground /\ pc \in {"poll", "input", "redraw"} /\ pc' = "input"
    /\ penDown' = TRUE /\ hostPen' = ~Takeover /\ stylusOn' = TRUE /\ tapped' = TRUE
    /\ UNCHANGED <<touch, lifeVars>>

\* gate_pen_frame: PenGate::Ignore
SwallowFrame(tool) ==
    /\ Frame(tool)
    /\ inputMode = "AnimationLocked"
    /\ ~(tool = "pen" /\ Fresh /\ (state.kind = "AnswerVisible" \/ HeartbeatInFlight))
    /\ contact' = NextContact("locked")
    /\ UNCHANGED <<state, modeVars, modal, stray, inkVars, specVars, genVars, turnVars,
                   readerTarget>>

\* PenGate::FadeAnswer
FadeAnswerFrame ==
    /\ Frame("pen")
    /\ inputMode = "AnimationLocked" /\ Fresh /\ state.kind = "AnswerVisible"
    /\ state' = S("FadingReply")
    /\ contact' = "answer"
    /\ UNCHANGED <<modeVars, modal, stray, inkVars, specVars, genVars, turnVars, readerTarget>>

\* Mutation: a request asked too early survives the next point.
DrawKeepsSpeculation ==
    /\ lastInk < MaxInk /\ lastInk' = lastInk + 1
    /\ state' = Open("Listening")
    /\ UNCHANGED specVars
    /\ stray' = stray \cup ({contact'} \ {"paper"})

\* apply_frame on the page: a pen point or an eraser point.  Erasing the last
\* recorded stroke leaves the page empty.
Draw ==
    /\ lastInk < MaxInk /\ lastInk' = lastInk + 1
    /\ state' = Open("Listening")
    /\ spec' = NoReq /\ attempted' = FALSE
    /\ stray' = stray \cup ({contact'} \ {"paper"})

CancelledTurn == [BlankTurn EXCEPT !.id = turn.id]

\* PenGate::CancelHeartbeat, after which the frame reaches the page
CancelHeartbeatFrame ==
    /\ Frame("pen")
    /\ inputMode = "AnimationLocked" /\ Fresh /\ state.kind # "AnswerVisible"
    /\ HeartbeatInFlight
    /\ contact' = NextContact("paper")
    /\ SetModeOk("Writing")
    /\ Draw /\ page' = lastInk + 1 /\ current' = TRUE
    /\ turn' = CancelledTurn
    /\ lease' = FALSE
    /\ UNCHANGED <<modal, genVars, memory, readerTarget>>

\* record_modal_pen
ModalFrame(tool) ==
    /\ Frame(tool)
    /\ inputMode = "Modal"
    /\ modal' = IF tool = "pen" /\ Fresh /\ modal = "none" THEN "pen" ELSE modal
    /\ contact' = NextContact("modal")
    /\ UNCHANGED <<state, modeVars, stray, inkVars, specVars, genVars, turnVars, readerTarget>>

InkFrame(tool) ==
    /\ Frame(tool)
    /\ inputMode = "Writing" /\ state.kind = "Listening"
    /\ contact' = NextContact("paper")
    /\ Draw
    /\ IF tool = "pen" THEN page' = lastInk + 1 /\ current' = TRUE
       ELSE page' \in {lastInk + 1} \cup (IF current THEN {} ELSE {0}) /\ UNCHANGED current
    /\ UNCHANGED <<modeVars, modal, genVars, turnVars, readerTarget>>

PenFrame == \/ \E tool \in {"pen", "eraser"} :
                  SwallowFrame(tool) \/ ModalFrame(tool) \/ InkFrame(tool)
            \/ FadeAnswerFrame
            \/ CancelHeartbeatFrame

-----------------------------------------------------------------------------
(* The end of a contact.                                                   *)

\* finish_modal_contact once the contact is taken: the gesture may be nothing,
\* may close a list or the guide, or may choose a book (which ends the batch).
Gesture(after) ==
    \/ pc' = after /\ UNCHANGED <<state, readerTarget>>
    \/ pc' = after /\ state.kind \in Lists /\ state' = S("Listening")
       /\ UNCHANGED readerTarget
    \/ pc' = after /\ state = Open("Help") /\ state' = S("Help")
       /\ UNCHANGED readerTarget
    \/ pc' = "drained" /\ state.kind = "ReaderList" /\ readerTarget' = "path"
       /\ UNCHANGED state

\* The contact belonged to a modal panel.
FinishModalPen(after) ==
    /\ modal = "pen" /\ modal' = "none"
    /\ Gesture(after)
    /\ UNCHANGED <<modeVars, current>>

\* The reply is gone and only this Up was awaited.
FinishAwaited(after) ==
    /\ modal # "pen" /\ state.kind = "AwaitingPenUp"
    /\ \/ SetModeOk("Writing") /\ state' = S("Listening") /\ pc' = after
       \/ SetModeFails("Writing") /\ pc' = "closing" /\ UNCHANGED state
    /\ UNCHANGED <<modal, current, readerTarget>>

\* A stroke on the page is settled; elsewhere the contact just ends.
FinishStroke(after) ==
    /\ modal # "pen" /\ state.kind # "AwaitingPenUp" /\ pc' = after
    /\ IF state.kind = "Listening" /\ penDown
       THEN current' = FALSE /\ state' = Open("Listening")
       ELSE UNCHANGED <<current, state>>
    /\ UNCHANGED <<modal, modeVars, readerTarget>>

\* finish_pen_contact
FinishPen(after) ==
    /\ penDown' = FALSE /\ stylusOn' = FALSE
    /\ FinishModalPen(after) \/ FinishAwaited(after) \/ FinishStroke(after)
    /\ UNCHANGED <<touch, tapped, lifeVars, stray, page, lastInk, specVars, genVars, turnVars>>

\* A release, or a zero-pressure update, of a pen that was down; the raw path
\* finishes the contact on every sample that does not write.
PenUp ==
    /\ foreground /\ pc \in {"poll", "input"}
    /\ Takeover \/ hostPen
    /\ FinishPen("input") /\ hostPen' = FALSE
    /\ contact' = "up"

\* Mutation: the release is synthesized in every state.
OrphanRecoveryAlways == TRUE

OrphanRecoveryMayRelease == state.kind # "AwaitingPenUp"

\* A pressured frame after a gap: the old contact is closed before the frame is
\* handled (at "redraw") as a recovered Down, whether or not the pen was lifted.
\* A closing gesture that chooses a book ends the batch instead: the frame, which
\* may be the Down of a new contact, is lost, and the pen counts as down already.
OrphanGap ==
    /\ foreground /\ pc \in {"poll", "input"} /\ ~Takeover /\ hostPen
    /\ OrphanRecoveryMayRelease
    /\ lastInk < MaxInk             \* bound: the frame that follows may draw
    /\ FinishPen("redraw")
    /\ IF pc' = "redraw" THEN hostPen' = FALSE /\ contact' \in {contact, "up"}
                         ELSE UNCHANGED hostPen /\ contact' \in {contact, "modal"}

\* handle_touch, for the primary contact (others are ignored)
FingerDown ==
    /\ foreground /\ pc \in {"poll", "input"} /\ pc' = "input" /\ ~Takeover
    /\ ~touch /\ touch' = TRUE /\ stylusOn' = TRUE /\ tapped' = TRUE
    /\ modal' = IF inputMode = "Modal" /\ modal = "none" THEN "finger" ELSE modal
    /\ UNCHANGED <<state, modeVars, lifeVars, penDown, hostPen, ghostVars, inkVars, specVars,
                   genVars, turnVars, readerTarget>>

FingerUp ==
    /\ foreground /\ pc \in {"poll", "input"}
    /\ touch /\ touch' = FALSE /\ stylusOn' = FALSE
    /\ IF modal = "finger"
       THEN modal' = "none" /\ Gesture("input")
       ELSE pc' = "input" /\ UNCHANGED <<modal, state, readerTarget>>
    /\ UNCHANGED <<modeVars, lifeVars, penDown, hostPen, tapped, ghostVars, inkVars, specVars,
                   genVars, turnVars>>

-----------------------------------------------------------------------------
(* Lifecycle.                                                              *)

\* Mutation: cancelling the visible turn moves the generation a second time.
InvalidatedTwice == gen + 2

\* invalidate_active_turn
Invalidated == gen + 1

\* Mutation: a page that waits for its first word is left as it is.
SuspendedThinks ==
    IF state.kind \in Lists \cup {"Help", "Thinking"} THEN state ELSE S("Listening")

\* suspend_visible_state
Suspended == IF state.kind \in Lists \cup {"Help"} THEN state ELSE S("Listening")
Suspend ==
    /\ state' = Suspended
    /\ page' = IF state.kind \in {"Drinking", "Thinking", "Replying"} THEN 0 ELSE page

\* Mutation: the contact on a panel is not cancelled.
PointerResetKeepsModal ==
    /\ penDown' = FALSE /\ hostPen' = FALSE /\ stylusOn' = FALSE /\ tapped' = FALSE
    /\ touch' = FALSE /\ contact' = "up" /\ UNCHANGED modal

\* A new input epoch: no contact is carried over.
PointerReset ==
    /\ penDown' = FALSE /\ hostPen' = FALSE /\ stylusOn' = FALSE /\ tapped' = FALSE
    /\ touch' = FALSE /\ modal' = "none" /\ contact' = "up"

\* enter_background with reset_for_background
EnterBackground ==
    /\ pc = "poll" /\ foreground /\ ~Takeover /\ gen < MaxGen
    /\ foreground' = FALSE /\ synced' = FALSE
    /\ gen' = Invalidated /\ spec' = NoReq /\ attempted' = FALSE
    /\ Suspend /\ current' = FALSE
    /\ PointerReset
    /\ readerTarget' = "none" /\ lease' = FALSE /\ turn' = BlankTurn
    /\ hostMode' = "Writing"       \* what the next lease will start from
    /\ regranted' = FALSE
    /\ UNCHANGED <<pc, inputMode, epoch, handedOff, stray, lastInk, oracleUp, captured, memory>>

\* enter_foreground with a new lease: the manager has restored the manifest's
\* direct ink, so the application must ask for its own mode again.
EnterForeground ==
    /\ pc = "poll" /\ ~foreground /\ epoch < MaxEpoch
    /\ epoch' = epoch + 1
    /\ PointerReset
    /\ \/ SetModeOk(ModeFor(state.kind)) /\ foreground' = TRUE /\ UNCHANGED pc
       \/ /\ inputMode' = "AnimationLocked" /\ synced' = FALSE
          /\ hostMode' \in {"Writing", ModeFor(state.kind)}
          /\ pc' = "closing" /\ UNCHANGED <<foreground, regranted>>
    /\ UNCHANGED <<state, handedOff, stray, inkVars, specVars, genVars, turnVars, readerTarget>>

\* A foreground command that reaches a foreground application: its lease is
\* recorded by the lifecycle client and the command itself is ignored, though
\* the manager has restored the manifest's direct ink for the new lease.
DuplicateForeground ==
    /\ pc = "poll" /\ foreground /\ ~Takeover /\ epoch < MaxEpoch
    /\ epoch' = epoch + 1
    /\ hostMode' = "Writing" /\ regranted' = TRUE
    /\ UNCHANGED <<pc, state, inputMode, synced, foreground, handedOff, pointerVars, tapped, ghostVars,
                   inkVars, specVars, genVars, turnVars, readerTarget>>

\* sleep_and_wake: the page is covered and restored, and what the raw devices
\* reported meanwhile, a release among it, is thrown away.
SleepAndWake ==
    /\ pc = "poll" /\ foreground /\ Takeover
    /\ contact' \in {contact, "up"}
    /\ UNCHANGED <<pc, state, modeVars, lifeVars, pointerVars, tapped, stray, inkVars, specVars,
                   genVars, turnVars, readerTarget>>

\* Shutdown, SIGTERM, five-finger or power quit, or a broken transport.
Stop ==
    /\ pc \in {"poll", "input", "drained"} /\ pc' = "closing"
    /\ UNCHANGED <<state, modeVars, lifeVars, pointerVars, tapped, ghostVars, inkVars, specVars,
                   genVars, turnVars, readerTarget>>

Close ==
    /\ pc = "closing" /\ pc' = "stopped"
    /\ gen' = Invalidated /\ spec' = NoReq /\ modal' = "none"
    /\ Suspend
    /\ UNCHANGED <<modeVars, lifeVars, penDown, hostPen, stylusOn, touch, tapped, ghostVars,
                   current, lastInk, attempted, oracleUp, captured, turnVars, readerTarget>>

Stopped == pc = "stopped" /\ UNCHANGED vars

-----------------------------------------------------------------------------
(* The postponed reader request, between the events and the tick: a book    *)
(* chosen from the list.  (A query is postponed only by a directive that    *)
(* follows text, and the stream never delivers one: DirectivesComeFirst.)   *)

\* request_reader / request_reader_query: the catalog and the lease decide.
ReaderOutcomes == {S("Replying"), S("ReaderList")}
    \cup (IF Takeover THEN {} ELSE {Reading("AwaitingHandoffAck", epoch)})

OpenReaderTarget ==
    /\ foreground /\ pc \in {"poll", "input", "drained"} /\ pc' = "tick"
    /\ readerTarget' = "none"
    /\ IF readerTarget = "none" THEN UNCHANGED state
                                 ELSE state' \in ReaderOutcomes \ {S("ReaderList")}
    /\ UNCHANGED <<modeVars, lifeVars, pointerVars, tapped, ghostVars, inkVars, specVars, genVars,
                   turnVars>>

-----------------------------------------------------------------------------
(* tick_state.                                                             *)

\* The tail of tick_state: a hand-off never asks for a mode, everything else
\* does, and a page whose mode was refused stays locked while the loop ends.
TickTo(next) ==
    /\ pc = "tick" /\ tapped' = FALSE
    /\ \/ /\ next.kind \in Handoff
          /\ state' = next /\ pc' = "poll"
          /\ inputMode' = "AnimationLocked" /\ synced' = FALSE
          /\ UNCHANGED <<hostMode, regranted>>
       \/ /\ next.kind \notin Handoff
          /\ SetModeOk(ModeFor(next.kind)) /\ state' = next /\ pc' = "poll"
       \/ /\ next.kind \notin Handoff
          /\ SetModeFails(ModeFor(next.kind)) /\ pc' = "closing"
          /\ state' = IF next.kind = "Listening" THEN S("AwaitingPenUp") ELSE next
    /\ UNCHANGED <<foreground, epoch, pointerVars, ghostVars, lastInk, readerTarget>>

\* A tick that changes nothing but the state.
PlainTick(next) ==
    /\ TickTo(next)
    /\ UNCHANGED <<handedOff, page, current, specVars, genVars, turnVars>>

Idle == state.open /\ ~penDown /\ ~tapped /\ page # 0

\* The commit found a blank page, or the gesture that asks for the guide.
CommitNothing ==
    /\ state.kind = "Listening" /\ Idle
    /\ TickTo(S("Listening")) \/ TickTo(Open("Help"))
    /\ page' = 0 /\ current' = FALSE /\ attempted' = FALSE /\ spec' = NoReq
    /\ UNCHANGED <<handedOff, genVars, turnVars>>

\* commit_page could not lock the input: the ink stays, the loop ends.
CommitLockFails ==
    /\ pc = "tick" /\ pc' = "closing" /\ tapped' = FALSE
    /\ state.kind = "Listening" /\ Idle
    /\ SetModeFails("AnimationLocked") /\ state' = S("AwaitingPenUp")
    /\ attempted' = FALSE /\ spec' = NoReq
    /\ UNCHANGED <<lifeVars, pointerVars, ghostVars, inkVars, genVars, turnVars, readerTarget>>

CommitWithoutOracle ==
    /\ state.kind = "Listening" /\ Idle /\ ~oracleUp
    /\ TickTo(S("Replying"))
    /\ page' = 0 /\ current' = FALSE /\ attempted' = FALSE /\ spec' = NoReq
    /\ UNCHANGED <<handedOff, genVars, turnVars>>

\* new_turn: the generation moves on and older receivers become stale.
Ask(ink) == /\ gen < MaxGen /\ gen' = gen + 1
            /\ captured' = [captured EXCEPT ![gen + 1] = ink]
            /\ UNCHANGED oracleUp

\* Mutation: the previous turn's text is still there when a new one starts.
UserTurnKeepsText(g) == [turn EXCEPT !.id = g, !.strokes = page, !.whole = ~current,
                                     !.kind = "User", !.failed = FALSE]

UserTurn(g) == [BlankTurn EXCEPT !.id = g, !.strokes = page, !.whole = ~current]

\* start_user_turn: adopt the speculative request or ask now.
CommitPage ==
    /\ state.kind = "Listening" /\ Idle /\ oracleUp
    /\ IF spec # NoReq
       THEN turn' = UserTurn(spec) /\ TickTo(With("Drinking", spec)) /\ UNCHANGED genVars
       ELSE Ask(page) /\ turn' = UserTurn(gen + 1) /\ TickTo(With("Drinking", gen + 1))
    /\ spec' = NoReq /\ attempted' = FALSE
    /\ UNCHANGED <<handedOff, page, current, lease, memory>>

\* start_preask, with and without a request
Preask ==
    /\ state.kind = "Listening" /\ Idle /\ ~attempted /\ attempted' = TRUE
    /\ TickTo(state)
    /\ \/ oracleUp /\ Ask(page) /\ spec' = gen + 1
       \/ UNCHANGED <<genVars, spec>>
    /\ UNCHANGED <<handedOff, page, current, turnVars>>

Quiet == state.kind = "Listening" /\ ~penDown /\ ~tapped /\ page = 0

\* Mutation: the text of the writer's last turn is left in turn_reply.
QueuedTurnKeepsText == [turn EXCEPT !.kind = "User"]

QueuedTurn == [turn EXCEPT !.kind = "User", !.reply = {}]

\* poll_agent_queue found a reply the background agent left.  (The agent's
\* queue is TaskScheduler's subject; a reply taken here is gone from it.)
ShowQueuedReply ==
    /\ Quiet
    /\ \/ TickTo(S("Replying")) /\ inputMode' = "AnimationLocked" /\ synced'
          /\ turn' = QueuedTurn
       \/ SetModeFails("AnimationLocked") /\ pc = "tick" /\ pc' = "closing" /\ tapped' = FALSE
          /\ state' = S("AwaitingPenUp")
          /\ UNCHANGED <<foreground, epoch, pointerVars, ghostVars, lastInk, readerTarget, turn>>
    /\ UNCHANGED <<handedOff, page, current, specVars, genVars, lease, memory>>

\* Mutation: the scheduled turn starts without keeping the lease it took.
StartHeartbeatUnleased ==
    /\ Quiet /\ Takeover /\ oracleUp /\ ~lease
    /\ Ask(0)
    /\ turn' = [BlankTurn EXCEPT !.kind = "Heartbeat"]
    /\ TickTo(With("Thinking", gen + 1))
    /\ UNCHANGED <<handedOff, page, current, specVars, lease, memory>>

\* Mutation: the scheduled turn is not marked as one.
StartHeartbeatUnmarked ==
    /\ Quiet /\ Takeover /\ oracleUp /\ ~lease
    /\ Ask(0)
    /\ turn' = BlankTurn
    /\ lease' = TRUE
    /\ TickTo(With("Thinking", gen + 1))
    /\ UNCHANGED <<handedOff, page, current, specVars, memory>>

\* start_heartbeat and begin_heartbeat; a lease this process still holds makes
\* the flock of a second descriptor fail, and the heartbeat is postponed.
StartHeartbeat ==
    /\ Quiet /\ Takeover /\ oracleUp /\ ~lease
    /\ Ask(0)
    /\ turn' = [BlankTurn EXCEPT !.kind = "Heartbeat"]
    /\ lease' = TRUE
    /\ TickTo(With("Thinking", gen + 1))
    /\ UNCHANGED <<handedOff, page, current, specVars, memory>>

\* Mutation: the drunk strokes stay recorded as the page's ink.
DrinkPageKeepsInk ==
    /\ state.kind = "Drinking"
    /\ PlainTick(With("Thinking", state.rx))

\* tick_drinking, last stage: the ink has sunk into the paper.
DrinkPage ==
    /\ state.kind = "Drinking"
    /\ TickTo(With("Thinking", state.rx))
    /\ page' = 0 /\ current' = FALSE
    /\ UNCHANGED <<handedOff, specVars, genVars, turnVars>>

Current == state.rx = gen

\* A request that is no longer current, or whose worker hung up before it said
\* anything; only the latter returns a heartbeat's lease.
ThinkingEnds ==
    /\ state.kind = "Thinking"
    /\ TickTo(S("Listening"))
    /\ lease' = IF Current /\ turn.kind = "Heartbeat" THEN FALSE ELSE lease
    /\ UNCHANGED <<handedOff, page, current, specVars, genVars, turn, memory>>

\* consume_first_event with a directive: the receiver is dropped and a panel,
\* a remembered page, a refreshed page or the reader takes over.
FirstDirective ==
    /\ state.kind = "Thinking" /\ Current
    /\ \E next \in {S("List"), Open("Help"), S("Conjuring"), S("Listening")} \cup ReaderOutcomes :
          PlainTick(next)

\* Mutation: a deadline that never comes due.
NoPatience == FALSE /\ PlainTick(S("Replying"))

\* 120 s of patience without an event: the request is cancelled.
ThinkingTimesOut == state.kind = "Thinking" /\ Current /\ PlainTick(S("Replying"))

\* An error or a missing memory: an excuse is written.
FirstEventFails ==
    /\ state.kind = "Thinking" /\ Current
    /\ TickTo(S("Replying"))
    /\ turn' = [turn EXCEPT !.failed = TRUE]
    /\ UNCHANGED <<handedOff, page, current, specVars, genVars, lease, memory>>

\* Ink keeps the stream; a local command's answer closes it.
FirstText ==
    /\ state.kind = "Thinking" /\ Current
    /\ TickTo(With("Replying", state.rx)) \/ TickTo(S("Replying"))
    /\ turn' = [turn EXCEPT !.reply = @ \cup {state.rx}]
    /\ UNCHANGED <<handedOff, page, current, specVars, genVars, lease, memory>>

\* tick_replying: more text; an end or an error closes the stream.  A stale receiver is only ever closed.
ReplyText ==
    /\ state.kind = "Replying" /\ state.rx # NoReq /\ Current
    /\ TickTo(state)
    /\ turn' = [turn EXCEPT !.reply = @ \cup {state.rx}]
    /\ UNCHANGED <<handedOff, page, current, specVars, genVars, lease, memory>>

ReplyStreamEnds ==
    /\ state.kind = "Replying" /\ state.rx # NoReq
    /\ TickTo(S("Replying"))
    /\ \/ UNCHANGED turn
       \/ Current /\ turn' = [turn EXCEPT !.failed = TRUE]
    /\ UNCHANGED <<handedOff, page, current, specVars, genVars, lease, memory>>

\* complete_reply: a user's turn is remembered, a heartbeat returns its lease.
CompleteReply ==
    /\ state.kind = "Replying" /\ state.rx = NoReq
    /\ TickTo(S("AnswerVisible"))
    /\ memory' = IF turn.kind = "User" /\ ~turn.failed /\ turn.reply # {}
                 THEN memory \cup {[turn |-> turn.id, strokes |-> turn.strokes,
                                    whole |-> turn.whole, reply |-> turn.reply]}
                 ELSE memory
    /\ lease' = IF turn.kind = "Heartbeat" THEN FALSE ELSE lease
    /\ turn' = [turn EXCEPT !.strokes = 0, !.whole = TRUE]
    /\ UNCHANGED <<handedOff, page, current, specVars, genVars>>

FadingEnds ==
    /\ state.kind = "FadingReply"
    /\ PlainTick(IF penDown THEN S("AwaitingPenUp") ELSE S("Listening"))

\* Time-outs, animation ends and dismissals.
TimeoutTick ==
    \/ state.kind = "AnswerVisible" /\ PlainTick(S("FadingReply"))
    \/ state = Open("Help") /\ ~stylusOn /\ modal = "none" /\ PlainTick(S("Help"))
    \/ state = S("Help") /\ ~stylusOn /\ PlainTick(S("Listening"))
    \/ state.kind = "Conjuring"
       /\ PlainTick(IF tapped THEN S("MemoryShown") ELSE Open("MemoryShown"))
    \/ state = Open("MemoryShown") /\ PlainTick(S("MemoryShown"))
    \/ state = S("MemoryShown") /\ ~stylusOn /\ PlainTick(S("Listening"))

\* Mutation: a page already given away waits for ever to be suspended.
HandoffNeverReturns ==
    \/ /\ state.kind = "AwaitingHandoffAck"
       /\ TickTo(Reading("HandoffPending", state.token)) /\ handedOff' = state.token
       /\ UNCHANGED <<page, current, specVars, genVars, turnVars>>
    \/ state.kind = "AwaitingHandoffAck" /\ PlainTick(S("Replying"))
    \/ state.kind = "HandoffPending" /\ state.token # epoch /\ PlainTick(S("Listening"))

HandoffTick ==
    \/ /\ state.kind = "AwaitingHandoffAck"
       /\ TickTo(Reading("HandoffPending", state.token)) /\ handedOff' = state.token
       /\ UNCHANGED <<page, current, specVars, genVars, turnVars>>
    \/ state.kind = "AwaitingHandoffAck" /\ PlainTick(S("Replying"))
    \/ state.kind = "HandoffPending" /\ PlainTick(S("Listening"))

\* Nothing was due.
MustMove ==
    \/ state.kind = "Thinking" /\ ~Current
    \/ state.kind = "Replying" /\ state.rx # NoReq /\ ~Current
    \/ state.kind \in {"Conjuring", "MemoryShown"} /\ tapped /\ state # S("MemoryShown")
    \/ state \in {S("Help"), S("MemoryShown")} /\ ~stylusOn
    \/ state.kind = "HandoffPending" /\ state.token # epoch
IdleTick == ~MustMove /\ PlainTick(state)

Tick == \/ CommitNothing \/ CommitLockFails \/ CommitWithoutOracle \/ CommitPage \/ Preask
        \/ ShowQueuedReply \/ StartHeartbeat
        \/ DrinkPage \/ ThinkingEnds \/ FirstDirective \/ ThinkingTimesOut
        \/ FirstEventFails \/ FirstText
        \/ ReplyText \/ ReplyStreamEnds \/ CompleteReply
        \/ FadingEnds \/ TimeoutTick \/ HandoffTick \/ IdleTick

Next == \/ PenFrame \/ PenUp \/ OrphanGap \/ FingerDown \/ FingerUp
        \/ EnterBackground \/ EnterForeground \/ DuplicateForeground \/ SleepAndWake
        \/ Stop \/ Close \/ Stopped
        \/ OpenReaderTarget
        \/ Tick

Spec == Init /\ [][Next]_vars

-----------------------------------------------------------------------------
(* Properties.                                                             *)

\* Every variable keeps the shape the program's types give it.
TypeOK ==
    /\ pc \in {"poll", "input", "redraw", "drained", "tick", "closing", "stopped"}
    /\ state \in StateSet
    /\ inputMode \in Modes /\ synced \in BOOLEAN /\ hostMode \in Modes /\ regranted \in BOOLEAN
    /\ foreground \in BOOLEAN /\ epoch \in 1..MaxEpoch /\ handedOff \in 0..MaxEpoch
    /\ penDown \in BOOLEAN /\ hostPen \in BOOLEAN /\ stylusOn \in BOOLEAN
    /\ tapped \in BOOLEAN /\ touch \in BOOLEAN /\ modal \in {"none", "pen", "finger"}
    /\ contact \in {"up", "paper", "locked", "answer", "modal"}
    /\ stray \subseteq {"locked", "answer", "modal"}
    /\ page \in 0..MaxInk /\ current \in BOOLEAN /\ lastInk \in 0..MaxInk
    /\ attempted \in BOOLEAN /\ spec \in 0..MaxGen
    /\ oracleUp \in BOOLEAN /\ gen \in 0..(MaxGen + 1) /\ captured \in [Gens -> 0..MaxInk]
    /\ turn \in TurnSet /\ lease \in BOOLEAN /\ memory \subseteq Page
    /\ readerTarget \in {"none", "path"}

\* A speculative request that is still held was asked about exactly the ink now
\* on the page, by the newest generation, while the page is being written
\* (start_preask, "writing resumed", commit_page).
SpeculationIsExact ==
    spec # NoReq => /\ state.kind = "Listening" /\ attempted
                    /\ spec = gen /\ captured[spec] = page /\ page # 0

\* The request the page waits for or writes down is the oracle controller's
\* newest: it never goes silently stale, and while the paper drinks the ink
\* that ink is what the request carries.
HeldTurnIsCurrent ==
    state.rx # NoReq => /\ state.rx = gen
                        /\ state.kind = "Drinking" => captured[state.rx] = page /\ page # 0

\* Text of two requests never meets in one answer.
OneRequestPerAnswer ==
    /\ state.kind \in {"Drinking", "Thinking"} => turn.reply = {}
    /\ state.kind = "Replying" /\ state.rx # NoReq => turn.reply = {state.rx}

\* The contact that dismissed an answer never leaves ink, however the fade, a
\* lost release and its recovery interleave (orphan_recovery_may_release).
AnswerContactNeverInks == "answer" \notin stray

\* Whenever events can arrive, the cached mode is the state's mode, a valid
\* cache agrees with the manager, and the manager draws ink by itself only
\* while the page accepts it (set_input_mode).  During a hand-off the page is
\* locked locally.  A lease granted on top of another is LeaseIsRenegotiated's.
ModeFollowsState ==
    foreground =>
        /\ synced /\ ~regranted => hostMode = inputMode
        /\ pc = "poll" => IF state.kind \in Handoff
                          THEN ~synced /\ inputMode = "AnimationLocked"
                          ELSE synced /\ inputMode = ModeFor(state.kind)
        /\ /\ pc \in {"poll", "input", "redraw"}
           /\ inputMode = "Writing" \/ (hostMode = "Writing" /\ ~regranted)
           => state.kind = "Listening"

\* Every flag that makes the reactor wait for a contact to end belongs to a
\* contact whose end will be noticed: the release of a pen seen down will be
\* taken for one (QtfbPenState), a panel's contact has its pointer, "stylus_on" has one of the two.
ContactsHaveARelease ==
    /\ ~Takeover /\ penDown => hostPen
    /\ modal = "pen" => penDown
    /\ modal = "finger" => touch
    /\ stylusOn => penDown \/ touch

\* A remembered page pairs the strokes of one turn with the answer to exactly
\* those strokes, and no turn is remembered twice.
MemoryPairsOneTurn ==
    \A m \in memory :
        /\ m.turn \in Gens /\ m.reply = {m.turn}
        /\ m.strokes = captured[m.turn] /\ m.strokes # 0
        /\ \A n \in memory : n.turn = m.turn => n = m

\* Unsent ink lies only on the page being written or being drunk: no answer,
\* panel or hand-off ever covers it.
PaperOwnsInk ==
    page # 0 /\ pc \notin {"closing", "stopped"} => state.kind \in {"Listening", "Drinking"}

\* A new foreground lease re-enables the manifest's direct ink, so a mode cached
\* before it no longer describes the manager (reset_for_background): a cache
\* that counts as valid is what the manager applies, under every lease.
LeaseIsRenegotiated == foreground /\ synced => hostMode = inputMode

\* A scheduled turn is only ever in flight under the scheduler lease.
HeartbeatHoldsLease == HeartbeatInFlight => lease

\* A contact that began while the page was locked is swallowed to its Up: only
\* a later, fresh Down makes ink (State::AwaitingPenUp).
LockedContactsNeverInk == "locked" \notin stray

\* After the manager accepted a hand-off, its lease is not used for another
\* input-mode request.
HandedOffTokenIsDead == [][~synced /\ synced' => epoch' # handedOff]_vars

-----------------------------------------------------------------------------
(* Liveness.  Every batch of events ends (drain_events reads until nothing *)
(* is waiting), so the loop reaches its tick again and again.  A deadline  *)
(* that is due is seen at some tick, hence strong fairness, and the reader *)
(* worker's socket has a timeout.  Nothing is assumed of the writer, the   *)
(* manager or the oracle.                                                  *)

Loop == OpenReaderTarget \/ Tick \/ Close
Redraw == pc = "redraw" /\ PenFrame
Fairness ==
    /\ WF_vars(Redraw)
    /\ SF_vars(Loop)
    /\ SF_vars(DrinkPage) /\ SF_vars(ThinkingTimesOut)
    /\ SF_vars(TimeoutTick) /\ SF_vars(FadingEnds)
    /\ SF_vars(HandoffTick) /\ SF_vars(CompleteReply)
LiveSpec == Spec /\ Fairness

\* A turn never waits for its first word for ever.
PatienceEnds == state.kind \in {"Drinking", "Thinking"}
                ~> state.kind \notin {"Drinking", "Thinking"}

\* A locked page comes back, unless an answer's stream is still open (no
\* deadline bounds it) or the writer keeps the pen down.
LockEnds == state.kind \in Locked
            ~> \/ state.kind \notin Locked \/ state.kind = "AwaitingPenUp"
               \/ state.kind = "Replying" /\ state.rx # NoReq
=============================================================================
