--------------------------- MODULE EngineInputProofs ---------------------------
(***************************************************************************)
(* What the reactor believes of its input, for every bound: that a contact *)
(* it waits for will end, that its cached input mode is the manager's, and *)
(* that the contact which dismissed an answer never leaves ink.  The last  *)
(* needs to know where such a contact can be: on a page that fades or      *)
(* waits for its Up, and still down whenever a tick could end the fade.    *)
(***************************************************************************)
EXTENDS EngineProofs

\* A raw pen has no manager: it is never in the background nor hands off.
RawPen == Takeover => foreground /\ state.kind \notin Handoff

\* The mode the manager applies may be the writing mode only on a page that
\* accepts ink, at every point where an event or a hosted tick can look at it.
Watched == pc \in {"poll", "input", "redraw", "drained"} \/ (pc = "tick" /\ ~Takeover)

\* Ink would be drawn: by the reactor, or by the manager under the lease in
\* which it was last asked for a mode.
InkMode == inputMode = "Writing" \/ (hostMode = "Writing" /\ ~regranted)

ModeInv ==
    /\ ~foreground => ~synced
    /\ pc = "tick" => foreground
    /\ foreground =>
         /\ synced /\ ~regranted => hostMode = inputMode
         /\ pc = "poll" => IF state.kind \in Handoff
                              THEN ~synced /\ inputMode = "AnimationLocked"
                              ELSE synced /\ inputMode = ModeFor(state.kind)
         /\ Watched /\ InkMode => state.kind = "Listening"
         /\ Live /\ state.kind \in {"AnswerVisible", "FadingReply", "AwaitingPenUp"}
              => inputMode = "AnimationLocked"

\* The contact that dismissed an answer is still down, or is about to be seen
\* down again, and its page has not become writable.
AnswerInv ==
    Live /\ contact = "answer" =>
        /\ state.kind \in {"FadingReply", "AwaitingPenUp"}
        /\ penDown \/ pc = "redraw"

InputInv == /\ IInv /\ RawPen /\ ContactsHaveARelease /\ ModeInv
            /\ AnswerInv /\ AnswerContactNeverInks

-----------------------------------------------------------------------------
(* What a tick makes of a page.                                            *)

\* A hand-off starts from a question and never with a raw pen; a page that
\* fades under a held pen waits for its Up, and only an Up ends that.
Course(next) ==
    /\ next.kind \in Handoff => ~Takeover /\ state.kind \in {"Thinking"} \cup Handoff
    /\ state.kind = "FadingReply" /\ penDown => next.kind \in {"FadingReply", "AwaitingPenUp"}
    /\ state.kind = "AwaitingPenUp" => next = state

\* commit_page and poll_agent_queue when the lock is refused.
LockRefused ==
    /\ pc = "tick" /\ pc' = "closing" /\ SetModeFails("AnimationLocked")
    /\ state' = S("AwaitingPenUp")
    /\ UNCHANGED <<foreground, epoch, pointerVars, ghostVars, lastInk, readerTarget>>

\* Every tick ends in tick_state's tail with a next state, apart from the two
\* locks that may be refused on the way.
LEMMA TickCourse ==
    ASSUME IInv, RawPen, Tick
    PROVE  \/ \E next \in StateSet : TickTo(next) /\ Course(next)
           \/ LockRefused
  <1> USE StateShapes, KindNames DEF IInv
  <1>0. state \in StateSet /\ state.kind \in Kinds /\ state.rx \in 0..MaxGen
        /\ state.token \in 0..MaxEpoch
    BY DEF TypeOK
  \* From any page but those, a next state that is no hand-off needs no more.
  <1>1. ASSUME NEW next \in StateSet, TickTo(next), next.kind \notin Handoff,
               state.kind \notin {"FadingReply", "AwaitingPenUp"}
        PROVE  \E n \in StateSet : TickTo(n) /\ Course(n)
    <2>1. Course(next)
      BY <1>1 DEF Course
    <2> QED
      BY <1>1, <2>1
  <1>2. CASE CommitNothing \/ CommitWithoutOracle
    BY <1>1, <1>2 DEF CommitNothing, CommitWithoutOracle, Handoff
  <1>3. CASE CommitLockFails
    BY <1>3 DEF CommitLockFails, LockRefused, lifeVars, inkVars
  <1>4. CASE CommitPage
    <2>1. \E g \in 0..MaxGen : TickTo(With("Drinking", g)) /\ state.kind = "Listening"
      <3>1. CASE spec # NoReq
        BY <1>4, <3>1 DEF CommitPage, TypeOK
      <3>2. CASE spec = NoReq
        <4>1. /\ Ask(page) /\ TickTo(With("Drinking", gen + 1))
              /\ state.kind = "Listening" /\ page \in 0..MaxInk
          BY <1>4, <3>2 DEF CommitPage, TypeOK
        <4>2. gen + 1 \in 0..MaxGen
          BY <4>1, AskShapes DEF Gens
        <4> QED
          BY <4>1, <4>2
      <3> QED
        BY <3>1, <3>2
    <2>2. PICK g \in 0..MaxGen : TickTo(With("Drinking", g)) /\ state.kind = "Listening"
      BY <2>1
    <2>3. "Drinking" \in Kinds
      BY KindNames
    <2>4. With("Drinking", g) \in StateSet /\ With("Drinking", g).kind = "Drinking"
      BY <2>3, StateShapes
    <2> QED
      BY <1>1, <2>2, <2>4 DEF Handoff
  <1>5. CASE Preask
    <2>1. TickTo(state) /\ state.kind = "Listening"
      BY <1>5 DEF Preask
    <2> QED
      BY <1>0, <1>1, <2>1 DEF Handoff
  <1>6. CASE ShowQueuedReply
    <2>1. state.kind = "Listening"
      BY <1>6 DEF ShowQueuedReply, Quiet
    <2>2. CASE TickTo(S("Replying"))
      BY <1>1, <2>1, <2>2 DEF Handoff
    <2>3. CASE ~TickTo(S("Replying"))
      BY <1>6, <2>3 DEF ShowQueuedReply, LockRefused
    <2> QED
      BY <2>2, <2>3
  <1>7. CASE StartHeartbeat
    <2>1. Ask(0) /\ state.kind = "Listening" /\ TickTo(With("Thinking", gen + 1))
      BY <1>7 DEF StartHeartbeat, Quiet
    <2>2. gen + 1 \in 0..MaxGen
      <3>1. 0 \in 0..MaxInk
        BY EngineAssumption
      <3> QED
        BY <2>1, <3>1, AskShapes DEF Gens
    <2>3. "Thinking" \in Kinds
      BY KindNames
    <2>4. /\ With("Thinking", gen + 1) \in StateSet
          /\ With("Thinking", gen + 1).kind = "Thinking"
      BY <2>2, <2>3, StateShapes
    <2> QED
      BY <1>1, <2>1, <2>4 DEF Handoff
  <1>8. CASE DrinkPage
    <2>1. With("Thinking", state.rx) \in StateSet /\ With("Thinking", state.rx).kind = "Thinking"
      BY <1>0, StateShapes, KindNames
    <2> QED
      BY <1>1, <1>8, <2>1 DEF DrinkPage, Handoff
  <1>9. CASE ThinkingEnds \/ ThinkingTimesOut \/ FirstEventFails
    <2>1. state.kind = "Thinking" /\ (TickTo(S("Listening")) \/ TickTo(S("Replying")))
      BY <1>9 DEF ThinkingEnds, ThinkingTimesOut, FirstEventFails, PlainTick
    <2>2. \A k \in {"Listening", "Replying"} : S(k) \in StateSet /\ S(k).kind \notin Handoff
      BY DEF Handoff
    <2> QED
      BY <1>1, <2>1, <2>2
  <1>10. CASE FirstDirective
    <2>1. PICK next \in {S("List"), Open("Help"), S("Conjuring"), S("Listening")}
                          \cup ReaderOutcomes : TickTo(next)
      BY <1>10 DEF FirstDirective, PlainTick
    <2>2. next \in StateSet /\ state.kind = "Thinking"
      BY <1>10, ReaderTypes DEF FirstDirective
    <2>3. Takeover => next.kind \notin Handoff
      <3>1. S("List").kind \notin Handoff /\ Open("Help").kind \notin Handoff
            /\ S("Conjuring").kind \notin Handoff /\ S("Listening").kind \notin Handoff
        BY DEF Handoff, S, Open
      <3>2. S("Replying").kind \notin Handoff /\ S("ReaderList").kind \notin Handoff
        BY DEF Handoff, S
      <3> QED
        BY <2>1, <3>1, <3>2 DEF ReaderOutcomes
    <2>4. Course(next)
      BY <2>2, <2>3 DEF Course
    <2> QED
      BY <2>1, <2>2, <2>4
  <1>11. CASE FirstText \/ ReplyText \/ ReplyStreamEnds
    <2>1. /\ With("Replying", state.rx) \in StateSet
          /\ With("Replying", state.rx).kind = "Replying"
      BY <1>0, StateShapes, KindNames
    <2>2. state.kind \in {"Thinking", "Replying"}
      BY <1>11 DEF FirstText, ReplyText, ReplyStreamEnds
    <2>3. \/ TickTo(With("Replying", state.rx)) \/ TickTo(S("Replying"))
          \/ TickTo(state) /\ state.kind = "Replying"
      BY <1>11 DEF FirstText, ReplyText, ReplyStreamEnds
    <2> QED
      BY <1>0, <1>1, <2>1, <2>2, <2>3 DEF Handoff
  <1>13. CASE CompleteReply
    BY <1>1, <1>13 DEF CompleteReply, Handoff
  <1>14. CASE FadingEnds
    <2> DEFINE next == IF penDown THEN S("AwaitingPenUp") ELSE S("Listening")
    <2>1. TickTo(next) /\ state.kind = "FadingReply"
      BY <1>14 DEF FadingEnds, PlainTick
    <2>2. next \in StateSet /\ next.kind \notin Handoff
          /\ (penDown => next.kind = "AwaitingPenUp")
      BY DEF Handoff
    <2>3. Course(next)
      BY <2>1, <2>2 DEF Course
    <2> HIDE DEF next
    <2> QED
      BY <2>1, <2>2, <2>3
  <1>15. CASE TimeoutTick
    <2>1. /\ state.kind \notin {"FadingReply", "AwaitingPenUp"}
          /\ \E next \in {S("FadingReply"), S("Help"), S("Listening"), S("MemoryShown"),
                          Open("MemoryShown")} : TickTo(next)
      BY <1>15 DEF TimeoutTick, PlainTick, S, Open
    <2> QED
      BY <1>1, <2>1 DEF Handoff
  <1>16. CASE HandoffTick
    <2>0. ~Takeover /\ state.kind \in Handoff
      BY <1>16 DEF HandoffTick, RawPen, Handoff
    <2>1. Reading("HandoffPending", state.token) \in StateSet
      BY ZenonT(40), <1>0, StateShapes, KindNames
    <2>2. PICK next \in StateSet : TickTo(next)
      BY <1>16, <2>1 DEF HandoffTick, PlainTick
    <2>3. Course(next)
      BY <2>0 DEF Course, Handoff
    <2> QED
      BY <2>2, <2>3
  <1>17. CASE IdleTick
    <2>1. TickTo(state)
      BY <1>17 DEF IdleTick, PlainTick
    <2>2. Course(state)
      BY DEF Course, RawPen
    <2> QED
      BY <1>0, <2>1, <2>2
  <1> QED
    BY <1>2, <1>3, <1>4, <1>5, <1>6, <1>7, <1>8, <1>9, <1>10, <1>11, <1>13, <1>14, <1>15,
       <1>16, <1>17 DEF Tick

\* A tick meets no contact.
LEMMA TickKeepsContact ==
    ASSUME IInv, RawPen, Tick
    PROVE  UNCHANGED <<penDown, contact, stray>> /\ pc = "tick"
  BY TickCourse DEF TickTo, LockRefused, pointerVars, ghostVars

-----------------------------------------------------------------------------
(* Contacts.                                                               *)

\* The end of a pen contact keeps a panel's finger and drops a panel's pen.
LEMMA FinishPenContact ==
    ASSUME NEW after, FinishPen(after), ContactsHaveARelease
    PROVE  ContactsHaveARelease'
  <1>1. modal' \in {modal, "none"} /\ modal' # "pen"
    BY DEF FinishPen, FinishModalPen, FinishAwaited, FinishStroke
  <1>2. penDown' = FALSE /\ stylusOn' = FALSE /\ touch' = touch
    BY DEF FinishPen
  <1> QED
    BY <1>1, <1>2 DEF ContactsHaveARelease

\* No step forgets whom it waits for.
LEMMA ContactStep ==
    ASSUME IInv, RawPen, ContactsHaveARelease, [Next]_vars
    PROVE  ContactsHaveARelease'
  <1> USE DEF ContactsHaveARelease
  <1>1. CASE UNCHANGED vars
    BY <1>1 DEF vars, pointerVars
  <1>2. CASE PenFrame
    <2>1. /\ penDown' = TRUE /\ hostPen' = ~Takeover /\ stylusOn' = TRUE /\ touch' = touch
          /\ modal' \in {modal, "pen"}
      BY <1>2 DEF PenFrame, SwallowFrame, ModalFrame, InkFrame, FadeAnswerFrame,
                  CancelHeartbeatFrame, Frame
    <2> QED
      BY <2>1
  <1>3. CASE PenUp \/ OrphanGap
    BY <1>3, FinishPenContact DEF PenUp, OrphanGap
  <1>4. CASE FingerDown
    BY <1>4 DEF FingerDown
  <1>5. CASE FingerUp
    BY <1>5 DEF FingerUp
  <1>6. CASE EnterBackground \/ EnterForeground
    BY <1>6 DEF EnterBackground, EnterForeground, PointerReset
  <1>7. CASE DuplicateForeground \/ SleepAndWake \/ Stop \/ Stopped \/ OpenReaderTarget
    <2>1. UNCHANGED <<penDown, hostPen, stylusOn, touch, modal>>
      BY <1>7 DEF DuplicateForeground, SleepAndWake, Stop, Stopped, OpenReaderTarget, vars,
                  pointerVars
    <2> QED
      BY <2>1
  <1>8. CASE Close
    BY <1>8 DEF Close
  <1>9. CASE Tick
    <2>1. UNCHANGED <<penDown, hostPen, stylusOn, touch, modal>>
      BY <1>9, TickCourse DEF TickTo, LockRefused, pointerVars
    <2> QED
      BY <2>1
  <1> QED
    BY <1>1, <1>2, <1>3, <1>4, <1>5, <1>6, <1>7, <1>8, <1>9 DEF Next

-----------------------------------------------------------------------------
(* What a frame makes of a page.                                           *)

\* A frame is swallowed or noted, dismisses an answer, or draws on a page whose
\* mode is, or becomes, the writing mode.
LEMMA FrameOutcome ==
    ASSUME PenFrame
    PROVE  /\ foreground /\ pc \in {"poll", "input", "redraw"} /\ pc' = "input" /\ penDown'
           /\ UNCHANGED <<lifeVars, readerTarget>>
           /\ \/ /\ UNCHANGED <<state, modeVars, stray>>
                 /\ contact' = contact \/ contact' \in {"locked", "modal"}
              \/ /\ state.kind = "AnswerVisible" /\ state' = S("FadingReply")
                 /\ UNCHANGED <<modeVars, stray>>
              \/ /\ state.kind = "Listening" \/ HeartbeatInFlight
                 /\ contact' = NextContact("paper") /\ Draw
                 /\ UNCHANGED modeVars \/ SetModeOk("Writing")
  <1>1. /\ foreground /\ pc \in {"poll", "input", "redraw"} /\ pc' = "input" /\ penDown'
        /\ UNCHANGED <<lifeVars, readerTarget>>
    BY DEF PenFrame, SwallowFrame, ModalFrame, InkFrame, FadeAnswerFrame, CancelHeartbeatFrame,
           Frame
  <1>2. CASE \E tool \in {"pen", "eraser"} : SwallowFrame(tool) \/ ModalFrame(tool)
    BY <1>1, <1>2 DEF SwallowFrame, ModalFrame, NextContact
  <1>3. CASE \E tool \in {"pen", "eraser"} : InkFrame(tool)
    BY <1>1, <1>3 DEF InkFrame
  <1>4. CASE FadeAnswerFrame
    BY <1>1, <1>4 DEF FadeAnswerFrame
  <1>5. CASE CancelHeartbeatFrame
    BY <1>1, <1>5 DEF CancelHeartbeatFrame
  <1> QED
    BY <1>2, <1>3, <1>4, <1>5 DEF PenFrame

-----------------------------------------------------------------------------
(* Where a raw pen is.                                                     *)

\* A raw pen stays in front, and never starts a hand-off.
LEMMA RawPenStep ==
    ASSUME IInv, RawPen, [Next]_vars
    PROVE  RawPen'
  <1> SUFFICES ASSUME Takeover
               PROVE  foreground' /\ state'.kind \notin Handoff
    BY DEF RawPen
  <1> USE StateShapes, KindNames DEF IInv
  <1>0. foreground /\ state.kind \notin Handoff
    BY DEF RawPen
  <1>1. CASE UNCHANGED vars
    BY <1>0, <1>1 DEF vars, lifeVars
  <1>2. CASE PenFrame
    <2>1. foreground' = foreground
      BY <1>2, FrameOutcome DEF lifeVars
    <2>2. state' \in {state, S("FadingReply"), Open("Listening")}
      BY <1>2, FrameOutcome DEF Draw
    <2> QED
      BY <1>0, <2>1, <2>2 DEF Handoff
  <1>3. ASSUME NEW after, Gesture(after)
        PROVE  state'.kind \notin Handoff
    BY <1>0, <1>3 DEF Gesture, Handoff
  <1>4. ASSUME NEW after, FinishPen(after)
        PROVE  foreground' = foreground /\ state'.kind \notin Handoff
    <2>1. foreground' = foreground
      BY <1>4 DEF FinishPen, lifeVars
    <2>2. CASE FinishModalPen(after)
      BY <1>3, <2>1, <2>2 DEF FinishModalPen
    <2>3. CASE FinishAwaited(after) \/ FinishStroke(after)
      <3>1. state' \in {state, S("Listening"), Open("Listening")}
        BY <2>3 DEF FinishAwaited, FinishStroke
      <3> QED
        BY <1>0, <2>1, <3>1 DEF Handoff
    <2> QED
      BY <1>4, <2>2, <2>3 DEF FinishPen
  <1>5. CASE PenUp \/ OrphanGap
    BY <1>0, <1>4, <1>5 DEF PenUp, OrphanGap
  <1>6. CASE FingerDown
    BY <1>0, <1>6 DEF FingerDown, lifeVars
  <1>7. CASE FingerUp
    <2>1. foreground' = foreground
      BY <1>7 DEF FingerUp, lifeVars
    <2>2. Gesture("input") \/ UNCHANGED state
      BY <1>7 DEF FingerUp
    <2> QED
      BY <1>0, <1>3, <2>1, <2>2
  <1>8. CASE EnterBackground \/ EnterForeground
    BY <1>0, <1>8 DEF EnterBackground, EnterForeground
  <1>9. CASE DuplicateForeground \/ SleepAndWake \/ Stop \/ Stopped
    <2>1. UNCHANGED <<foreground, state>>
      BY <1>9 DEF DuplicateForeground, SleepAndWake, Stop, Stopped, vars, lifeVars
    <2> QED
      BY <1>0, <2>1
  <1>10. CASE Close
    <2>1. foreground' = foreground /\ state' = Suspended
      BY <1>10 DEF Close, Suspend, lifeVars
    <2>2. Suspended \in {state, S("Listening")}
      BY DEF Suspended
    <2> QED
      BY <1>0, <2>1, <2>2 DEF Handoff
  <1>11. CASE OpenReaderTarget
    <2>1. foreground' = foreground
      BY <1>11 DEF OpenReaderTarget, lifeVars
    <2>2. state' \in {state, S("Replying"), S("ReaderList")}
      <3>1. readerTarget \in {"none", "path"}
        BY DEF TypeOK
      <3>2. ReaderOutcomes = {S("Replying"), S("ReaderList")}
        BY DEF ReaderOutcomes
      <3>3. CASE readerTarget = "none"
        BY <1>11, <3>3 DEF OpenReaderTarget
      <3>4. CASE readerTarget = "path"
        BY <1>11, <3>2, <3>4 DEF OpenReaderTarget
      <3> QED
        BY <3>1, <3>3, <3>4
    <2> QED
      BY <1>0, <2>1, <2>2 DEF Handoff
  <1>12. CASE Tick
    <2>1. ASSUME NEW next \in StateSet, TickTo(next), Course(next)
          PROVE  foreground' /\ state'.kind \notin Handoff
      <3>1. state' = next /\ foreground' = foreground
        BY <2>1, TickOutcome
      <3>2. next.kind \notin Handoff
        BY <2>1 DEF Course
      <3> QED
        BY <1>0, <3>1, <3>2
    <2>2. CASE LockRefused
      BY <2>2 DEF LockRefused, SetModeFails
    <2> QED
      BY <1>12, <2>1, <2>2, TickCourse
  <1> QED
    BY <1>1, <1>2, <1>5, <1>6, <1>7, <1>8, <1>9, <1>10, <1>11, <1>12 DEF Next

\* A gesture closes a panel, the guide, or leaves a book's path behind.
LEMMA GestureOutcome ==
    ASSUME NEW after, Gesture(after)
    PROVE  \/ pc' = after /\ UNCHANGED <<state, readerTarget>>
           \/ pc' = after /\ state.kind \in Lists /\ state' = S("Listening")
              /\ UNCHANGED readerTarget
           \/ pc' = after /\ state.kind = "Help" /\ state'.kind = "Help"
              /\ UNCHANGED readerTarget
           \/ pc' = "drained" /\ state.kind = "ReaderList" /\ readerTarget' = "path"
              /\ UNCHANGED state
  BY StateShapes, KindNames DEF Gesture

\* What the end of a pen contact makes of a page.
LEMMA FinishOutcome ==
    ASSUME NEW after, FinishPen(after)
    PROVE  /\ UNCHANGED <<lifeVars, stray>> /\ penDown' = FALSE
           /\ \/ Gesture(after) /\ UNCHANGED modeVars
              \/ /\ state.kind = "AwaitingPenUp" /\ UNCHANGED readerTarget
                 /\ \/ SetModeOk("Writing") /\ state' = S("Listening") /\ pc' = after
                    \/ SetModeFails("Writing") /\ pc' = "closing" /\ UNCHANGED state
              \/ /\ state.kind # "AwaitingPenUp"
                 /\ state' = state \/ (state.kind = "Listening" /\ state' = Open("Listening"))
                 /\ pc' = after /\ UNCHANGED <<modeVars, readerTarget>>
  BY DEF FinishPen, FinishModalPen, FinishAwaited, FinishStroke

-----------------------------------------------------------------------------
(* The cached mode and the manager's.                                      *)

\* The mode in parts: the cache, what a poll finds, what a watched page shows,
\* and what keeps a page locked until the pen is up.
CacheHolds == /\ ~foreground => ~synced
              /\ pc = "tick" => foreground
              /\ foreground /\ synced /\ ~regranted => hostMode = inputMode
PollFinds  == foreground /\ pc = "poll" =>
                 IF state.kind \in Handoff
                 THEN ~synced /\ inputMode = "AnimationLocked"
                 ELSE synced /\ inputMode = ModeFor(state.kind)
InkIsAccepted == foreground /\ Watched /\ InkMode => state.kind = "Listening"
LockIsOn == foreground /\ Live /\ state.kind \in {"AnswerVisible", "FadingReply", "AwaitingPenUp"}
              => inputMode = "AnimationLocked"

\* The parts make up ModeInv.
LEMMA ModeParts == CacheHolds' /\ PollFinds' /\ InkIsAccepted' /\ LockIsOn' => ModeInv'
  BY DEF ModeInv, CacheHolds, PollFinds, InkIsAccepted, LockIsOn

\* A loop that ends shows no page.
LEMMA ModeEnds ==
    ASSUME pc' \in {"closing", "stopped"}, CacheHolds'
    PROVE  ModeInv'
  BY ModeParts DEF PollFinds, InkIsAccepted, LockIsOn, Watched, Live

\* A request that failed leaves no valid cache.
LEMMA RefusalEnds ==
    ASSUME NEW mode, SetModeFails(mode), pc' = "closing"
    PROVE  ModeInv'
  <1>1. CacheHolds'
    BY DEF SetModeFails, CacheHolds
  <1> QED
    BY <1>1, ModeEnds

\* A request that succeeded makes cache, manager and page agree.
LEMMA AgreementHolds ==
    ASSUME ModeInv, SetModeOk(ModeFor(state'.kind)), foreground', pc' = "poll",
           state'.kind \notin Handoff, foreground \/ ~synced
    PROVE  ModeInv'
  <1>1. /\ synced' /\ inputMode' = ModeFor(state'.kind)
        /\ ~regranted' => hostMode' = inputMode'
    BY DEF SetModeOk, NeedsRequest, ModeInv
  <1>2. state'.kind \in {"AnswerVisible", "FadingReply", "AwaitingPenUp"}
           => ModeFor(state'.kind) = "AnimationLocked"
    BY DEF ModeFor, Panels, Lists
  <1>3. ModeFor(state'.kind) = "Writing" => state'.kind = "Listening"
    BY DEF ModeFor
  <1> QED
    BY <1>1, <1>2, <1>3, ModeParts DEF CacheHolds, PollFinds, InkIsAccepted, InkMode, LockIsOn

\* The tail of a tick.
LEMMA ModeTick ==
    ASSUME IInv, ModeInv, NEW next \in StateSet, TickTo(next), Course(next)
    PROVE  ModeInv'
  <1>1. pc = "tick" /\ foreground /\ foreground'
    BY DEF TickTo, ModeInv
  <1>2. CASE next.kind \in Handoff /\ state' = next /\ pc' = "poll"
             /\ inputMode' = "AnimationLocked" /\ synced' = FALSE
             /\ UNCHANGED <<hostMode, regranted>>
    <2>1. ~Takeover /\ state.kind # "Listening"
      BY <1>2 DEF Course, Handoff
    <2>2. ~InkMode
      BY <1>1, <2>1 DEF ModeInv, Watched
    <2>3. ~InkMode'
      BY <1>2, <2>2 DEF InkMode
    <2> QED
      BY <1>1, <1>2, <2>3, ModeParts DEF CacheHolds, PollFinds, InkIsAccepted, LockIsOn, Handoff
  <1>3. CASE next.kind \notin Handoff /\ SetModeOk(ModeFor(next.kind)) /\ state' = next
             /\ pc' = "poll"
    BY <1>1, <1>3, AgreementHolds
  <1>4. CASE SetModeFails(ModeFor(next.kind)) /\ pc' = "closing"
    BY <1>4, RefusalEnds
  <1> QED
    BY <1>2, <1>3, <1>4 DEF TickTo

\* Mode, manager and page stay together through every step.
LEMMA ModeStep ==
    ASSUME IInv, RawPen, ModeInv, [Next]_vars
    PROVE  ModeInv'
  <1> USE StateShapes, KindNames DEF IInv
  <1>0. readerTarget \in {"none", "path"}
    BY DEF TypeOK
  \* While events are handled a page that stays, closes a panel or opens a
  \* line keeps its mode.
  <1>1. ASSUME foreground, foreground', UNCHANGED modeVars,
               pc \in {"poll", "input", "redraw"}, pc' \in {"input", "redraw", "drained"},
               \/ state' = state \/ state'.kind = "Listening" \/ state'.kind = state.kind
        PROVE  ModeInv'
    <2>1. UNCHANGED <<inputMode, synced, hostMode, regranted>> /\ Live /\ Watched /\ Live' /\ Watched'
      BY <1>1 DEF modeVars, Live, Watched
    <2>2. CacheHolds' /\ PollFinds'
      BY <1>1, <2>1 DEF ModeInv, CacheHolds, PollFinds
    <2>3. InkIsAccepted' /\ LockIsOn'
      BY <1>1, <2>1 DEF ModeInv, InkIsAccepted, InkMode, LockIsOn
    <2> QED
      BY <2>2, <2>3, ModeParts
  <1>2. ASSUME NEW after \in {"input", "redraw"}, Gesture(after), foreground, foreground',
               UNCHANGED modeVars, pc \in {"poll", "input"}
        PROVE  ModeInv'
    BY <1>1, <1>2, GestureOutcome
  <1>3. ASSUME NEW after \in {"input", "redraw"}, FinishPen(after), foreground,
               pc \in {"poll", "input"}
        PROVE  ModeInv'
    <2>0. foreground'
      BY <1>3 DEF FinishPen, lifeVars
    <2>1. CASE Gesture(after) /\ UNCHANGED modeVars
      BY <1>2, <1>3, <2>0, <2>1
    <2>2. CASE SetModeOk("Writing") /\ state' = S("Listening") /\ pc' = after
      <3>1. /\ inputMode' = "Writing" /\ state'.kind = "Listening"
            /\ ~regranted' => hostMode' = "Writing"
        BY <1>3, <2>2 DEF SetModeOk, NeedsRequest, ModeInv
      <3> QED
        BY <1>3, <2>0, <2>2, <3>1, ModeParts
           DEF CacheHolds, PollFinds, InkIsAccepted, LockIsOn
    <2>3. CASE SetModeFails("Writing") /\ pc' = "closing"
      BY <2>3, RefusalEnds
    <2>4. CASE /\ state' = state \/ (state.kind = "Listening" /\ state' = Open("Listening"))
               /\ pc' = after /\ UNCHANGED modeVars
      BY <1>1, <1>3, <2>0, <2>4
    <2>5. \/ Gesture(after) /\ UNCHANGED modeVars
          \/ SetModeOk("Writing") /\ state' = S("Listening") /\ pc' = after
          \/ SetModeFails("Writing") /\ pc' = "closing"
          \/ /\ state' = state \/ (state.kind = "Listening" /\ state' = Open("Listening"))
             /\ pc' = after /\ UNCHANGED modeVars
      <3>1. FinishModalPen(after) \/ FinishAwaited(after) \/ FinishStroke(after)
        BY <1>3 DEF FinishPen
      <3>2. FinishModalPen(after) => (Gesture(after) /\ UNCHANGED modeVars)
        BY DEF FinishModalPen
      <3>3. FinishAwaited(after) =>
              \/ SetModeOk("Writing") /\ state' = S("Listening") /\ pc' = after
              \/ SetModeFails("Writing") /\ pc' = "closing"
        BY DEF FinishAwaited
      <3>4. FinishStroke(after) =>
              /\ state' = state \/ (state.kind = "Listening" /\ state' = Open("Listening"))
              /\ pc' = after /\ UNCHANGED modeVars
        BY DEF FinishStroke
      <3> QED
        BY <3>1, <3>2, <3>3, <3>4
    <2> QED
      BY <2>1, <2>2, <2>3, <2>4, <2>5
  <1>4. CASE UNCHANGED vars
    BY <1>4 DEF vars, modeVars, lifeVars, ModeInv, InkMode, Watched, Live
  <1>5. CASE PenFrame
    <2>0. /\ foreground /\ foreground' /\ pc \in {"poll", "input", "redraw"} /\ pc' = "input"
      BY <1>5, FrameOutcome DEF lifeVars
    <2>1. CASE UNCHANGED <<state, modeVars>>
      BY <1>1, <2>0, <2>1
    <2>2. CASE state.kind = "AnswerVisible" /\ state' = S("FadingReply") /\ UNCHANGED modeVars
      <3>1. UNCHANGED <<inputMode, synced, hostMode, regranted>> /\ Watched /\ Live
        BY <2>0, <2>2 DEF modeVars, Watched, Live
      <3>2. inputMode = "AnimationLocked" /\ ~InkMode
        BY <2>0, <2>2, <3>1 DEF ModeInv
      <3>3. inputMode' = "AnimationLocked" /\ ~InkMode' /\ CacheHolds'
        BY <2>0, <3>1, <3>2 DEF CacheHolds, InkMode, ModeInv
      <3> QED
        BY <2>0, <3>3, ModeParts DEF PollFinds, InkIsAccepted, LockIsOn
    <2>3. CASE Draw /\ UNCHANGED modeVars
      BY <1>1, <2>0, <2>3 DEF Draw
    <2>4. CASE Draw /\ SetModeOk("Writing")
      <3>1. /\ inputMode' = "Writing" /\ state'.kind = "Listening"
            /\ ~regranted' => hostMode' = "Writing"
        BY <2>0, <2>4 DEF Draw, SetModeOk, NeedsRequest, ModeInv
      <3> QED
        BY <2>0, <3>1, ModeParts DEF CacheHolds, PollFinds, InkIsAccepted, LockIsOn
    <2> QED
      BY ZenonT(40), <1>5, <2>1, <2>2, <2>3, <2>4, FrameOutcome
  <1>6. CASE PenUp \/ OrphanGap
    BY <1>3, <1>6 DEF PenUp, OrphanGap
  <1>7. CASE FingerDown
    <2>1. /\ foreground /\ foreground' /\ pc \in {"poll", "input"} /\ pc' = "input"
          /\ UNCHANGED <<state, modeVars>>
      BY <1>7 DEF FingerDown, lifeVars
    <2> QED
      BY <1>1, <2>1
  <1>8. CASE FingerUp
    <2>1. foreground /\ foreground' /\ pc \in {"poll", "input"} /\ UNCHANGED modeVars
      BY <1>8 DEF FingerUp, lifeVars
    <2>2. Gesture("input") \/ (pc' = "input" /\ UNCHANGED state)
      BY <1>8 DEF FingerUp
    <2> QED
      BY <1>1, <1>2, <2>1, <2>2
  <1>9. CASE EnterBackground
    <2>1. ~foreground' /\ ~synced' /\ pc' = "poll"
      BY <1>9 DEF EnterBackground
    <2> QED
      BY <2>1 DEF ModeInv
  <1>10. CASE EnterForeground
    <2>1. ~foreground /\ ~synced /\ state' = state /\ pc = "poll"
      BY <1>10 DEF EnterForeground, ModeInv
    <2>2. CASE SetModeOk(ModeFor(state.kind)) /\ foreground' = TRUE /\ UNCHANGED pc
      <3>1. state.kind \notin Handoff
        BY <2>1 DEF PageRules, RawPen, Handoff, Lists
      <3> QED
        BY <2>1, <2>2, <3>1, AgreementHolds
    <2>3. CASE synced' = FALSE /\ pc' = "closing"
      BY <2>3, ModeEnds DEF CacheHolds
    <2> QED
      BY <1>10, <2>2, <2>3 DEF EnterForeground
  <1>11. CASE SleepAndWake
    <2>1. UNCHANGED <<pc, state, modeVars, foreground>>
      BY <1>11 DEF SleepAndWake, lifeVars
    <2> QED
      BY <2>1 DEF ModeInv, InkMode, Watched, Live, modeVars
  \* A lease on top of another leaves what the reactor believes as it was, and
  \* its manager to LeaseIsRenegotiated.
  <1>11a. CASE DuplicateForeground
    <2>1. UNCHANGED <<pc, state, inputMode, synced, foreground>> /\ regranted'
      BY <1>11a DEF DuplicateForeground
    <2>2. InkMode' => InkMode
      BY <2>1 DEF InkMode
    <2> QED
      BY <2>1, <2>2 DEF ModeInv, Watched, Live
  <1>12. CASE Stop \/ Close
    <2>1. pc' \in {"closing", "stopped"} /\ UNCHANGED <<modeVars, foreground>>
      BY <1>12 DEF Stop, Close, lifeVars
    <2>2. CacheHolds'
      BY <2>1 DEF CacheHolds, ModeInv, modeVars
    <2> QED
      BY <2>1, <2>2, ModeEnds
  <1>13. CASE Stopped
    BY <1>4, <1>13 DEF Stopped
  <1>14. CASE OpenReaderTarget
    <2>1. /\ foreground /\ foreground' /\ pc' = "tick" /\ Live /\ Watched
          /\ UNCHANGED <<inputMode, synced, hostMode, regranted>>
      BY <1>14 DEF OpenReaderTarget, lifeVars, modeVars, Live, Watched
    <2>2. CASE readerTarget = "none"
      <3>1. state' = state
        BY <1>14, <2>2 DEF OpenReaderTarget
      <3>2. CacheHolds' /\ PollFinds'
        BY <2>1 DEF CacheHolds, PollFinds, ModeInv
      <3>3. InkIsAccepted' /\ LockIsOn'
        BY <2>1, <3>1 DEF InkIsAccepted, InkMode, LockIsOn, ModeInv
      <3> QED
        BY <3>2, <3>3, ModeParts
    <2>3. CASE readerTarget # "none"
      <3>1. state'.kind \notin {"AnswerVisible", "FadingReply", "AwaitingPenUp"}
        <4>1. state' \in ReaderOutcomes
          BY <1>14, <2>3 DEF OpenReaderTarget
        <4>2. Reading("AwaitingHandoffAck", epoch).kind = "AwaitingHandoffAck"
          BY DEF Reading
        <4> QED
          BY <4>1, <4>2 DEF ReaderOutcomes
      <3>2. ~Takeover => state.kind # "Listening"
        BY <1>0, <2>1, <2>3 DEF PageRules
      <3>3. CacheHolds' /\ PollFinds'
        BY <2>1 DEF CacheHolds, PollFinds, ModeInv
      <3>4. Watched' => ~Takeover
        BY <2>1 DEF Watched
      <3>5. InkIsAccepted'
        BY <2>1, <3>2, <3>4 DEF InkIsAccepted, InkMode, ModeInv
      <3>6. LockIsOn'
        BY <3>1 DEF LockIsOn
      <3> QED
        BY <3>3, <3>5, <3>6, ModeParts
    <2> QED
      BY <2>2, <2>3
  <1>15. CASE Tick
    <2>1. CASE LockRefused
      BY <2>1, RefusalEnds DEF LockRefused
    <2> QED
      BY <1>15, <2>1, TickCourse, ModeTick
  <1> QED
    BY <1>4, <1>5, <1>6, <1>7, <1>8, <1>9, <1>10, <1>11, <1>11a, <1>12, <1>13, <1>14, <1>15
       DEF Next

-----------------------------------------------------------------------------
(* The contact that dismissed an answer.                                   *)

\* It never reaches the paper: its page fades or waits, and neither draws.
LEMMA AnswerInkStep ==
    ASSUME IInv, RawPen, AnswerInv, AnswerContactNeverInks, [Next]_vars
    PROVE  AnswerContactNeverInks'
  <1> USE DEF IInv
  <1>1. CASE stray' = stray
    BY <1>1 DEF AnswerContactNeverInks
  <1>2. CASE PenFrame
    <2>0. Live
      BY <1>2, FrameOutcome DEF Live
    <2>1. CASE UNCHANGED stray
      BY <1>1, <2>1
    <2>2. CASE /\ state.kind = "Listening" \/ HeartbeatInFlight
               /\ contact' = NextContact("paper") /\ Draw
      <3>1. contact # "answer"
        BY <2>0, <2>2 DEF AnswerInv, HeartbeatInFlight
      <3>2. contact' # "answer"
        BY <2>2, <3>1 DEF NextContact
      <3> QED
        BY <2>2, <3>2 DEF Draw, AnswerContactNeverInks
    <2> QED
      BY ZenonT(40), <1>2, <2>1, <2>2, FrameOutcome
  <1>3. CASE PenUp \/ OrphanGap \/ FingerDown \/ FingerUp
    <2>1. stray' = stray
      BY <1>3 DEF PenUp, OrphanGap, FinishPen, FingerDown, FingerUp, ghostVars
    <2> QED
      BY <1>1, <2>1
  <1>4. CASE EnterBackground \/ EnterForeground \/ DuplicateForeground \/ SleepAndWake
    <2>1. stray' = stray
      BY <1>4 DEF EnterBackground, EnterForeground, DuplicateForeground, SleepAndWake, ghostVars
    <2> QED
      BY <1>1, <2>1
  <1>5. CASE Stop \/ Close \/ Stopped \/ OpenReaderTarget \/ UNCHANGED vars
    <2>1. stray' = stray
      BY <1>5 DEF Stop, Close, Stopped, OpenReaderTarget, ghostVars, vars
    <2> QED
      BY <1>1, <2>1
  <1>6. CASE Tick
    <2>1. stray' = stray
      BY <1>6, TickKeepsContact
    <2> QED
      BY <1>1, <2>1
  <1> QED
    BY <1>2, <1>3, <1>4, <1>5, <1>6 DEF Next

\* It stays down, or about to be seen down, on a page that fades or waits.
LEMMA AnswerStep ==
    ASSUME IInv, RawPen, AnswerInv, [Next]_vars
    PROVE  AnswerInv'
  <1> SUFFICES ASSUME contact' = "answer", Live'
               PROVE  /\ state'.kind \in {"FadingReply", "AwaitingPenUp"}
                      /\ penDown' \/ pc' = "redraw"
    BY DEF AnswerInv
  <1> USE StateShapes, KindNames DEF IInv
  <1>0. readerTarget \in {"none", "path"}
    BY DEF TypeOK
  <1>1. CASE UNCHANGED vars
    BY <1>1 DEF vars, ghostVars, pointerVars, AnswerInv, Live
  <1>2. CASE PenFrame
    <2>0. Live /\ penDown'
      BY <1>2, FrameOutcome DEF Live
    <2>1. CASE UNCHANGED state /\ contact' = contact
      BY <2>0, <2>1 DEF AnswerInv
    <2>2. CASE state' = S("FadingReply")
      BY <2>0, <2>2
    <2>3. CASE /\ state.kind = "Listening" \/ HeartbeatInFlight
               /\ contact' = NextContact("paper")
      BY <2>0, <2>3 DEF AnswerInv, HeartbeatInFlight, NextContact
    <2>4. \/ UNCHANGED state /\ contact' = contact
          \/ contact' \in {"locked", "modal"}
          \/ state' = S("FadingReply")
          \/ /\ state.kind = "Listening" \/ HeartbeatInFlight
             /\ contact' = NextContact("paper")
      BY <1>2, FrameOutcome
    <2> QED
      BY <2>1, <2>2, <2>3, <2>4
  <1>3. CASE PenUp
    BY <1>3 DEF PenUp
  \* Its lost release: the pen has been seen up, and the frame that will be
  \* handled next is a fresh Down on a page that is not waiting.
  <1>4. CASE OrphanGap
    <2>0. FinishPen("redraw") /\ state.kind # "AwaitingPenUp" /\ pc \in {"poll", "input"}
      BY <1>4 DEF OrphanGap, OrphanRecoveryMayRelease
    <2>1. contact = "answer" /\ Live /\ FinishPen("redraw") /\ state.kind # "AwaitingPenUp"
      <3>1. contact' \in {contact, "up", "modal"}
        BY <1>4 DEF OrphanGap
      <3>2. Live
        BY <2>0 DEF Live
      <3> QED
        BY <2>0, <3>1, <3>2
    <2>2. state.kind = "FadingReply"
      BY <2>1 DEF AnswerInv
    <2>3. FinishModalPen("redraw") \/ FinishStroke("redraw")
      BY <2>1 DEF FinishPen, FinishAwaited
    <2>4. state' = state /\ pc' = "redraw"
      BY <2>2, <2>3, GestureOutcome DEF FinishModalPen, FinishStroke, Lists
    <2> QED
      BY <2>2, <2>4
  <1>5. CASE FingerDown
    BY <1>5 DEF FingerDown, ghostVars, AnswerInv, Live
  <1>6. CASE FingerUp
    <2>1. contact = "answer" /\ Live /\ penDown' = penDown /\ pc \in {"poll", "input"}
      BY <1>6 DEF FingerUp, ghostVars, Live
    <2>2. state.kind \in {"FadingReply", "AwaitingPenUp"} /\ penDown
      BY <2>1 DEF AnswerInv
    <2>3. Gesture("input") \/ state' = state
      BY <1>6 DEF FingerUp
    <2>4. state' = state
      BY <2>2, <2>3, GestureOutcome DEF Lists
    <2> QED
      BY <2>1, <2>2, <2>4
  <1>7. CASE EnterBackground \/ EnterForeground
    BY <1>7 DEF EnterBackground, EnterForeground, PointerReset
  <1>8. CASE DuplicateForeground \/ SleepAndWake
    <2>1. contact = "answer" /\ UNCHANGED <<pc, state, penDown>> /\ pc = "poll"
      BY <1>8 DEF DuplicateForeground, SleepAndWake, ghostVars, pointerVars
    <2> QED
      BY <2>1 DEF AnswerInv, Live
  <1>9. CASE Stop \/ Close
    BY <1>9 DEF Stop, Close, Live
  <1>10. CASE Stopped
    BY <1>1, <1>10 DEF Stopped
  <1>11. CASE OpenReaderTarget
    <2>1. contact = "answer" /\ Live /\ UNCHANGED penDown /\ pc # "redraw"
      BY <1>11 DEF OpenReaderTarget, ghostVars, pointerVars, Live
    <2>2. state.kind \in {"FadingReply", "AwaitingPenUp"} /\ penDown
      BY <2>1 DEF AnswerInv
    <2>3. readerTarget = "none"
      BY <1>0, <2>1, <2>2 DEF PageRules
    <2> QED
      BY <1>11, <2>1, <2>2, <2>3 DEF OpenReaderTarget
  <1>12. CASE Tick
    <2>1. contact = "answer" /\ penDown' = penDown /\ pc = "tick"
      BY <1>12, TickKeepsContact
    <2>2. state.kind \in {"FadingReply", "AwaitingPenUp"} /\ penDown
      BY <2>1 DEF AnswerInv, Live
    <2>3. CASE LockRefused
      BY <2>3 DEF LockRefused, Live
    <2>5. ASSUME NEW next \in StateSet, TickTo(next), Course(next)
          PROVE  state'.kind \in {"FadingReply", "AwaitingPenUp"}
      <3>1. state' = next
        BY <2>5, TickOutcome DEF Live
      <3>2. next.kind \in {"FadingReply", "AwaitingPenUp"}
        BY <2>2, <2>5 DEF Course
      <3> QED
        BY <3>1, <3>2
    <2> QED
      BY <1>12, <2>1, <2>2, <2>3, <2>5, TickCourse
  <1> QED
    BY <1>1, <1>2, <1>3, <1>4, <1>5, <1>6, <1>7, <1>8, <1>9, <1>10, <1>11, <1>12 DEF Next

-----------------------------------------------------------------------------
(* The theorems.                                                           *)

\* The reactor starts in front, unlocked and with every contact up.
LEMMA InitInput == Init => InputInv
  <1> SUFFICES ASSUME Init PROVE InputInv
    OBVIOUS
  <1>0. state.kind = "Listening"
    BY StateShapes, KindNames DEF Init
  <1>1. IInv
    BY InitIInv
  <1>2. RawPen
    BY <1>0 DEF Init, RawPen, Handoff
  <1>3. ContactsHaveARelease
    BY DEF Init, ContactsHaveARelease
  <1>4. ModeInv
    BY <1>0 DEF Init, ModeInv, ModeFor, Handoff
  <1>5. AnswerInv /\ AnswerContactNeverInks
    BY DEF Init, AnswerInv, AnswerContactNeverInks
  <1> QED
    BY <1>1, <1>2, <1>3, <1>4, <1>5 DEF InputInv

\* Every step keeps what the reactor believes of its input.
LEMMA StepInput == InputInv /\ [Next]_vars => InputInv'
  BY StepIInv, RawPenStep, ContactStep, ModeStep, AnswerStep, AnswerInkStep
     DEF InputInv

\* The strengthening always holds.
LEMMA InputInvariance == Spec => []InputInv
  BY InitInput, StepInput, PTL DEF Spec

\* Every flag that makes the reactor wait for a contact belongs to a contact
\* whose end it will notice, also after a recovered press was lost to the book
\* its gesture chose (QtfbPenState::transition, finish_pen_contact, touch).
THEOREM ContactsAlwaysHaveARelease == Spec => []ContactsHaveARelease
  <1>1. InputInv => ContactsHaveARelease
    BY DEF InputInv
  <1> QED
    BY <1>1, InputInvariance, PTL

\* Whenever events can arrive the cached input mode is the page's; and unless
\* the manager granted a lease since it was last asked, a valid cache is the
\* manager's, which draws ink by itself only on a page that accepts it
\* (set_input_mode, tick_state, enter_foreground).
THEOREM ModeAlwaysFollowsState == Spec => []ModeFollowsState
  <1>1. InputInv => ModeFollowsState
    BY DEF InputInv, ModeInv, InkMode, ModeFollowsState, Watched
  <1> QED
    BY <1>1, InputInvariance, PTL

\* The contact that dismissed an answer never leaves ink, however the fade, a
\* lost release and its recovery interleave (orphan_recovery_may_release).
THEOREM AnswerContactsNeverInk == Spec => []AnswerContactNeverInks
  <1>1. InputInv => AnswerContactNeverInks
    BY DEF InputInv
  <1> QED
    BY <1>1, InputInvariance, PTL
=============================================================================
