---------------------------- MODULE EngineProofs ----------------------------
(***************************************************************************)
(* Safety of the reactor for every bound.  The invariants of Engine are    *)
(* not inductive one by one: that a speculative request is exact rests on  *)
(* the page's mode never being refused while ink lies on it, and that on   *)
(* ink lying only on the page being written or drunk.                      *)
(***************************************************************************)
EXTENDS Engine, TLAPS

USE EngineAssumption

Live == pc \in {"poll", "input", "redraw", "drained", "tick"}

\* The bound on generations is only passed by the last one, in Close.
GenBound == pc # "stopped" => gen <= MaxGen

\* Which states hold a request.
HoldersOfRequests ==
    /\ state.kind \in {"Drinking", "Thinking"} => state.rx # NoReq
    /\ state.rx # NoReq => state.kind \in {"Drinking", "Thinking", "Replying"}

\* A page in use has a valid mode unless a hand-off is on, a reader request
\* finds the list it was chosen from, and ink is under Writing.  Under a manager
\* every turn is the writer's.
PageRules ==
    /\ ~Takeover => turn.kind = "User"
    /\ foreground /\ Live => synced \/ state.kind \in Handoff
    /\ Live => /\ page # 0 => state.kind \in {"Listening", "Drinking"}
               /\ readerTarget = "path" => state.kind = "ReaderList" /\ pc = "drained"
               /\ foreground /\ page # 0 /\ state.kind = "Listening"
                    => inputMode = "Writing"
    /\ Live /\ pc # "poll" => foreground
    /\ ~foreground => state.kind \in Lists \cup {"Help", "Listening"}

\* A reader request is taken before the tick, and no question is asked ahead
\* while one waits.
ReaderWaits ==
    /\ pc = "tick" => readerTarget = "none"
    /\ readerTarget # "none" => spec = NoReq

IInv == /\ TypeOK /\ GenBound /\ HoldersOfRequests
        /\ SpeculationIsExact /\ HeldTurnIsCurrent /\ ReaderWaits /\ PageRules

-----------------------------------------------------------------------------
(* The shapes of states and turns.                                         *)

\* Every state the code builds has the shape of a state, and holds what it was
\* built with.
LEMMA StateShapes ==
    /\ \A k \in Kinds :
        /\ S(k) \in StateSet /\ S(k).kind = k /\ S(k).rx = NoReq /\ ~S(k).open
        /\ Open(k) \in StateSet /\ Open(k).kind = k /\ Open(k).rx = NoReq
        /\ \A g \in 0..MaxGen :
             With(k, g) \in StateSet /\ With(k, g).kind = k /\ With(k, g).rx = g
        /\ \A t \in 0..MaxEpoch :
             /\ Reading(k, t) \in StateSet /\ Reading(k, t).kind = k
             /\ Reading(k, t).rx = NoReq
    /\ \A s \in StateSet : /\ s.kind \in Kinds /\ s.rx \in 0..MaxGen
                           /\ s.token \in 0..MaxEpoch /\ s.open \in BOOLEAN
  BY EngineAssumption DEF S, Open, With, Reading, StateSet, NoReq

\* Turns keep their shape.
LEMMA TurnShapes ==
    /\ BlankTurn \in TurnSet
    /\ BlankTurn.reply = {} /\ BlankTurn.strokes = 0
    /\ \A t \in TurnSet : /\ t.id \in 0..MaxGen /\ t.strokes \in 0..MaxInk
                          /\ t.whole \in BOOLEAN /\ t.reply \in SUBSET Gens
                          /\ t.kind \in {"User", "Heartbeat"}
  BY DEF BlankTurn, TurnSet

\* Kinds the proofs name.
LEMMA KindNames ==
    /\ {"Listening", "Help", "Conjuring", "MemoryShown", "List", "ReaderList", "Drinking",
        "Thinking", "Replying", "AnswerVisible", "FadingReply", "AwaitingPenUp",
        "AwaitingHandoffAck", "HandoffPending"} = Kinds
    /\ \A k \in Kinds : ModeFor(k) \in Modes
  BY DEF Kinds, Panels, Lists, Locked, ModeFor, Modes

\* A request is numbered one above the last.
LEMMA AskShapes ==
    ASSUME TypeOK, NEW ink \in 0..MaxInk, Ask(ink)
    PROVE  /\ gen + 1 \in Gens /\ gen' = gen + 1 /\ gen' \in 1..MaxGen
           /\ captured' \in [Gens -> 0..MaxInk] /\ captured'[gen'] = ink
           /\ oracleUp' = oracleUp
  BY EngineAssumption DEF Ask, TypeOK, Gens

\* TypeOK in parts: what the tail of every tick sets, and what a tick's
\* own work sets.
ReactorTypes ==
    /\ pc \in {"poll", "input", "redraw", "drained", "tick", "closing", "stopped"}
    /\ state \in StateSet
    /\ inputMode \in Modes /\ synced \in BOOLEAN /\ hostMode \in Modes /\ regranted \in BOOLEAN
    /\ foreground \in BOOLEAN /\ epoch \in 1..MaxEpoch
    /\ penDown \in BOOLEAN /\ hostPen \in BOOLEAN /\ stylusOn \in BOOLEAN
    /\ tapped \in BOOLEAN /\ touch \in BOOLEAN /\ modal \in {"none", "pen", "finger"}
    /\ contact \in {"up", "paper", "locked", "answer", "modal"}
    /\ stray \subseteq {"locked", "answer", "modal"}
    /\ lastInk \in 0..MaxInk /\ readerTarget \in {"none", "path"}
AskTypes  == oracleUp \in BOOLEAN /\ gen \in 0..(MaxGen + 1) /\ captured \in [Gens -> 0..MaxInk]
PageTypes == page \in 0..MaxInk /\ current \in BOOLEAN /\ attempted \in BOOLEAN
             /\ spec \in 0..MaxGen
TurnTypes == /\ turn \in TurnSet /\ lease \in BOOLEAN /\ memory \subseteq Page
             /\ handedOff \in 0..MaxEpoch

\* TypeOK is made of four parts: the reactor, the questions, the page and the turn.
LEMMA TypeHalves ==
    ReactorTypes' /\ AskTypes' /\ PageTypes' /\ TurnTypes' => TypeOK'
  BY DEF TypeOK, ReactorTypes, AskTypes, PageTypes, TurnTypes

\* Work a tick leaves undone keeps its types.
LEMMA UntouchedTypes ==
    ASSUME TypeOK
    PROVE  /\ UNCHANGED genVars => AskTypes'
           /\ UNCHANGED <<page, current, specVars>> => PageTypes'
           /\ UNCHANGED <<turnVars, handedOff>> => TurnTypes'
  BY DEF TypeOK, AskTypes, PageTypes, TurnTypes, genVars, specVars, turnVars

\* A tick leaves a state of the shape it asked for, with a mode to match.
LEMMA TickShapes ==
    ASSUME TypeOK, NEW next \in StateSet, TickTo(next)
    PROVE  /\ ReactorTypes'
           /\ state' \in {next, S("AwaitingPenUp")}
           /\ pc = "tick" /\ pc' \in {"poll", "closing"}
  <1>1. next.kind \in Kinds /\ S("AwaitingPenUp") \in StateSet
    BY StateShapes, KindNames
  <1>2. ModeFor(next.kind) \in Modes /\ "AnimationLocked" \in Modes
    BY <1>1, KindNames DEF Modes
  <1>3. /\ pc = "tick" /\ pc' \in {"poll", "closing"} /\ tapped' = FALSE
        /\ state' \in {next, S("AwaitingPenUp")}
    BY DEF TickTo
  <1>4. /\ inputMode' \in Modes /\ hostMode' \in Modes /\ regranted' \in BOOLEAN
    BY <1>2 DEF TickTo, TypeOK, SetModeOk, SetModeFails
  <1>5. synced' \in BOOLEAN
    BY DEF TickTo, SetModeOk, SetModeFails
  <1>6. UNCHANGED <<foreground, epoch, penDown, hostPen, stylusOn, touch, modal, contact,
                    stray, lastInk, readerTarget>>
    BY DEF TickTo, pointerVars, ghostVars
  <1>7. state' \in StateSet
    BY <1>1, <1>3
  <1> QED
    BY ZenonT(40), <1>3, <1>4, <1>5, <1>6, <1>7 DEF ReactorTypes, TypeOK

-----------------------------------------------------------------------------
(* Types.                                                                  *)


\* A point on the page.
LEMMA DrawTypes ==
    ASSUME TypeOK, Draw, contact' \in {"paper", "locked", "answer", "modal"}
    PROVE  /\ lastInk' = lastInk + 1 /\ lastInk' \in 0..MaxInk
           /\ state' \in StateSet /\ spec' \in 0..MaxGen /\ attempted' \in BOOLEAN
           /\ stray' \subseteq {"locked", "answer", "modal"}
  <1>1. state' \in StateSet
    BY StateShapes, KindNames DEF Draw
  <1>2. stray' \subseteq {"locked", "answer", "modal"}
    BY DEF Draw, TypeOK
  <1>3. lastInk' = lastInk + 1 /\ lastInk' \in 0..MaxInk
    BY DEF Draw, TypeOK
  <1>4. spec' \in 0..MaxGen
    BY DEF Draw, NoReq
  <1>5. attempted' \in BOOLEAN
    BY DEF Draw
  <1> QED
    BY <1>1, <1>2, <1>3, <1>4, <1>5

\* A gesture on a panel.
LEMMA GestureTypes ==
    ASSUME TypeOK, NEW after \in {"input", "redraw"}, Gesture(after)
    PROVE  /\ pc' \in {after, "drained"} /\ state' \in StateSet
           /\ readerTarget' \in {"none", "path"}
  BY StateShapes, KindNames DEF Gesture, TypeOK

\* The end of a pen contact.
LEMMA FinishPenTypes ==
    ASSUME TypeOK, NEW after \in {"input", "redraw"}, FinishPen(after)
    PROVE  /\ pc' \in {after, "drained", "closing"} /\ state' \in StateSet
           /\ readerTarget' \in {"none", "path"}
           /\ inputMode' \in Modes /\ synced' \in BOOLEAN /\ hostMode' \in Modes /\ regranted' \in BOOLEAN
           /\ modal' \in {"none", "pen", "finger"} /\ current' \in BOOLEAN
           /\ penDown' = FALSE /\ stylusOn' = FALSE
           /\ UNCHANGED <<touch, tapped, lifeVars, stray, page, lastInk, specVars,
                          genVars, turnVars>>
  <1>1. CASE FinishModalPen(after)
    BY <1>1, GestureTypes DEF FinishPen, FinishModalPen, TypeOK, modeVars
  <1>2. CASE FinishAwaited(after)
    <2>1. pc' \in {after, "closing"} /\ state' \in StateSet
      BY <1>2, StateShapes, KindNames DEF FinishAwaited, TypeOK
    <2>2. inputMode' \in Modes /\ synced' \in BOOLEAN /\ hostMode' \in Modes /\ regranted' \in BOOLEAN
      BY <1>2 DEF FinishAwaited, TypeOK, SetModeOk, SetModeFails, Modes
    <2>3. UNCHANGED <<modal, current, readerTarget>>
      BY <1>2 DEF FinishAwaited
    <2> QED
      BY <2>1, <2>2, <2>3 DEF FinishPen, TypeOK
  <1>3. CASE FinishStroke(after)
    <2>1. pc' = after /\ state' \in StateSet /\ current' \in BOOLEAN
      <3>1. pc' = after
        BY <1>3 DEF FinishStroke
      <3>2. state' \in {state, Open("Listening")}
        BY <1>3 DEF FinishStroke
      <3>3. current' \in {current, FALSE}
        BY <1>3 DEF FinishStroke
      <3>4. state' \in StateSet
        BY <3>2, StateShapes, KindNames DEF TypeOK
      <3>5. current' \in BOOLEAN
        BY <3>3 DEF TypeOK
      <3> QED
        BY <3>1, <3>4, <3>5
    <2>2. UNCHANGED <<modal, inputMode, synced, hostMode, regranted, readerTarget>>
      BY <1>3 DEF FinishStroke, modeVars
    <2> QED
      BY <2>1, <2>2 DEF FinishPen, TypeOK
  <1> QED
    BY <1>1, <1>2, <1>3 DEF FinishPen

\* What a recall does to the state.
LEMMA SuspendedTypes ==
    ASSUME TypeOK
    PROVE  Suspended \in StateSet
  BY StateShapes, KindNames DEF Suspended, TypeOK

\* The panels a reader request may lead to.
LEMMA ReaderTypes ==
    ASSUME TypeOK
    PROVE  ReaderOutcomes \subseteq StateSet
  <1>1. epoch \in 0..MaxEpoch
    BY DEF TypeOK
  <1>2. Reading("AwaitingHandoffAck", epoch) \in StateSet
    BY ZenonT(40), <1>1, StateShapes, KindNames
  <1> QED
    BY <1>2, StateShapes, KindNames DEF ReaderOutcomes

\* A gesture on a panel, a frame, a command, a reader request: the events
\* outside the tick keep the types.
LEMMA EventTypes ==
    ASSUME TypeOK, GenBound, HoldersOfRequests,
           PenFrame \/ PenUp \/ OrphanGap \/ FingerDown \/ FingerUp
             \/ EnterBackground \/ EnterForeground \/ DuplicateForeground \/ SleepAndWake
             \/ Stop \/ Close \/ Stopped \/ OpenReaderTarget
    PROVE  TypeOK'
  <1>1. CASE \E tool \in {"pen", "eraser"} : SwallowFrame(tool)
    BY <1>1, StateShapes, KindNames
       DEF SwallowFrame, Frame, NextContact, GenBound, TypeOK, vars, modeVars, lifeVars, pointerVars, ghostVars, inkVars, specVars, genVars, turnVars
  <1>2. CASE \E tool \in {"pen", "eraser"} : ModalFrame(tool)
    BY <1>2, StateShapes, KindNames
       DEF ModalFrame, Frame, NextContact, GenBound, TypeOK, vars, modeVars, lifeVars, pointerVars, ghostVars, inkVars, specVars, genVars, turnVars
  <1>3. CASE \E tool \in {"pen", "eraser"} : InkFrame(tool)
    <2> PICK tool \in {"pen", "eraser"} : InkFrame(tool)
      BY <1>3
    <2>1. contact' \in {"paper", "locked", "answer", "modal"}
      BY DEF InkFrame, NextContact, TypeOK
    <2>2. Draw
      BY DEF InkFrame
    <2>3. page' \in 0..MaxInk /\ current' \in BOOLEAN
      <3>1. lastInk + 1 \in 0..MaxInk /\ 0 \in 0..MaxInk
        BY <2>1, <2>2, DrawTypes
      <3>2. CASE tool = "pen"
        BY <3>1, <3>2 DEF InkFrame
      <3>3. CASE tool # "pen"
        <4>1. page' \in {lastInk + 1, 0}
          BY <3>3 DEF InkFrame
        <4> QED
          BY <3>1, <3>3, <4>1 DEF InkFrame, TypeOK
      <3> QED
        BY <3>2, <3>3
    <2> QED
      BY <2>1, <2>2, <2>3, DrawTypes
         DEF InkFrame, Frame, TypeOK, modeVars, lifeVars, genVars, turnVars
  <1>4. CASE FadeAnswerFrame
    BY <1>4, StateShapes, KindNames
       DEF FadeAnswerFrame, Frame, GenBound, TypeOK, vars, modeVars, lifeVars, pointerVars, ghostVars, inkVars, specVars, genVars, turnVars
  <1>5. CASE CancelHeartbeatFrame
    <2>1. contact' \in {"paper", "locked", "answer", "modal"}
      BY <1>5 DEF CancelHeartbeatFrame, NextContact, TypeOK
    <2>2. Draw
      BY <1>5 DEF CancelHeartbeatFrame
    <2>3. turn' \in TurnSet
      BY <1>5, TurnShapes DEF CancelHeartbeatFrame, CancelledTurn, TurnSet, TypeOK
    <2>4. inputMode' \in Modes /\ synced' \in BOOLEAN /\ hostMode' \in Modes /\ regranted' \in BOOLEAN
      BY <1>5 DEF CancelHeartbeatFrame, SetModeOk, Modes, TypeOK
    <2>5. page' \in 0..MaxInk /\ current' \in BOOLEAN
      BY <1>5, <2>1, <2>2, DrawTypes DEF CancelHeartbeatFrame
    <2> QED
      BY <1>5, <2>1, <2>2, <2>3, <2>4, <2>5, DrawTypes
         DEF CancelHeartbeatFrame, Frame, TypeOK, lifeVars, genVars
  <1>6. CASE PenUp
    BY <1>6, FinishPenTypes
       DEF PenUp, TypeOK, lifeVars, specVars, genVars, turnVars
  <1>7. CASE OrphanGap
    BY ZenonT(40), <1>7, FinishPenTypes
       DEF OrphanGap, TypeOK, lifeVars, specVars, genVars, turnVars
  <1>8. CASE FingerDown
    BY <1>8, StateShapes, KindNames
       DEF FingerDown, GenBound, TypeOK, vars, modeVars, lifeVars, pointerVars, ghostVars, inkVars, specVars, genVars, turnVars
  <1>9. CASE FingerUp
    <2>1. pc' \in {"input", "drained"} /\ state' \in StateSet
          /\ readerTarget' \in {"none", "path"}
          /\ modal' \in {"none", "pen", "finger"}
      BY <1>9, GestureTypes DEF FingerUp, TypeOK
    <2> QED
      BY ZenonT(40), <1>9, <2>1
         DEF FingerUp, TypeOK, modeVars, lifeVars, ghostVars, inkVars, specVars, genVars, turnVars
  <1>10. CASE EnterBackground
    <2>1. state' \in StateSet /\ page' \in 0..MaxInk
      BY <1>10, SuspendedTypes DEF EnterBackground, Suspend, TypeOK
    <2>2. turn' \in TurnSet
      BY <1>10, TurnShapes DEF EnterBackground
    <2>3. gen' \in 0..(MaxGen + 1)
      BY <1>10 DEF EnterBackground, Invalidated, TypeOK
    <2>4. /\ modal' = "none" /\ contact' = "up"
          /\ penDown' \in BOOLEAN /\ hostPen' \in BOOLEAN /\ stylusOn' \in BOOLEAN
          /\ tapped' \in BOOLEAN /\ touch' \in BOOLEAN
      BY <1>10 DEF EnterBackground, PointerReset
    <2>5. inputMode' \in Modes /\ hostMode' \in Modes /\ spec' \in 0..MaxGen
      BY <1>10 DEF EnterBackground, Modes, NoReq, TypeOK
    <2>6. /\ synced' \in BOOLEAN /\ foreground' \in BOOLEAN /\ lease' \in BOOLEAN
          /\ attempted' \in BOOLEAN /\ current' \in BOOLEAN /\ regranted' \in BOOLEAN
      BY <1>10 DEF EnterBackground
    <2>7. /\ readerTarget' = "none"
          /\ UNCHANGED <<pc, epoch, handedOff, stray, lastInk, oracleUp, captured, memory>>
      BY <1>10 DEF EnterBackground
    <2> QED
      BY <2>1, <2>2, <2>3, <2>4, <2>5, <2>6, <2>7 DEF TypeOK
  <1>11. CASE EnterForeground
    <2>1. inputMode' \in Modes /\ synced' \in BOOLEAN /\ hostMode' \in Modes /\ regranted' \in BOOLEAN
      <3>1. ModeFor(state.kind) \in Modes
        BY StateShapes, KindNames DEF TypeOK
      <3> QED
        BY <1>11, <3>1 DEF EnterForeground, SetModeOk, Modes, TypeOK
    <2>2. epoch' \in 1..MaxEpoch /\ foreground' \in BOOLEAN
          /\ pc' \in {"poll", "closing"}
      <3>1. epoch' = epoch + 1 /\ epoch < MaxEpoch
        BY <1>11 DEF EnterForeground
      <3>2. epoch' \in 1..MaxEpoch
        BY <3>1 DEF TypeOK
      <3>3. foreground' \in BOOLEAN
        BY <1>11 DEF EnterForeground, TypeOK
      <3>4. pc' \in {"poll", "closing"}
        BY <1>11 DEF EnterForeground
      <3> QED
        BY <3>2, <3>3, <3>4
    <2> QED
      BY <1>11, <2>1, <2>2
         DEF EnterForeground, PointerReset, TypeOK, inkVars, specVars, genVars, turnVars
  <1>12. CASE DuplicateForeground
    <2>1. hostMode' \in Modes /\ regranted' \in BOOLEAN /\ UNCHANGED <<inputMode, synced>>
      BY <1>12 DEF DuplicateForeground, Modes
    <2>2. epoch' \in 1..MaxEpoch /\ UNCHANGED <<foreground, handedOff>>
      BY <1>12 DEF DuplicateForeground, TypeOK
    <2> QED
      BY <1>12, <2>1, <2>2
         DEF DuplicateForeground, TypeOK, pointerVars, ghostVars, inkVars, specVars, genVars, turnVars
  <1>12a. CASE SleepAndWake
    <2>1. contact' \in {"up", "paper", "locked", "answer", "modal"}
      BY <1>12a DEF SleepAndWake, TypeOK
    <2> QED
      BY <1>12a, <2>1
         DEF SleepAndWake, TypeOK, modeVars, lifeVars, pointerVars, inkVars, specVars, genVars, turnVars
  <1>13. CASE Stop
    BY <1>13, StateShapes, KindNames
       DEF Stop, GenBound, TypeOK, vars, modeVars, lifeVars, pointerVars, ghostVars, inkVars, specVars, genVars, turnVars
  <1>14. CASE Close
    BY <1>14, StateShapes, KindNames
       DEF Close, Suspend, Suspended, Invalidated, NoReq, GenBound, TypeOK, vars, modeVars, lifeVars, pointerVars, ghostVars, inkVars, specVars, genVars, turnVars
  <1>15. CASE Stopped
    BY <1>15, StateShapes, KindNames
       DEF Stopped, GenBound, TypeOK, vars, modeVars, lifeVars, pointerVars, ghostVars, inkVars, specVars, genVars, turnVars
  <1>16. CASE OpenReaderTarget
    <2>1. state' \in StateSet
      <3>1. CASE readerTarget = "none"
        BY <1>16, <3>1 DEF OpenReaderTarget, TypeOK
      <3>2. CASE readerTarget # "none"
        BY <1>16, <3>2, ReaderTypes DEF OpenReaderTarget
      <3> QED
        BY <3>1, <3>2
    <2> QED
      BY <1>16, <2>1
         DEF OpenReaderTarget, TypeOK, modeVars, lifeVars, pointerVars, ghostVars, inkVars,
             specVars, genVars, turnVars
  <1> QED
    BY <1>1, <1>2, <1>3, <1>4, <1>5, <1>6, <1>7, <1>8, <1>9, <1>10, <1>11, <1>12, <1>12a, <1>13, <1>14, <1>15, <1>16 DEF PenFrame

\* A tick that changes nothing but the state.
LEMMA PlainTickTypes ==
    ASSUME TypeOK, NEW next \in StateSet, PlainTick(next)
    PROVE  TypeOK'
  <1>1. ReactorTypes'
    BY TickShapes DEF PlainTick
  <1>2. UNCHANGED <<page, current, specVars, genVars, turnVars, handedOff>>
    BY DEF PlainTick
  <1> QED
    BY <1>1, <1>2, UntouchedTypes, TypeHalves

\* The tick keeps the types.
LEMMA TickTypes ==
    ASSUME TypeOK, GenBound, HoldersOfRequests, Tick
    PROVE  TypeOK'
  <1> USE TypeHalves, UntouchedTypes
  <1>0. /\ state \in StateSet /\ state.kind \in Kinds /\ state.rx \in 0..MaxGen
        /\ state.token \in 0..MaxEpoch /\ 0 \in 0..MaxInk /\ 0 \in 0..MaxGen
    BY StateShapes DEF TypeOK
  <1>1. CASE CommitNothing
    <2>1. PICK next \in {S("Listening"), Open("Help")} : TickTo(next)
      BY <1>1 DEF CommitNothing
    <2>2. ReactorTypes'
      BY <2>1, StateShapes, KindNames, TickShapes
    <2>3. PageTypes'
      BY <1>0, <1>1 DEF CommitNothing, PageTypes, TypeOK, NoReq
    <2> QED
      BY <1>1, <2>2, <2>3 DEF CommitNothing
  <1>2. CASE CommitLockFails
    <2>1. state' \in StateSet
      BY <1>2, StateShapes, KindNames DEF CommitLockFails
    <2>2. inputMode' \in Modes /\ synced' \in BOOLEAN /\ hostMode' \in Modes /\ regranted' \in BOOLEAN
      BY <1>2 DEF CommitLockFails, SetModeFails, Modes, TypeOK
    <2>3. ReactorTypes'
      BY ZenonT(40), <1>2, <2>1, <2>2
         DEF CommitLockFails, ReactorTypes, TypeOK, lifeVars, pointerVars, ghostVars, inkVars
    <2>4. PageTypes'
      BY <1>0, <1>2 DEF CommitLockFails, PageTypes, TypeOK, NoReq, inkVars
    <2> QED
      BY <1>2, <2>3, <2>4 DEF CommitLockFails, lifeVars
  <1>3. CASE CommitWithoutOracle
    <2>1. ReactorTypes'
      BY <1>3, StateShapes, KindNames, TickShapes DEF CommitWithoutOracle
    <2>2. PageTypes'
      BY <1>0, <1>3 DEF CommitWithoutOracle, PageTypes, TypeOK, NoReq
    <2> QED
      BY <1>3, <2>1, <2>2 DEF CommitWithoutOracle
  <1>4. CASE CommitPage
    <2>1. ASSUME NEW g \in 0..MaxGen PROVE UserTurn(g) \in TurnSet
      BY TurnShapes DEF UserTurn, TurnSet, TypeOK
    <2>2. PICK g \in 0..MaxGen : turn' = UserTurn(g) /\ TickTo(With("Drinking", g)) /\ AskTypes'
      <3>1. CASE spec # NoReq
        BY <1>4, <3>1 DEF CommitPage, TypeOK
      <3>2. CASE spec = NoReq
        <4>1. Ask(page) /\ page \in 0..MaxInk
          BY <1>4, <3>2 DEF CommitPage, TypeOK
        <4>2. gen + 1 \in 0..MaxGen /\ AskTypes'
          <5>1. /\ gen' = gen + 1 /\ gen' \in 1..MaxGen
                /\ captured' \in [Gens -> 0..MaxInk] /\ oracleUp' = oracleUp
            BY <4>1, AskShapes
          <5>2. gen' \in 0..MaxGen /\ gen' \in 0..(MaxGen + 1)
            BY <5>1
          <5>3. oracleUp' \in BOOLEAN
            BY <5>1 DEF TypeOK
          <5> QED
            BY <5>1, <5>2, <5>3 DEF AskTypes
        <4> QED
          BY <1>4, <3>2, <4>2 DEF CommitPage
      <3> QED
        BY <3>1, <3>2
    <2>3. ReactorTypes'
      BY ZenonT(40), <2>2, StateShapes, KindNames, TickShapes
    <2>4. PageTypes'
      BY <1>0, <1>4 DEF CommitPage, PageTypes, TypeOK, NoReq
    <2>5. TurnTypes'
      BY <1>4, <2>1, <2>2 DEF CommitPage, TurnTypes, TypeOK
    <2> QED
      BY <2>2, <2>3, <2>4, <2>5
  <1>5. CASE Preask
    <2>1. ReactorTypes'
      BY <1>0, <1>5, TickShapes DEF Preask
    <2>2. page \in 0..MaxInk
      BY DEF TypeOK
    <2>3. AskTypes' /\ spec' \in 0..MaxGen
      <3>1. CASE Ask(page) /\ spec' = gen + 1
        <4>1. /\ gen' \in 1..MaxGen /\ captured' \in [Gens -> 0..MaxInk]
              /\ oracleUp' = oracleUp /\ spec' = gen'
          BY <2>2, <3>1, AskShapes
        <4> QED
          BY <4>1 DEF AskTypes, TypeOK
      <3>2. CASE UNCHANGED <<genVars, spec>>
        BY <3>2 DEF TypeOK
      <3> QED
        BY <1>5, <3>1, <3>2 DEF Preask
    <2>4. PageTypes'
      BY <1>5, <2>3 DEF Preask, PageTypes, TypeOK
    <2> QED
      BY <1>5, <2>1, <2>3, <2>4 DEF Preask
  <1>6. CASE ShowQueuedReply
    <2>1. QueuedTurn \in TurnSet
      BY DEF QueuedTurn, TurnSet, TypeOK
    <2>2. TurnTypes'
      BY <1>6, <2>1 DEF ShowQueuedReply, TurnTypes, TypeOK
    <2>3. ReactorTypes'
      <3>1. CASE TickTo(S("Replying"))
        BY <3>1, StateShapes, KindNames, TickShapes
      <3>2. CASE ~TickTo(S("Replying"))
        <4>1. state' \in StateSet
          BY <1>6, <3>2, StateShapes, KindNames DEF ShowQueuedReply
        <4>2. inputMode' \in Modes /\ synced' \in BOOLEAN /\ hostMode' \in Modes /\ regranted' \in BOOLEAN
          BY <1>6, <3>2 DEF ShowQueuedReply, SetModeFails, Modes, TypeOK
        <4>3. /\ pc' = "closing" /\ tapped' = FALSE
              /\ UNCHANGED <<foreground, epoch, penDown, hostPen, stylusOn, touch, modal, contact,
                             stray, lastInk, readerTarget>>
          BY <1>6, <3>2 DEF ShowQueuedReply, pointerVars, ghostVars
        <4> QED
          BY <4>1, <4>2, <4>3 DEF ReactorTypes, TypeOK
      <3> QED
        BY <3>1, <3>2
    <2> QED
      BY <1>6, <2>2, <2>3 DEF ShowQueuedReply
  <1>7. CASE StartHeartbeat
    <2>1. TurnTypes'
      BY <1>7, TurnShapes DEF StartHeartbeat, TurnSet, TurnTypes, TypeOK
    <2>2. gen + 1 \in 0..MaxGen /\ AskTypes'
      <3>1. Ask(0)
        BY <1>7 DEF StartHeartbeat
      <3>2. /\ gen + 1 \in Gens /\ gen' \in 1..MaxGen
            /\ captured' \in [Gens -> 0..MaxInk] /\ oracleUp' = oracleUp
        BY <1>0, <3>1, AskShapes
      <3>3. gen + 1 \in 0..MaxGen /\ gen' \in 0..(MaxGen + 1)
        BY <3>2 DEF Gens
      <3>4. oracleUp' \in BOOLEAN
        BY Zenon, <3>2 DEF TypeOK
      <3> QED
        BY <3>2, <3>3, <3>4 DEF AskTypes
    <2>3. PICK next \in StateSet : TickTo(next)
      <3>1. With("Thinking", gen + 1) \in StateSet
        BY ZenonT(40), <2>2, StateShapes, KindNames
      <3> QED
        BY <1>7, <3>1 DEF StartHeartbeat
    <2>4. ReactorTypes'
      BY <2>3, TickShapes
    <2> QED
      BY <1>7, <2>1, <2>2, <2>4 DEF StartHeartbeat
  <1>8. CASE DrinkPage
    <2>0. PICK next \in StateSet : TickTo(next)
      <3>1. With("Thinking", state.rx) \in StateSet
        BY ZenonT(40), <1>0, StateShapes, KindNames
      <3> QED
        BY <1>8, <3>1 DEF DrinkPage
    <2>1. ReactorTypes'
      BY <2>0, TickShapes
    <2>2. PageTypes'
      BY <1>0, <1>8 DEF DrinkPage, PageTypes, TypeOK, specVars
    <2> QED
      BY <1>8, <2>1, <2>2 DEF DrinkPage
  <1>9. CASE ThinkingEnds
    <2>1. ReactorTypes'
      BY <1>9, StateShapes, KindNames, TickShapes DEF ThinkingEnds
    <2>2. lease' \in BOOLEAN
      BY <1>9 DEF ThinkingEnds, TypeOK
    <2>3. TurnTypes'
      BY <1>9, <2>2 DEF ThinkingEnds, TurnTypes, TypeOK
    <2> QED
      BY <1>9, <2>1, <2>3 DEF ThinkingEnds
  <1>10. CASE FirstDirective
    BY <1>10, PlainTickTypes, ReaderTypes, StateShapes, KindNames DEF FirstDirective
  <1>11. CASE ThinkingTimesOut
    BY <1>11, PlainTickTypes, StateShapes, KindNames DEF ThinkingTimesOut
  <1>12. CASE FirstEventFails
    <2>1. ReactorTypes'
      BY <1>12, StateShapes, KindNames, TickShapes DEF FirstEventFails
    <2>2. turn' \in TurnSet
      BY <1>12 DEF FirstEventFails, TypeOK, TurnSet
    <2>3. TurnTypes'
      BY <1>12, <2>2 DEF FirstEventFails, TurnTypes, TypeOK
    <2> QED
      BY <1>12, <2>1, <2>3 DEF FirstEventFails
  <1>13. CASE FirstText
    <2>1. state.rx \in Gens
      BY <1>0, <1>13 DEF FirstText, HoldersOfRequests, Gens, NoReq
    <2>2. turn' \in TurnSet
      BY <1>13, <2>1 DEF FirstText, TypeOK, TurnSet
    <2>3. PICK next \in StateSet : TickTo(next)
      BY ZenonT(40), <1>0, <1>13, StateShapes, KindNames DEF FirstText
    <2>4. ReactorTypes'
      BY <2>3, TickShapes
    <2>5. TurnTypes'
      BY <1>13, <2>2 DEF FirstText, TurnTypes, TypeOK
    <2> QED
      BY <1>13, <2>4, <2>5 DEF FirstText
  <1>14. CASE ReplyText
    <2>1. state.rx \in Gens
      BY <1>0, <1>14 DEF ReplyText, Gens, NoReq
    <2>2. turn' \in TurnSet
      BY <1>14, <2>1 DEF ReplyText, TypeOK, TurnSet
    <2>3. ReactorTypes'
      BY <1>0, <1>14, TickShapes DEF ReplyText
    <2>4. TurnTypes'
      BY <1>14, <2>2 DEF ReplyText, TurnTypes, TypeOK
    <2> QED
      BY <1>14, <2>3, <2>4 DEF ReplyText
  <1>15. CASE ReplyStreamEnds
    <2>1. ReactorTypes'
      BY <1>15, StateShapes, KindNames, TickShapes DEF ReplyStreamEnds
    <2>2. turn' \in TurnSet
      BY <1>15 DEF ReplyStreamEnds, TypeOK, TurnSet
    <2>3. TurnTypes'
      BY <1>15, <2>2 DEF ReplyStreamEnds, TurnTypes, TypeOK
    <2> QED
      BY <1>15, <2>1, <2>3 DEF ReplyStreamEnds
  <1>17. CASE CompleteReply
    <2>1. ReactorTypes'
      BY <1>17, StateShapes, KindNames, TickShapes DEF CompleteReply
    <2>2. turn' \in TurnSet
      BY <1>0, <1>17 DEF CompleteReply, TypeOK, TurnSet
    <2>3. memory' \subseteq Page
      BY <1>17 DEF CompleteReply, TypeOK, TurnSet, Page
    <2>4. lease' \in BOOLEAN
      BY <1>17 DEF CompleteReply, TypeOK
    <2>5. TurnTypes'
      BY <1>17, <2>2, <2>3, <2>4 DEF CompleteReply, TurnTypes, TypeOK
    <2> QED
      BY <1>17, <2>1, <2>5 DEF CompleteReply
  <1>18. CASE FadingEnds
    BY <1>18, PlainTickTypes, StateShapes, KindNames DEF FadingEnds
  <1>19. CASE TimeoutTick
    BY <1>19, PlainTickTypes, StateShapes, KindNames DEF TimeoutTick
  <1>20. CASE HandoffTick
    <2>1. CASE handedOff' = state.token /\ TickTo(Reading("HandoffPending", state.token))
               /\ UNCHANGED <<page, current, specVars, genVars, turnVars>>
      <3>0. PICK next \in StateSet : TickTo(next)
        <4>1. Reading("HandoffPending", state.token) \in StateSet
          BY ZenonT(40), <1>0, StateShapes, KindNames
        <4> QED
          BY <2>1, <4>1
      <3>1. ReactorTypes'
        BY <3>0, TickShapes
      <3>2. TurnTypes'
        BY <1>0, <2>1 DEF TurnTypes, TypeOK, turnVars
      <3> QED
        BY <2>1, <3>1, <3>2
    <2> QED
      BY <1>20, <2>1, PlainTickTypes, StateShapes, KindNames DEF HandoffTick
  <1>21. CASE IdleTick
    BY <1>0, <1>21, PlainTickTypes DEF IdleTick
  <1> QED
    BY <1>1, <1>2, <1>3, <1>4, <1>5, <1>6, <1>7, <1>8, <1>9, <1>10, <1>11, <1>12, <1>13,
       <1>14, <1>15, <1>17, <1>18, <1>19, <1>20, <1>21 DEF Tick

\* Every step keeps the types.
LEMMA TypeStep ==
    ASSUME TypeOK, GenBound, HoldersOfRequests, [Next]_vars
    PROVE  TypeOK'
  <1>1. CASE UNCHANGED vars
    BY <1>1
       DEF vars, TypeOK, modeVars, lifeVars, pointerVars, ghostVars, inkVars, specVars,
           genVars, turnVars
  <1>2. CASE Tick
    BY <1>2, TickTypes
  <1>3. CASE Next /\ ~Tick
    BY <1>3, EventTypes DEF Next
  <1> QED
    BY <1>1, <1>2, <1>3

-----------------------------------------------------------------------------
(* Where a tick ends.                                                      *)

\* The manager agreed, or there was nothing to ask and the loop goes on; or it
\* refused, which it was only asked about a mode the page did not have.
LEMMA TickOutcome ==
    ASSUME TypeOK, NEW next \in StateSet, TickTo(next)
    PROVE  /\ pc = "tick" /\ UNCHANGED <<foreground, readerTarget>>
           /\ \/ /\ pc' = "poll" /\ state' = next
                 /\ next.kind \in Handoff \/ (synced' /\ inputMode' = ModeFor(next.kind))
              \/ /\ pc' = "closing" /\ ~Takeover
                 /\ ~synced \/ inputMode # ModeFor(next.kind)
                 /\ next.kind # "Listening" => state' = next
                 /\ next.kind = "Listening" => state' = S("AwaitingPenUp")
  BY DEF TickTo, SetModeOk, SetModeFails, NeedsRequest

\* A hosted page with ink on it, at a tick in Listening, already has its mode.
LEMMA InkHasItsMode ==
    ASSUME TypeOK, PageRules, pc = "tick", ~Takeover, page # 0, state.kind = "Listening"
    PROVE  synced /\ inputMode = ModeFor("Listening")
  <1>1. foreground /\ Live
    BY DEF PageRules, Live
  <1>2. "Listening" \notin Handoff
    BY DEF Handoff
  <1>3. synced \/ state.kind \in Handoff
    BY <1>1 DEF PageRules
  <1> QED
    BY <1>1, <1>2, <1>3 DEF PageRules, ModeFor

-----------------------------------------------------------------------------
(* Speculative requests.                                                   *)

\* No action but Preask makes a speculative request, and Preask makes it about
\* the ink on the page; every action that changes the page, the generation or
\* the state drops it.
LEMMA SpeculationStep ==
    ASSUME IInv, [Next]_vars
    PROVE  SpeculationIsExact'
  <1> SUFFICES ASSUME spec' # NoReq
               PROVE  /\ state'.kind = "Listening" /\ attempted'
                      /\ spec' = gen' /\ captured'[spec'] = page' /\ page' # 0
    BY DEF SpeculationIsExact
  <1> USE StateShapes, KindNames DEF IInv
  \* The ways to keep a request that was exact before.
  <1>a. ASSUME UNCHANGED <<spec, attempted, gen, captured, page>>,
               state.kind = "Listening" => state'.kind = "Listening"
        PROVE  /\ state'.kind = "Listening" /\ attempted'
               /\ spec' = gen' /\ captured'[spec'] = page' /\ page' # 0
    BY <1>a DEF SpeculationIsExact
  <1>1. CASE UNCHANGED vars
    BY <1>1, <1>a DEF vars, specVars, genVars, inkVars
  <1>2. CASE PenFrame
    <2>1. CASE \E tool \in {"pen", "eraser"} : SwallowFrame(tool) \/ ModalFrame(tool)
      BY <1>a, <2>1 DEF SwallowFrame, ModalFrame, specVars, genVars, inkVars
    <2>2. CASE \E tool \in {"pen", "eraser"} : InkFrame(tool)
      BY <2>2 DEF InkFrame, Draw
    <2>3. CASE FadeAnswerFrame
      BY <1>a, <2>3 DEF FadeAnswerFrame, specVars, genVars, inkVars
    <2>4. CASE CancelHeartbeatFrame
      BY <2>4 DEF CancelHeartbeatFrame, Draw
    <2> QED
      BY <1>2, <2>1, <2>2, <2>3, <2>4 DEF PenFrame
  <1>3. ASSUME NEW after \in {"input", "redraw"}, FinishPen(after)
        PROVE  /\ state'.kind = "Listening" /\ attempted'
               /\ spec' = gen' /\ captured'[spec'] = page' /\ page' # 0
    <2>1. UNCHANGED <<spec, attempted, gen, captured, page>>
      BY <1>3 DEF FinishPen, specVars, genVars
    <2>2. state.kind = "Listening" => state'.kind = "Listening"
      <3>1. CASE FinishModalPen(after)
        BY <3>1 DEF FinishModalPen, Gesture, Lists
      <3>2. CASE FinishAwaited(after)
        BY <3>2 DEF FinishAwaited
      <3>3. CASE FinishStroke(after)
        BY <3>3 DEF FinishStroke
      <3> QED
        BY <1>3, <3>1, <3>2, <3>3 DEF FinishPen
    <2> QED
      BY <1>a, <2>1, <2>2
  <1>4. CASE PenUp \/ OrphanGap
    BY <1>3, <1>4 DEF PenUp, OrphanGap
  <1>5. CASE FingerDown \/ DuplicateForeground \/ SleepAndWake \/ Stop \/ Stopped
    BY <1>5, <1>a DEF FingerDown, DuplicateForeground, SleepAndWake, Stop, Stopped, vars, specVars, genVars,
                      inkVars
  <1>6. CASE FingerUp
    BY <1>6, <1>a DEF FingerUp, Gesture, Lists, specVars, genVars, inkVars
  <1>7. CASE EnterBackground \/ Close
    BY <1>7 DEF EnterBackground, Close
  <1>8. CASE EnterForeground
    BY <1>8, <1>a DEF EnterForeground, specVars, genVars, inkVars
  <1>9. CASE OpenReaderTarget
    <2>1. CASE readerTarget = "none"
      BY <1>9, <1>a, <2>1 DEF OpenReaderTarget, specVars, genVars, inkVars
    <2>2. CASE readerTarget # "none"
      BY <1>9, <2>2 DEF OpenReaderTarget, ReaderWaits, specVars
    <2> QED
      BY <2>1, <2>2
  <1>10. CASE Tick
    <2>0. state \in StateSet
      BY DEF TypeOK
    <2>1. CASE CommitNothing \/ CommitLockFails \/ CommitWithoutOracle \/ CommitPage
      BY <2>1 DEF CommitNothing, CommitLockFails, CommitWithoutOracle, CommitPage
    \* A tick in Listening that leaves the page as it is leaves it listening.
    <2>2. ASSUME TickTo(state), state.kind = "Listening", page # 0
          PROVE  state' = state
      BY <2>0, <2>2, TickOutcome, InkHasItsMode
    <2>3. CASE Preask
      <3>1. state.kind = "Listening" /\ page # 0 /\ TickTo(state) /\ attempted'
            /\ page' = page
        BY <2>3 DEF Preask, Idle
      <3>2. state' = state
        BY <2>2, <3>1
      <3>3. CASE Ask(page) /\ spec' = gen + 1
        <4>1. page \in 0..MaxInk
          BY DEF TypeOK
        <4> QED
          BY <3>1, <3>2, <3>3, <4>1, AskShapes
      <3>4. CASE UNCHANGED <<genVars, spec>>
        BY <2>3, <3>4 DEF Preask, SpeculationIsExact
      <3> QED
        BY <2>3, <3>3, <3>4 DEF Preask
    <2>4. CASE ShowQueuedReply \/ StartHeartbeat
      BY <2>4 DEF ShowQueuedReply, StartHeartbeat, Quiet, SpeculationIsExact, specVars
    <2>5. CASE IdleTick
      <3>1. TickTo(state) /\ UNCHANGED <<spec, attempted, gen, captured, page>>
        BY <2>5 DEF IdleTick, PlainTick, specVars, genVars
      <3>2. spec # NoReq => state.kind = "Listening" /\ page # 0
        BY DEF SpeculationIsExact
      <3> QED
        BY <1>a, <2>2, <3>1, <3>2
    <2>6. CASE /\ Tick /\ ~IdleTick /\ ~Preask /\ ~ShowQueuedReply /\ ~StartHeartbeat
               /\ ~CommitNothing /\ ~CommitLockFails /\ ~CommitWithoutOracle /\ ~CommitPage
      <3>1. state.kind # "Listening" /\ spec' = spec
        <4>1. CASE DrinkPage \/ ThinkingEnds
          BY <4>1 DEF DrinkPage, ThinkingEnds, specVars
        <4>2. CASE FirstDirective \/ ThinkingTimesOut
          BY <4>2 DEF FirstDirective, ThinkingTimesOut, PlainTick, specVars
        <4>3. CASE FirstEventFails \/ FirstText
          BY <4>3 DEF FirstEventFails, FirstText, specVars
        <4>4. CASE ReplyText \/ ReplyStreamEnds
          BY <4>4 DEF ReplyText, ReplyStreamEnds, specVars
        <4>5. CASE CompleteReply
          BY <4>5 DEF CompleteReply, specVars
        <4>6. CASE FadingEnds
          BY <4>6 DEF FadingEnds, PlainTick, specVars
        <4>7. CASE TimeoutTick
          BY <4>7 DEF TimeoutTick, PlainTick, specVars, S, Open
        <4>8. CASE HandoffTick
          BY <4>8 DEF HandoffTick, PlainTick, specVars
        <4> QED
          BY <2>6, <4>1, <4>2, <4>3, <4>4, <4>5, <4>6, <4>7, <4>8 DEF Tick
      <3> QED
        BY <3>1 DEF SpeculationIsExact
    <2> QED
      BY <1>10, <2>1, <2>3, <2>4, <2>5, <2>6
  <1> QED
    BY <1>1, <1>2, <1>4, <1>5, <1>6, <1>7, <1>8, <1>9, <1>10 DEF Next

\* A reader request is consumed before any tick can ask ahead.
LEMMA ReaderStep ==
    ASSUME IInv, [Next]_vars
    PROVE  ReaderWaits'
  <1> USE DEF IInv
  <1>1. CASE UNCHANGED vars
    BY <1>1 DEF vars, ReaderWaits, specVars
  <1>2. CASE PenFrame
    BY <1>2 DEF PenFrame, SwallowFrame, ModalFrame, InkFrame, FadeAnswerFrame,
                CancelHeartbeatFrame, Frame, Draw, ReaderWaits, specVars
  <1>3. ASSUME NEW after \in {"input", "redraw"}, Gesture(after), UNCHANGED spec
        PROVE  ReaderWaits'
    BY <1>3 DEF Gesture, ReaderWaits, SpeculationIsExact
  <1>4. ASSUME NEW after \in {"input", "redraw"}, FinishPen(after)
        PROVE  ReaderWaits'
    BY <1>3, <1>4 DEF FinishPen, FinishModalPen, FinishAwaited, FinishStroke, ReaderWaits, specVars
  <1>5. CASE PenUp \/ OrphanGap
    BY <1>4, <1>5 DEF PenUp, OrphanGap
  <1>6. CASE FingerUp
    BY <1>3, <1>6 DEF FingerUp, ReaderWaits, specVars
  <1>7. CASE FingerDown \/ EnterBackground \/ EnterForeground \/ DuplicateForeground \/ SleepAndWake
             \/ Stop \/ Close \/ Stopped \/ OpenReaderTarget
    BY <1>7 DEF FingerDown, EnterBackground, EnterForeground, DuplicateForeground, SleepAndWake, Stop, Close,
                Stopped, OpenReaderTarget, ReaderWaits, specVars, vars
  <1>8. CASE Tick
    <2>2. CASE CommitLockFails
      BY <2>2 DEF CommitLockFails, ReaderWaits
    <2>3. CASE Tick /\ ~CommitLockFails
      <3>1. pc = "tick" /\ pc' # "tick" /\ readerTarget' = readerTarget
        BY <2>3
           DEF Tick, CommitNothing, CommitWithoutOracle, CommitPage, Preask, ShowQueuedReply,
               StartHeartbeat, DrinkPage, ThinkingEnds, FirstDirective, ThinkingTimesOut,
               FirstEventFails, FirstText, ReplyText, ReplyStreamEnds, CompleteReply, FadingEnds,
               TimeoutTick, HandoffTick, IdleTick, PlainTick, TickTo
      <3> QED
        BY <3>1 DEF ReaderWaits
    <2> QED
      BY <1>8, <2>2, <2>3
  <1> QED
    BY <1>1, <1>2, <1>5, <1>6, <1>7, <1>8 DEF Next

-----------------------------------------------------------------------------
(* Requests.                                                               *)

\* The generation stays below its bound until the reactor closes.
LEMMA GenBoundStep ==
    ASSUME IInv, [Next]_vars
    PROVE  GenBound'
  <1> USE DEF IInv
  <1>1. CASE UNCHANGED vars
    BY <1>1 DEF vars, GenBound, genVars
  <1>2. CASE Close
    BY <1>2 DEF Close, GenBound
  <1>3. CASE EnterBackground
    BY <1>3 DEF EnterBackground, Invalidated, GenBound, TypeOK
  <1>4. CASE Stopped
    BY <1>4 DEF Stopped, vars, GenBound, genVars
  <1>5. CASE PenFrame \/ PenUp \/ OrphanGap \/ FingerDown \/ FingerUp \/ EnterForeground
             \/ DuplicateForeground \/ SleepAndWake \/ Stop \/ OpenReaderTarget
    <2>1. gen' = gen /\ pc # "stopped"
      BY <1>5 DEF PenFrame, SwallowFrame, ModalFrame, InkFrame, FadeAnswerFrame,
                  CancelHeartbeatFrame, Frame, PenUp, OrphanGap, FinishPen, FingerDown, FingerUp,
                  EnterForeground, DuplicateForeground, SleepAndWake, Stop, OpenReaderTarget, genVars
    <2> QED
      BY <2>1 DEF GenBound
  <1>6. CASE Tick
    <2>1. pc = "tick" /\ (gen' = gen \/ Ask(page) \/ Ask(0))
      BY <1>6
         DEF Tick, CommitNothing, CommitLockFails, CommitWithoutOracle, CommitPage, Preask,
             ShowQueuedReply, StartHeartbeat, DrinkPage, ThinkingEnds, FirstDirective,
             ThinkingTimesOut, FirstEventFails, FirstText, ReplyText, ReplyStreamEnds,
             CompleteReply, FadingEnds, TimeoutTick, HandoffTick, IdleTick,
             PlainTick, TickTo, genVars
    <2> QED
      BY <2>1 DEF Ask, GenBound, TypeOK
  <1> QED
    BY <1>1, <1>2, <1>3, <1>4, <1>5, <1>6 DEF Next

\* A request is held by the states that wait for it or write it down, and the
\* one held is the newest.
LEMMA RequestStep ==
    ASSUME IInv, [Next]_vars
    PROVE  HoldersOfRequests' /\ HeldTurnIsCurrent'
  <1> USE StateShapes, KindNames DEF IInv
  <1>0. state \in StateSet
    BY DEF TypeOK
  \* The request is let go.
  <1>a. ASSUME state'.rx = NoReq, state'.kind \notin {"Drinking", "Thinking"}
        PROVE  HoldersOfRequests' /\ HeldTurnIsCurrent'
    BY <1>a DEF HoldersOfRequests, HeldTurnIsCurrent
  \* The request is kept, and the page it was asked about.
  <1>b. ASSUME UNCHANGED <<state, gen, captured, page>>
        PROVE  HoldersOfRequests' /\ HeldTurnIsCurrent'
    BY <1>b DEF HoldersOfRequests, HeldTurnIsCurrent
  <1>c. ASSUME NEW k \in Kinds \ {"Drinking", "Thinking"}, state' \in {S(k), Open(k)}
        PROVE  HoldersOfRequests' /\ HeldTurnIsCurrent'
    BY <1>a, <1>c
  <1>d. ASSUME NEW t \in 0..MaxEpoch, NEW k \in Handoff, state' = Reading(k, t)
        PROVE  HoldersOfRequests' /\ HeldTurnIsCurrent'
    <2>1. k \in Kinds /\ k \notin {"Drinking", "Thinking"}
      BY DEF Handoff
    <2>2. state'.kind = k /\ state'.rx = NoReq
      BY <1>d, <2>1
    <2> QED
      BY <1>a, <2>1, <2>2
  <1>1. CASE UNCHANGED vars
    BY <1>1, <1>b DEF vars, genVars, inkVars
  <1>2. CASE PenFrame
    <2>1. CASE \E tool \in {"pen", "eraser"} : SwallowFrame(tool) \/ ModalFrame(tool)
      BY <1>b, <2>1 DEF SwallowFrame, ModalFrame, genVars, inkVars
    <2>2. CASE (\E tool \in {"pen", "eraser"} : InkFrame(tool)) \/ CancelHeartbeatFrame
      BY <1>c, <2>2 DEF InkFrame, CancelHeartbeatFrame, Draw
    <2>3. CASE FadeAnswerFrame
      BY <1>c, <2>3 DEF FadeAnswerFrame
    <2> QED
      BY <1>2, <2>1, <2>2, <2>3 DEF PenFrame
  <1>3. ASSUME NEW after \in {"input", "redraw"}, Gesture(after),
               UNCHANGED <<gen, captured, page>>
        PROVE  HoldersOfRequests' /\ HeldTurnIsCurrent'
    BY <1>3, <1>b, <1>c DEF Gesture
  <1>4. ASSUME NEW after \in {"input", "redraw"}, FinishPen(after)
        PROVE  HoldersOfRequests' /\ HeldTurnIsCurrent'
    BY <1>3, <1>4, <1>b, <1>c
       DEF FinishPen, FinishModalPen, FinishAwaited, FinishStroke, genVars
  <1>5. CASE PenUp \/ OrphanGap
    BY <1>4, <1>5 DEF PenUp, OrphanGap
  <1>6. CASE FingerUp
    BY <1>3, <1>6, <1>b DEF FingerUp, genVars, inkVars
  <1>7. CASE FingerDown \/ EnterForeground \/ DuplicateForeground \/ SleepAndWake \/ Stop \/ Stopped
    BY <1>7, <1>b DEF FingerDown, EnterForeground, DuplicateForeground, SleepAndWake, Stop, Stopped, vars,
                      genVars, inkVars
  <1>8. CASE EnterBackground \/ Close
    <2>1. state' = Suspended
      BY <1>8 DEF EnterBackground, Close, Suspend
    <2>2. CASE state.kind \in Lists \cup {"Help"}
      BY <1>a, <2>1, <2>2 DEF Suspended, HoldersOfRequests, Lists
    <2>3. CASE state.kind \notin Lists \cup {"Help"}
      BY <1>c, <2>1, <2>3 DEF Suspended
    <2> QED
      BY <2>2, <2>3
  <1>9. CASE OpenReaderTarget
    <2>1. CASE readerTarget = "none"
      BY <1>9, <1>b, <2>1 DEF OpenReaderTarget, genVars, inkVars
    <2>2. CASE readerTarget # "none"
      <3>1. state' \in ReaderOutcomes
        BY ZenonT(40), <1>9, <2>2 DEF OpenReaderTarget, TypeOK
      <3>2. epoch \in 0..MaxEpoch
        BY DEF TypeOK
      <3> QED
        BY <1>c, <1>d, <3>1, <3>2 DEF ReaderOutcomes, Handoff
    <2> QED
      BY <2>1, <2>2
  <1>10. CASE Tick
    <2> USE <1>0
    <2>0. TypeOK /\ 0 \in 0..MaxInk /\ page \in 0..MaxInk /\ state.rx \in 0..MaxGen
      BY DEF TypeOK
    <2>a. ASSUME NEW k \in Kinds \ {"Drinking", "Thinking"}, NEW next \in {S(k), Open(k)},
                 TickTo(next)
          PROVE  HoldersOfRequests' /\ HeldTurnIsCurrent'
      BY <1>c, <2>0, <2>a, TickOutcome
    <2>b. ASSUME NEW k \in {"Drinking", "Thinking", "Replying"}, NEW g \in 0..MaxGen,
                 TickTo(With(k, g))
          PROVE  state'.kind = k /\ state'.rx = g
      <3>1. k \in Kinds /\ k # "Listening"
        OBVIOUS
      <3>2. With(k, g) \in StateSet /\ With(k, g).kind = k /\ With(k, g).rx = g
        BY <3>1
      <3>3. state' = With(k, g)
        BY <2>0, <2>b, <3>1, <3>2, TickOutcome
      <3> QED
        BY <3>2, <3>3
    <2>c. ASSUME NEW k \in Handoff, NEW t \in 0..MaxEpoch, TickTo(Reading(k, t))
          PROVE  HoldersOfRequests' /\ HeldTurnIsCurrent'
      <3>1. k \in Kinds /\ k # "Listening"
        BY DEF Handoff
      <3> QED
        BY <1>d, <2>0, <2>c, <3>1, TickOutcome
    <2>1. CASE CommitNothing \/ CommitWithoutOracle \/ ThinkingEnds \/ ThinkingTimesOut
               \/ FirstEventFails \/ ReplyStreamEnds \/ CompleteReply \/ FadingEnds \/ TimeoutTick
      <3>1. PICK k \in {"Listening", "Help", "Replying", "AnswerVisible", "AwaitingPenUp",
                        "FadingReply", "MemoryShown"} : TickTo(S(k)) \/ TickTo(Open(k))
        BY ZenonT(40), <2>1
           DEF CommitNothing, CommitWithoutOracle, ThinkingEnds, ThinkingTimesOut,
               FirstEventFails, ReplyStreamEnds, CompleteReply, FadingEnds, TimeoutTick, PlainTick
      <3> QED
        BY <2>a, <3>1
    <2>2. CASE CommitLockFails
      BY <1>c, <2>2 DEF CommitLockFails
    <2>3. CASE CommitPage
      <3>1. CASE spec # NoReq
        <4>1. TickTo(With("Drinking", spec)) /\ UNCHANGED <<gen, captured, page>>
          BY <2>3, <3>1 DEF CommitPage, genVars
        <4>2. spec \in 0..MaxGen /\ spec = gen /\ captured[spec] = page /\ page # 0
          BY <3>1 DEF SpeculationIsExact, TypeOK
        <4>3. state'.kind = "Drinking" /\ state'.rx = spec
          BY <2>b, <4>1, <4>2
        <4> QED
          BY <3>1, <4>1, <4>2, <4>3 DEF HoldersOfRequests, HeldTurnIsCurrent
      <3>2. CASE spec = NoReq
        <4>1. Ask(page) /\ TickTo(With("Drinking", gen + 1)) /\ page' = page /\ page # 0
          BY <2>3, <3>2 DEF CommitPage, Idle
        <4>2. gen' = gen + 1 /\ gen' \in 1..MaxGen /\ captured'[gen'] = page
          BY <2>0, <4>1, AskShapes
        <4>3. state'.kind = "Drinking" /\ state'.rx = gen'
          <5>1. gen' \in 0..MaxGen /\ TickTo(With("Drinking", gen'))
            BY <4>1, <4>2
          <5> QED
            BY <2>b, <5>1
        <4> QED
          BY <4>1, <4>2, <4>3 DEF HoldersOfRequests, HeldTurnIsCurrent, NoReq
      <3> QED
        BY <3>1, <3>2
    <2>4. CASE Preask
      <3>1. TickTo(state) /\ state.kind = "Listening" /\ state.rx = NoReq
        BY <2>4 DEF Preask, HoldersOfRequests
      <3>2. state' \in {state, S("AwaitingPenUp")}
        BY <2>0, <3>1, TickOutcome
      <3> QED
        BY <1>a, <3>1, <3>2
    <2>5. CASE ShowQueuedReply
      BY <1>c, <2>a, <2>5 DEF ShowQueuedReply
    <2>6. CASE StartHeartbeat
      <3>1. Ask(0) /\ TickTo(With("Thinking", gen + 1))
        BY <2>6 DEF StartHeartbeat
      <3>2. gen' = gen + 1 /\ gen' \in 1..MaxGen
        BY <2>0, <3>1, AskShapes
      <3>3. state'.kind = "Thinking" /\ state'.rx = gen'
        <4>1. gen' \in 0..MaxGen /\ TickTo(With("Thinking", gen'))
          BY <3>1, <3>2
        <4> QED
          BY <2>b, <4>1
      <3> QED
        BY <3>2, <3>3 DEF HoldersOfRequests, HeldTurnIsCurrent, NoReq
    <2>7. CASE DrinkPage
      <3>1. state.rx # NoReq /\ state.rx = gen
        BY <2>7 DEF DrinkPage, HoldersOfRequests, HeldTurnIsCurrent
      <3>2. state'.kind = "Thinking" /\ state'.rx = state.rx /\ gen' = gen
        BY <2>0, <2>7, <2>b DEF DrinkPage, genVars
      <3> QED
        BY <2>0, <3>1, <3>2 DEF HoldersOfRequests, HeldTurnIsCurrent
    <2>8. CASE FirstDirective
      <3>1. epoch \in 0..MaxEpoch
        BY DEF TypeOK
      <3>2. \/ \E k \in {"List", "Help", "Conjuring", "Listening", "Replying", "ReaderList"} :
                  TickTo(S(k)) \/ TickTo(Open(k))
            \/ TickTo(Reading("AwaitingHandoffAck", epoch))
        BY <2>8 DEF FirstDirective, PlainTick, ReaderOutcomes
      <3>3. "AwaitingHandoffAck" \in Handoff
        BY DEF Handoff
      <3>4. CASE TickTo(Reading("AwaitingHandoffAck", epoch))
        BY <2>c, <3>1, <3>3, <3>4
      <3>5. ASSUME NEW k \in {"List", "Help", "Conjuring", "Listening", "Replying", "ReaderList"},
                   TickTo(S(k)) \/ TickTo(Open(k))
            PROVE  HoldersOfRequests' /\ HeldTurnIsCurrent'
        BY <2>a, <3>5
      <3> QED
        BY <3>2, <3>4, <3>5
    <2>9. CASE FirstText
      <3>1. state.rx = gen /\ gen' = gen
        BY <2>9 DEF FirstText, Current, genVars
      <3>2. CASE TickTo(With("Replying", state.rx))
        <4>1. state'.kind = "Replying" /\ state'.rx = state.rx
          BY <2>0, <2>b, <3>2
        <4> QED
          BY <2>0, <3>1, <4>1 DEF HoldersOfRequests, HeldTurnIsCurrent
      <3>3. CASE TickTo(S("Replying"))
        BY <2>a, <3>3
      <3> QED
        BY <2>9, <3>2, <3>3 DEF FirstText
    <2>10. CASE ReplyText
      <3>1. state.kind = "Replying" /\ TickTo(state) /\ state.rx = gen /\ gen' = gen
        BY <2>10 DEF ReplyText, Current, genVars
      <3>2. state' = state
        BY <2>0, <3>1, TickOutcome
      <3> QED
        BY <3>1, <3>2 DEF HoldersOfRequests, HeldTurnIsCurrent
    <2>11. CASE HandoffTick
      <3>1. state.token \in 0..MaxEpoch
        BY <1>0
      <3> QED
        BY <2>11, <2>a, <2>c, <3>1 DEF HandoffTick, PlainTick, Handoff
    <2>12. CASE IdleTick
      <3>1. TickTo(state) /\ UNCHANGED <<gen, captured, page>>
        BY <2>12 DEF IdleTick, PlainTick, genVars
      <3>2. state' = state \/ state' = S("AwaitingPenUp")
        BY <2>0, <3>1, TickOutcome
      <3> QED
        BY <1>b, <1>c, <3>1, <3>2
    <2> QED
      BY <1>10, <2>1, <2>2, <2>3, <2>4, <2>5, <2>6, <2>7, <2>8, <2>9, <2>10, <2>11, <2>12 DEF Tick
  <1> QED
    BY <1>1, <1>2, <1>5, <1>6, <1>7, <1>8, <1>9, <1>10 DEF Next

-----------------------------------------------------------------------------
(* The page in use.                                                        *)

\* A tick either goes on with the mode of the state it leaves, or the loop ends;
\* the rules hold again when ink is only under the two states that may have it
\* and, under a manager, the turn is still the writer's.
LEMMA RulesTick ==
    ASSUME IInv, NEW next \in StateSet, TickTo(next), ~Takeover => turn'.kind = "User",
           page' # 0 => next.kind \in {"Listening", "Drinking"}
    PROVE  PageRules'
  <1>1. foreground' /\ readerTarget' = "none"
    BY TickOutcome DEF IInv, ReaderWaits, PageRules, Live
  <1>2. CASE pc' = "poll"
    <2>1. state' = next /\ (next.kind \in Handoff \/ (synced' /\ inputMode' = ModeFor(next.kind)))
      BY <1>2, TickOutcome DEF IInv
    <2>2. "Listening" \notin Handoff /\ ModeFor("Listening") = "Writing"
      BY DEF Handoff, ModeFor
    <2> QED
      BY <1>1, <1>2, <2>1, <2>2 DEF PageRules, Live
  <1>3. CASE pc' = "closing"
    BY <1>1, <1>3 DEF PageRules, Live
  <1> QED
    BY <1>2, <1>3, TickOutcome DEF IInv

\* Under a manager every turn is the writer's.
LEMMA WritersTurn ==
    ASSUME IInv, ~Takeover, [Next]_vars
    PROVE  turn'.kind = "User"
  <1> USE TurnShapes DEF IInv
  <1>0. turn.kind = "User" /\ turn \in TurnSet /\ BlankTurn.kind = "User"
    BY DEF PageRules, TypeOK, BlankTurn
  <1>1. CASE UNCHANGED vars \/ PenUp \/ OrphanGap \/ FingerDown \/ FingerUp \/ EnterForeground
             \/ DuplicateForeground \/ SleepAndWake \/ Stop \/ Close \/ Stopped \/ OpenReaderTarget
    BY <1>0, <1>1
       DEF vars, PenUp, OrphanGap, FinishPen, FingerDown, FingerUp, EnterForeground,
           DuplicateForeground, SleepAndWake, Stop, Close, Stopped, OpenReaderTarget, turnVars
  <1>2. CASE PenFrame
    BY <1>0, <1>2
       DEF PenFrame, SwallowFrame, ModalFrame, InkFrame, FadeAnswerFrame,
           CancelHeartbeatFrame, HeartbeatInFlight, turnVars
  <1>3. CASE EnterBackground
    BY <1>0, <1>3 DEF EnterBackground
  <1>4. CASE Tick
    <2>1. CASE CommitNothing \/ CommitLockFails \/ CommitWithoutOracle \/ Preask \/ DrinkPage
               \/ ThinkingEnds
      BY <1>0, <2>1
         DEF CommitNothing, CommitLockFails, CommitWithoutOracle, Preask, DrinkPage,
             ThinkingEnds, turnVars
    <2>2. CASE FirstDirective \/ ThinkingTimesOut \/ FadingEnds \/ TimeoutTick \/ HandoffTick
               \/ IdleTick
      BY <1>0, <2>2
         DEF FirstDirective, ThinkingTimesOut, FadingEnds, TimeoutTick, HandoffTick, IdleTick,
             PlainTick, turnVars
    <2>3. CASE CommitPage
      BY <1>0, <2>3 DEF CommitPage, UserTurn, TurnSet
    <2>4. CASE ShowQueuedReply
      BY <1>0, <2>4 DEF ShowQueuedReply, QueuedTurn, TurnSet
    <2>5. CASE StartHeartbeat
      BY <2>5 DEF StartHeartbeat
    <2>6. CASE FirstEventFails \/ FirstText \/ ReplyText \/ ReplyStreamEnds \/ CompleteReply
      BY <1>0, <2>6
         DEF FirstEventFails, FirstText, ReplyText, ReplyStreamEnds, CompleteReply, TurnSet
    <2> QED
      BY <1>4, <2>1, <2>2, <2>3, <2>4, <2>5, <2>6 DEF Tick
  <1> QED
    BY <1>1, <1>2, <1>3, <1>4 DEF Next

\* Ink, mode and reader requests stay together.
LEMMA RulesStep ==
    ASSUME IInv, [Next]_vars
    PROVE  PageRules'
  <1> ~Takeover => turn'.kind = "User"
    BY WritersTurn
  <1> USE StateShapes, KindNames DEF IInv
  <1>0. state \in StateSet /\ readerTarget \in {"none", "path"}
    BY DEF TypeOK
  <1>1. CASE UNCHANGED vars
    BY <1>1 DEF vars, PageRules, Live, inkVars, modeVars, lifeVars
  <1>2. CASE PenFrame
    <2>0. foreground /\ pc' = "input" /\ pc \in {"poll", "input", "redraw"} /\ foreground'
      BY <1>2 DEF PenFrame, SwallowFrame, ModalFrame, InkFrame, FadeAnswerFrame,
                  CancelHeartbeatFrame, Frame, lifeVars
    <2>1. CASE \E tool \in {"pen", "eraser"} : SwallowFrame(tool) \/ ModalFrame(tool)
      <3>1. UNCHANGED <<state, page, foreground, synced, inputMode, readerTarget>>
        BY <2>0, <2>1 DEF SwallowFrame, ModalFrame, lifeVars, inkVars, modeVars
      <3> QED
        BY <2>0, <3>1 DEF PageRules, Live
    <2>2. CASE \E tool \in {"pen", "eraser"} : InkFrame(tool)
      <3>1. /\ inputMode = "Writing" /\ state.kind = "Listening" /\ state'.kind = "Listening"
            /\ UNCHANGED <<synced, inputMode, readerTarget>>
        BY <2>2 DEF InkFrame, Draw, modeVars
      <3>2. synced /\ readerTarget = "none"
        BY <1>0, <2>0, <3>1 DEF PageRules, Live, Handoff
      <3> QED
        BY <2>0, <3>1, <3>2 DEF PageRules, Live
    <2>3. CASE FadeAnswerFrame
      <3>1. /\ state.kind = "AnswerVisible" /\ state'.kind = "FadingReply"
            /\ UNCHANGED <<page, synced, inputMode, readerTarget>>
        BY <2>3 DEF FadeAnswerFrame, modeVars, inkVars
      <3>2. synced /\ readerTarget = "none" /\ page = 0
        BY <1>0, <2>0, <3>1 DEF PageRules, Live, Handoff
      <3> QED
        BY <2>0, <3>1, <3>2 DEF PageRules, Live
    <2>4. CASE CancelHeartbeatFrame
      <3>1. /\ inputMode' = "Writing" /\ synced' /\ state'.kind = "Listening"
            /\ state.kind \in {"Thinking", "Replying"} /\ UNCHANGED readerTarget
        BY <2>4 DEF CancelHeartbeatFrame, HeartbeatInFlight, SetModeOk, Draw
      <3>2. readerTarget = "none"
        BY <1>0, <2>0, <3>1 DEF PageRules, Live
      <3> QED
        BY <2>0, <3>1, <3>2 DEF PageRules, Live
    <2> QED
      BY <1>2, <2>1, <2>2, <2>3, <2>4 DEF PenFrame
  \* A gesture on a page that keeps its mode: a list that is closed had no ink.
  <1>3. ASSUME NEW after \in {"input", "redraw"}, Gesture(after), foreground, pc \in {"poll", "input"},
               UNCHANGED <<page, foreground, synced, inputMode>>
        PROVE  PageRules'
    <2>1. CASE pc' = after /\ UNCHANGED <<state, readerTarget>>
      BY <1>3, <2>1 DEF PageRules, Live
    <2>2. CASE pc' = after /\ state.kind \in Lists /\ state' = S("Listening")
               /\ UNCHANGED readerTarget
      <3>1. state.kind \notin {"Listening", "Drinking"} \cup Handoff
        BY <2>2 DEF Lists, Handoff
      <3>2. page = 0 /\ synced /\ readerTarget = "none"
        BY <1>0, <1>3, <2>2, <3>1 DEF PageRules, Live, Lists
      <3>3. page' = 0 /\ synced' /\ readerTarget' = "none" /\ foreground' /\ pc' # "drained"
        BY <1>3, <2>2, <3>2
      <3> QED
        BY <3>3 DEF PageRules
    <2>3. CASE pc' = after /\ state = Open("Help") /\ state' = S("Help") /\ UNCHANGED readerTarget
      BY <1>3, <2>3 DEF PageRules, Live, Handoff
    <2>4. CASE pc' = "drained" /\ state.kind = "ReaderList" /\ readerTarget' = "path"
               /\ UNCHANGED state
      BY <1>3, <2>4 DEF PageRules, Live
    <2> QED
      BY <1>3, <2>1, <2>2, <2>3, <2>4 DEF Gesture
  <1>4. ASSUME NEW after \in {"input", "redraw"}, FinishPen(after), foreground,
               pc \in {"poll", "input"}
        PROVE  PageRules'
    <2>0. UNCHANGED <<page, foreground>> /\ Live
      BY <1>4 DEF FinishPen, lifeVars, Live
    <2>1. CASE FinishModalPen(after)
      BY <1>3, <1>4, <2>0, <2>1 DEF FinishModalPen, modeVars
    <2>2. CASE FinishAwaited(after)
      <3>1. CASE SetModeOk("Writing") /\ state' = S("Listening") /\ pc' = after
        BY <1>0, <1>4, <2>0, <2>2, <3>1 DEF FinishAwaited, SetModeOk, PageRules, Live
      <3>2. CASE pc' = "closing"
        BY <1>4, <2>0, <3>2 DEF PageRules, Live
      <3> QED
        BY <2>2, <3>1, <3>2 DEF FinishAwaited
    <2>3. CASE FinishStroke(after)
      <3>1. /\ state' = state \/ (state.kind = "Listening" /\ state'.kind = "Listening")
            /\ pc' = after /\ UNCHANGED <<synced, inputMode, readerTarget>>
        BY <2>3 DEF FinishStroke, modeVars
      <3> QED
        BY <1>4, <2>0, <3>1 DEF PageRules, Live
    <2> QED
      BY <1>4, <2>1, <2>2, <2>3 DEF FinishPen
  <1>5. CASE PenUp \/ OrphanGap
    BY <1>4, <1>5 DEF PenUp, OrphanGap
  <1>6. CASE FingerUp
    <2>1. foreground /\ pc \in {"poll", "input"} /\ UNCHANGED <<page, foreground, synced, inputMode>>
      BY <1>6 DEF FingerUp, modeVars, lifeVars, inkVars
    <2>2. CASE Gesture("input")
      BY <1>3, <2>1, <2>2
    <2>3. CASE pc' = "input" /\ UNCHANGED <<state, readerTarget>>
      BY <2>1, <2>3, <1>6 DEF PageRules, Live, FingerUp
    <2> QED
      BY <1>6, <2>2, <2>3 DEF FingerUp
  <1>7. CASE FingerDown
    BY <1>7 DEF FingerDown, PageRules, Live, modeVars, lifeVars, inkVars
  <1>8. CASE EnterBackground
    <2>1. state'.kind \in Lists \cup {"Help", "Listening"} /\ ~foreground' /\ pc' = "poll"
          /\ readerTarget' = "none"
      BY <1>8 DEF EnterBackground, Suspend, Suspended
    <2>2. page' # 0 => state'.kind = "Listening"
      <3>1. page' # 0 => page # 0 /\ state.kind = "Listening"
        BY <1>8 DEF EnterBackground, Suspend, PageRules, Live
      <3> QED
        BY <1>8, <3>1 DEF EnterBackground, Suspend, Suspended, Lists
    <2> QED
      BY <2>1, <2>2 DEF PageRules, Live
  <1>9. CASE EnterForeground
    <2>1. UNCHANGED <<state, page, readerTarget>> /\ pc = "poll"
      BY <1>9 DEF EnterForeground, inkVars
    <2>2. CASE SetModeOk(ModeFor(state.kind)) /\ foreground' = TRUE /\ UNCHANGED pc
      BY <2>1, <2>2 DEF SetModeOk, ModeFor, PageRules, Live
    <2>3. CASE pc' = "closing" /\ UNCHANGED foreground
      BY <2>1, <2>3 DEF PageRules, Live
    <2> QED
      BY <1>9, <2>2, <2>3 DEF EnterForeground
  <1>10. CASE DuplicateForeground \/ SleepAndWake
    <2>1. UNCHANGED <<pc, state, foreground, page, turn, synced, inputMode, readerTarget>>
      BY <1>10 DEF DuplicateForeground, SleepAndWake, modeVars, lifeVars, inkVars, turnVars
    <2> QED
      BY <2>1 DEF PageRules, Live
  <1>11. CASE Stop
    BY <1>11 DEF Stop, PageRules, Live, lifeVars
  <1>12. CASE Close
    <2>1. UNCHANGED foreground /\ pc' = "stopped" /\ state' = Suspended
      BY <1>12 DEF Close, Suspend, lifeVars
    <2>2. Suspended.kind \in Lists \cup {"Help", "Listening"}
      BY DEF Suspended
    <2> QED
      BY <2>1, <2>2 DEF PageRules, Live
  <1>13. CASE Stopped
    BY <1>13 DEF Stopped, vars, PageRules, Live, inkVars, modeVars, lifeVars
  <1>14. CASE OpenReaderTarget
    <2>0. foreground' /\ foreground /\ Live /\ pc' = "tick" /\ readerTarget' = "none"
          /\ UNCHANGED <<page, synced, inputMode>>
      BY <1>14 DEF OpenReaderTarget, lifeVars, inkVars, modeVars, Live
    <2>1. CASE readerTarget = "none"
      BY <1>14, <2>0, <2>1 DEF OpenReaderTarget, PageRules, Live
    <2>2. CASE readerTarget # "none"
      <3>1. page = 0 /\ synced
        BY <1>0, <2>0, <2>2 DEF PageRules, Handoff
      <3> QED
        BY <2>0, <3>1 DEF PageRules, Live
    <2> QED
      BY <2>1, <2>2
  <1>15. CASE Tick
    <2> USE <1>0
    <2>0. pc = "tick" => (page # 0 => state.kind \in {"Listening", "Drinking"})
      BY DEF PageRules, Live
    <2>1. ASSUME NEW next \in StateSet, PlainTick(next), state.kind \notin {"Listening", "Drinking"}
          PROVE  PageRules'
      <3>1. TickTo(next) /\ page' = page /\ pc = "tick"
        BY <2>1 DEF PlainTick, TickTo
      <3> QED
        BY <2>0, <2>1, <3>1, RulesTick
    <2>2. CASE CommitNothing \/ CommitWithoutOracle
      <3>1. page' = 0 /\ \E next \in StateSet : TickTo(next)
        BY <2>2 DEF CommitNothing, CommitWithoutOracle
      <3> QED
        BY <3>1, RulesTick
    <2>3. CASE CommitLockFails
      BY <2>3 DEF CommitLockFails, PageRules, Live, lifeVars
    <2>4. CASE CommitPage
      <3>1. \E g \in 0..MaxGen : TickTo(With("Drinking", g))
        <4>1. CASE spec # NoReq
          BY <2>4, <4>1 DEF CommitPage, TypeOK
        <4>2. CASE spec = NoReq
          BY <2>4, <4>2 DEF CommitPage, Ask, TypeOK
        <4> QED
          BY <4>1, <4>2
      <3>2. PICK g \in 0..MaxGen : TickTo(With("Drinking", g))
        BY <3>1
      <3>3. With("Drinking", g) \in StateSet /\ With("Drinking", g).kind = "Drinking"
        <4>1. "Drinking" \in Kinds
          BY KindNames
        <4> QED
          BY <4>1, StateShapes
      <3> QED
        BY <3>2, <3>3, RulesTick
    <2>5. CASE Preask \/ IdleTick
      <3>1. TickTo(state) /\ page' = page
        BY <2>5 DEF Preask, IdleTick, PlainTick
      <3>2. pc = "tick"
        BY <3>1 DEF TickTo
      <3> QED
        BY <2>0, <3>1, <3>2, RulesTick
    <2>6. CASE ShowQueuedReply
      <3>1. page' = 0
        BY <2>6 DEF ShowQueuedReply, Quiet
      <3>2. CASE TickTo(S("Replying"))
        BY <3>1, <3>2, RulesTick
      <3>3. CASE ~TickTo(S("Replying"))
        BY <2>6, <3>3 DEF ShowQueuedReply, PageRules, Live
      <3> QED
        BY <3>2, <3>3
    <2>7. CASE StartHeartbeat
      <3>1. page' = 0 /\ TickTo(With("Thinking", gen + 1)) /\ gen + 1 \in 0..MaxGen
        BY <2>7 DEF StartHeartbeat, Quiet, Ask, TypeOK
      <3>2. With("Thinking", gen + 1) \in StateSet
        BY <3>1
      <3> QED
        BY <3>1, <3>2, RulesTick
    <2>8. CASE DrinkPage
      <3>1. page' = 0 /\ \E g \in 0..MaxGen : TickTo(With("Thinking", g))
        BY <2>8 DEF DrinkPage
      <3> QED
        BY ZenonT(40), <3>1, RulesTick
    <2>9. CASE FirstDirective \/ ThinkingTimesOut \/ FadingEnds \/ TimeoutTick \/ HandoffTick
      <3>1. state.kind \notin {"Listening", "Drinking"}
        BY <2>9 DEF FirstDirective, ThinkingTimesOut, FadingEnds, TimeoutTick, HandoffTick, S, Open
      <3>2. page' = page /\ \E next \in StateSet : TickTo(next)
        <4>1. CASE FirstDirective
          BY <4>1, ReaderTypes DEF FirstDirective, PlainTick
        <4>2. CASE ThinkingTimesOut \/ FadingEnds \/ TimeoutTick
          BY <4>2 DEF ThinkingTimesOut, FadingEnds, TimeoutTick, PlainTick
        <4>3. CASE HandoffTick
          BY ZenonT(40), <4>3 DEF HandoffTick, PlainTick
        <4> QED
          BY <2>9, <4>1, <4>2, <4>3
      <3>3. pc = "tick"
        BY <3>2 DEF TickTo
      <3> QED
        BY <2>0, <3>1, <3>2, <3>3, RulesTick
    <2>10. CASE ThinkingEnds \/ FirstEventFails \/ FirstText \/ ReplyText \/ ReplyStreamEnds
                \/ CompleteReply
      <3>1. state.kind \notin {"Listening", "Drinking"} /\ page' = page
        BY <2>10 DEF ThinkingEnds, FirstEventFails, FirstText, ReplyText, ReplyStreamEnds,
                     CompleteReply
      <3>2. \E next \in StateSet : TickTo(next)
        BY ZenonT(40), <2>10 DEF ThinkingEnds, FirstEventFails, FirstText, ReplyText, ReplyStreamEnds,
                     CompleteReply
      <3>3. pc = "tick"
        BY <3>2 DEF TickTo
      <3> QED
        BY <2>0, <3>1, <3>2, <3>3, RulesTick
    <2> QED
      BY <1>15, <2>2, <2>3, <2>4, <2>5, <2>6, <2>7, <2>8, <2>9, <2>10 DEF Tick
  <1> QED
    BY <1>1, <1>2, <1>5, <1>6, <1>7, <1>8, <1>9, <1>10, <1>11, <1>12, <1>13, <1>14, <1>15
       DEF Next

-----------------------------------------------------------------------------
(* The theorems.                                                           *)

\* The reactor starts with a blank page and no request.
LEMMA InitIInv == Init => IInv
  <1> SUFFICES ASSUME Init PROVE IInv
    OBVIOUS
  <1> USE StateShapes, KindNames, TurnShapes DEF Init
  <1>1. TypeOK
    <2>1. S("Listening") \in StateSet /\ "Writing" \in Modes
      BY DEF Modes
    <2>2. gen \in 0..(MaxGen + 1) /\ captured \in [Gens -> 0..MaxInk] /\ spec \in 0..MaxGen
      BY DEF Gens, NoReq
    <2>3. page \in 0..MaxInk /\ lastInk \in 0..MaxInk /\ epoch \in 1..MaxEpoch
          /\ handedOff \in 0..MaxEpoch
      OBVIOUS
    <2>4. turn \in TurnSet /\ memory \subseteq Page /\ stray \subseteq {"locked", "answer", "modal"}
      OBVIOUS
    <2> QED
      BY <2>1, <2>2, <2>3, <2>4 DEF TypeOK
  <1>2. GenBound /\ HoldersOfRequests /\ SpeculationIsExact /\ HeldTurnIsCurrent /\ ReaderWaits
    BY DEF GenBound, HoldersOfRequests, SpeculationIsExact, HeldTurnIsCurrent, ReaderWaits
  <1>3. PageRules
    BY DEF PageRules, BlankTurn
  <1> QED
    BY <1>1, <1>2, <1>3 DEF IInv

\* Every step keeps the inductive invariant.
LEMMA StepIInv == IInv /\ [Next]_vars => IInv'
  BY TypeStep, SpeculationStep, ReaderStep, GenBoundStep, RequestStep, RulesStep DEF IInv

\* The inductive invariant holds in every reachable state.
LEMMA Invariance == Spec => []IInv
  BY InitIInv, StepIInv, PTL DEF Spec

\* Every variable of the reactor keeps its type, for every bound and with or
\* without a manager.
THEOREM TypesAreKept == Spec => []TypeOK
  <1>1. IInv => TypeOK
    BY DEF IInv
  <1> QED
    BY <1>1, Invariance, PTL

\* A speculative question that the engine still holds was asked about exactly
\* the ink now on the page, and belongs to the newest generation: commit_page
\* may adopt it as it is (start_preask, start_user_turn).
THEOREM SpeculationIsAlwaysExact == Spec => []SpeculationIsExact
  <1>1. IInv => SpeculationIsExact
    BY DEF IInv
  <1> QED
    BY <1>1, Invariance, PTL

\* The request a page waits for, or writes down, is the oracle controller's
\* newest, and while the paper drinks its ink that ink is what was asked about
\* (poll_first, poll_stream, suspend_visible_state).
THEOREM HeldTurnIsAlwaysCurrent == Spec => []HeldTurnIsCurrent
  <1>1. IInv => HeldTurnIsCurrent
    BY DEF IInv
  <1> QED
    BY <1>1, Invariance, PTL

\* No answer, panel or hand-off ever covers unsent ink, hosted by a manager or
\* not: a page is committed before its answer, a queued or scheduled turn starts
\* on a blank one only, and what a lifecycle command or a pen interrupts leaves
\* the page to the writer (commit_page, tick_drinking, cancel_heartbeat_for_pen,
\* suspend_visible_state).
THEOREM PaperAlwaysOwnsInk == Spec => []PaperOwnsInk
  <1>1. IInv => PaperOwnsInk
    BY DEF IInv, PageRules, Live, PaperOwnsInk, TypeOK
  <1> QED
    BY <1>1, Invariance, PTL
=============================================================================
