---------------------------- MODULE EngineTurnProofs ----------------------------
(***************************************************************************)
(* The turn, for every bound: one answer never mixes two requests, what is *)
(* remembered pairs the strokes of one turn with the answer to exactly     *)
(* those strokes, a scheduled turn holds its lease, and, hosted, every     *)
(* step of the reactor is one that Dialogue allows.  All of it rests on    *)
(* what is true of a turn in progress (TurnMatches) and of the ink it was  *)
(* asked with (InkIsSpent).                                                *)
(***************************************************************************)
EXTENDS EngineDialogue, EngineInputProofs

\* The pages a turn goes through: from its first word on, and all of them.
AfterText == {"Replying", "ReaderList"} \cup Handoff
TurnKinds == {"Drinking", "Thinking"} \cup AfterText

\* Without an oracle there is never a request, nor its text.
Unasked == ~oracleUp => turn.reply = {} /\ turn.kind = "User" /\ state.rx = NoReq

\* A scheduled turn holds the lease wherever it may still be answered.
Leased ==
    turn.kind = "Heartbeat" /\ (state.kind \in TurnKinds \/ (Live /\ readerTarget # "none"))
      => lease

\* The writer's turn in progress is about the strokes its request carries, its
\* text is that request's, and it is not remembered yet.
TurnMatches ==
    turn.kind = "User" /\ InTurn =>
        /\ turn.id \in 1..gen /\ turn.strokes = captured[turn.id] /\ turn.strokes # 0
        /\ state.rx \in {NoReq, turn.id} /\ turn.reply \subseteq {turn.id}
        /\ \A m \in memory : m.turn # turn.id

\* Nothing remembered is of a turn still to come.
MemoryMatches ==
    /\ MemoryPairsOneTurn
    /\ \A m \in memory : m.turn \in 1..gen
    /\ spec # NoReq => \A m \in memory : m.turn # spec

\* Ink is numbered as it is drawn, and what was asked about or remembered is
\* never on the paper again.
InkIsSpent ==
    ~Takeover =>
        /\ page <= lastInk
        /\ \A m \in memory : m.strokes <= lastInk /\ (page # 0 => m.strokes # page)
        /\ InTurn => /\ captured[turn.id] <= lastInk
                     /\ \A m \in memory : m.strokes # captured[turn.id]
                     /\ state.kind # "Drinking" => page = 0

TextInv == InputInv /\ OneRequestPerAnswer /\ Unasked /\ Leased
TurnInv == TextInv /\ TurnMatches /\ MemoryMatches /\ InkIsSpent

-----------------------------------------------------------------------------
(* What a step makes of a turn.                                            *)

\* Page, request and turn stay; a book chosen from the list is noted.
Keeps ==
    /\ UNCHANGED <<turn, lease, memory>> /\ state'.kind = state.kind /\ state'.rx = state.rx
    /\ readerTarget' = readerTarget \/ state.kind = "ReaderList"
    /\ Live' => Live

\* The page is no longer about a turn.
GivesUp ==
    /\ state'.kind \notin TurnKinds /\ state'.rx = NoReq /\ memory' = memory
    /\ ~oracleUp => turn'.reply = {} /\ turn'.kind = "User"
    /\ Live' /\ readerTarget' # "none" => turn'.reply = {} /\ turn'.kind = "User"

\* A page without text for the turn it belongs to, if it belongs to one.
Excuses ==
    /\ state'.kind \in AfterText /\ state'.rx = NoReq
    /\ turn'.reply = {} /\ readerTarget' = "none" /\ memory' = memory
    /\ ~oracleUp => turn'.kind = "User"
    /\ turn'.kind = "Heartbeat" => turn.kind = "Heartbeat" /\ lease' = lease
                                   /\ (state.kind = "Thinking" \/ (Live /\ readerTarget # "none"))

\* A closed stream, or a reader's pages, for the text there is.
MovesOn ==
    /\ state.kind \in AfterText /\ state'.kind \in AfterText /\ state'.rx = NoReq
    /\ UNCHANGED <<lease, memory>> /\ turn'.id = turn.id /\ turn'.strokes = turn.strokes
    /\ turn'.reply = turn.reply /\ turn'.kind = turn.kind
    /\ readerTarget' = "none" \/ state'.kind = "Replying"

\* start_user_turn
Commits(g) ==
    /\ state.kind = "Listening" /\ page # 0 /\ page' = page /\ oracleUp
    /\ state' = With("Drinking", g) /\ turn' = UserTurn(g) /\ readerTarget' = "none"
    /\ UNCHANGED <<lease, memory>>
    /\ \/ g = spec /\ spec # NoReq /\ UNCHANGED genVars
       \/ g = gen + 1 /\ Ask(page)

\* begin_heartbeat
Schedules ==
    /\ state'.kind = "Thinking" /\ state'.rx = gen + 1 /\ gen < MaxGen /\ oracleUp
    /\ turn'.kind = "Heartbeat" /\ turn'.reply = {} /\ lease' /\ memory' = memory
    /\ readerTarget' = "none"

Drinks ==
    /\ state.kind = "Drinking" /\ state' = With("Thinking", state.rx)
    /\ UNCHANGED <<turn, lease, memory>> /\ readerTarget' = "none"

\* Text of the request the page holds.
Speaks ==
    /\ state.kind \in {"Thinking", "Replying"} /\ state.rx # NoReq
    /\ state'.kind = "Replying" /\ state'.rx \in {state.rx, NoReq}
    /\ turn' = [turn EXCEPT !.reply = @ \cup {state.rx}] /\ UNCHANGED <<lease, memory>>
    /\ readerTarget' = "none"

\* complete_reply with something to remember.
Remembers ==
    /\ state.kind = "Replying" /\ state.rx = NoReq
    /\ turn.kind = "User" /\ turn.reply # {}
    /\ state'.kind = "AnswerVisible" /\ state'.rx = NoReq
    /\ memory' = memory \cup {[turn |-> turn.id, strokes |-> turn.strokes,
                               whole |-> turn.whole, reply |-> turn.reply]}
    /\ turn'.kind = "User" /\ turn'.reply = turn.reply /\ readerTarget' = "none"

TurnCourse ==
    \/ Keeps \/ GivesUp \/ Excuses \/ MovesOn \/ Schedules \/ Drinks \/ Speaks \/ Remembers
    \/ \E g \in 1..MaxGen : Commits(g)

\* Where a tick lands, and that no reader request waits through it.
LEMMA TickLands ==
    ASSUME IInv, NEW next \in StateSet, TickTo(next)
    PROVE  /\ state' = next \/ (next.kind = "Listening" /\ state' = S("AwaitingPenUp"))
           /\ readerTarget' = "none" /\ pc = "tick" /\ Live
  BY TickOutcome DEF IInv, ReaderWaits, Live

\* Where a reader request leads.
LEMMA ReaderOutcomeKinds ==
    \A s \in ReaderOutcomes : s.rx = NoReq /\ s.kind \in AfterText
  BY StateShapes, KindNames DEF ReaderOutcomes, Reading, AfterText, Handoff

\* A tick's course.
LEMMA TickTurnCourse ==
    ASSUME TextInv, Tick
    PROVE  TurnCourse
  <1> USE StateShapes, KindNames DEF IInv, InputInv, TextInv
  <1>0. /\ state \in StateSet /\ state.kind \in Kinds /\ state.rx \in 0..MaxGen
        /\ state.token \in 0..MaxEpoch /\ turn \in TurnSet
    BY DEF TypeOK
  \* Landing on a page that is about no turn.
  <1>1. ASSUME NEW next \in StateSet, TickTo(next), next.kind \notin TurnKinds, next.rx = NoReq,
               memory' = memory, turn'.reply = turn.reply, turn'.kind = turn.kind
        PROVE  GivesUp
    <2>1. state' = next \/ state' = S("AwaitingPenUp")
      BY <1>1, TickLands
    <2>2. state'.kind \notin TurnKinds /\ state'.rx = NoReq
      BY <1>1, <2>1 DEF TurnKinds, AfterText, Handoff
    <2> QED
      BY <1>1, <2>2, TickLands DEF GivesUp, Unasked
  <1>2. CASE CommitNothing
    <2>1. UNCHANGED <<turn, memory>> /\ (TickTo(S("Listening")) \/ TickTo(Open("Help")))
      BY <1>2 DEF CommitNothing, turnVars
    <2>2. \A s \in {S("Listening"), Open("Help")} :
             s \in StateSet /\ s.kind \notin TurnKinds /\ s.rx = NoReq
      BY DEF TurnKinds, AfterText, Handoff
    <2> QED
      BY <1>1, <2>1, <2>2 DEF TurnCourse
  <1>3. CASE CommitLockFails
    <2>1. state'.kind \notin TurnKinds /\ state'.rx = NoReq
      BY <1>3 DEF CommitLockFails, TurnKinds, AfterText, Handoff
    <2>2. pc' = "closing" /\ UNCHANGED <<turn, memory>>
      BY <1>3 DEF CommitLockFails, turnVars
    <2> QED
      BY <2>1, <2>2 DEF TurnCourse, GivesUp, Unasked, Live
  <1>4. CASE CommitWithoutOracle
    <2>1. state' = S("Replying") /\ readerTarget' = "none"
      BY <1>4, TickLands DEF CommitWithoutOracle
    <2>2. turn'.reply = {} /\ turn'.kind = "User" /\ memory' = memory
      BY <1>4 DEF CommitWithoutOracle, turnVars, Unasked
    <2> QED
      BY <2>1, <2>2 DEF TurnCourse, Excuses, AfterText
  <1>5. CASE CommitPage
    <2>1. /\ state.kind = "Listening" /\ page # 0 /\ page' = page /\ oracleUp
          /\ UNCHANGED <<lease, memory>>
      BY <1>5 DEF CommitPage, Idle
    <2>2. ASSUME NEW g \in 1..MaxGen, TickTo(With("Drinking", g))
          PROVE  state' = With("Drinking", g) /\ readerTarget' = "none"
      <3>1. g \in 0..MaxGen /\ "Drinking" \in Kinds
        BY KindNames
      <3>2. With("Drinking", g) \in StateSet /\ With("Drinking", g).kind = "Drinking"
        BY <3>1, StateShapes
      <3> QED
        BY <2>2, <3>2, TickLands
    <2>3. CASE spec # NoReq
      <3>1. spec \in 1..MaxGen
        BY <2>3 DEF TypeOK, NoReq
      <3>2. turn' = UserTurn(spec) /\ TickTo(With("Drinking", spec)) /\ UNCHANGED genVars
        BY <1>5, <2>3 DEF CommitPage
      <3>3. Commits(spec)
        BY <2>1, <2>2, <2>3, <3>1, <3>2 DEF Commits
      <3> QED
        BY <3>1, <3>3 DEF TurnCourse
    <2>4. CASE spec = NoReq
      <3>1. Ask(page) /\ turn' = UserTurn(gen + 1) /\ TickTo(With("Drinking", gen + 1))
        BY <1>5, <2>4 DEF CommitPage
      <3>2. page \in 0..MaxInk
        BY DEF TypeOK
      <3>3. gen + 1 \in 1..MaxGen
        BY <3>1, <3>2, AskShapes DEF Gens
      <3>4. Commits(gen + 1)
        BY <2>1, <2>2, <3>1, <3>3 DEF Commits
      <3> QED
        BY <3>3, <3>4 DEF TurnCourse
    <2> QED
      BY <2>3, <2>4
  <1>6. CASE Preask \/ IdleTick
    <2>1. TickTo(state) /\ UNCHANGED <<turn, lease, memory>>
      BY <1>6 DEF Preask, IdleTick, PlainTick, turnVars
    <2>2. CASE state' = state
      <3>1. readerTarget' = readerTarget /\ Live
        BY <1>0, <2>1, TickLands, TickOutcome
      <3> QED
        BY <2>1, <2>2, <3>1 DEF TurnCourse, Keeps
    <2>3. CASE state.kind = "Listening"
      <3>1. state.kind \notin TurnKinds /\ state.rx = NoReq
        BY <2>3 DEF TurnKinds, AfterText, Handoff, HoldersOfRequests
      <3> QED
        BY <1>0, <1>1, <2>1, <3>1 DEF TurnCourse
    <2> QED
      BY <1>0, <2>1, <2>2, <2>3, TickLands
  <1>7. CASE ShowQueuedReply
    <2>1. memory' = memory
      BY <1>7 DEF ShowQueuedReply
    <2>2. CASE TickTo(S("Replying")) /\ turn' = QueuedTurn
      <3>1. state' = S("Replying") /\ readerTarget' = "none"
        BY <2>2, TickLands
      <3>2. turn'.reply = {} /\ turn'.kind = "User"
        BY <1>0, <2>2 DEF QueuedTurn, TurnSet
      <3> QED
        BY <2>1, <3>1, <3>2 DEF TurnCourse, Excuses, AfterText
    <2>3. CASE state' = S("AwaitingPenUp") /\ UNCHANGED turn /\ pc' = "closing"
      <3>1. state'.kind \notin TurnKinds /\ state'.rx = NoReq
        BY <2>3 DEF TurnKinds, AfterText, Handoff
      <3> QED
        BY <2>1, <2>3, <3>1 DEF TurnCourse, GivesUp, Unasked, Live
    <2> QED
      BY <1>7, <2>2, <2>3 DEF ShowQueuedReply
  <1>8. CASE StartHeartbeat
    <2>1. Ask(0) /\ TickTo(With("Thinking", gen + 1)) /\ oracleUp /\ lease' /\ memory' = memory
          /\ turn' = [BlankTurn EXCEPT !.kind = "Heartbeat"]
      BY <1>8 DEF StartHeartbeat
    <2>2. gen + 1 \in 0..MaxGen /\ gen < MaxGen
      <3>1. 0 \in 0..MaxInk
        BY EngineAssumption
      <3>2. gen + 1 \in Gens
        BY <2>1, <3>1, AskShapes
      <3>3. gen + 1 \in 0..MaxGen
        BY <3>2 DEF Gens
      <3> QED
        BY <2>1, <3>3 DEF Ask
    <2>3. "Thinking" \in Kinds
      BY KindNames
    <2>4. /\ With("Thinking", gen + 1) \in StateSet
          /\ With("Thinking", gen + 1).kind = "Thinking"
          /\ With("Thinking", gen + 1).rx = gen + 1
      BY <2>2, <2>3, StateShapes
    <2>5. state' = With("Thinking", gen + 1) /\ readerTarget' = "none"
      BY <2>1, <2>4, TickLands
    <2>6. turn'.kind = "Heartbeat" /\ turn'.reply = {}
      BY <2>1 DEF BlankTurn
    <2> QED
      BY <2>1, <2>2, <2>4, <2>5, <2>6 DEF TurnCourse, Schedules
  <1>9. CASE DrinkPage
    <2>1. With("Thinking", state.rx) \in StateSet /\ With("Thinking", state.rx).kind = "Thinking"
      BY <1>0, StateShapes, KindNames
    <2>2. state' = With("Thinking", state.rx) /\ readerTarget' = "none"
      BY <1>9, <2>1, TickLands DEF DrinkPage
    <2> QED
      BY <1>9, <2>2 DEF DrinkPage, turnVars, TurnCourse, Drinks
  <1>10. CASE ThinkingEnds
    BY <1>1, <1>10 DEF ThinkingEnds, TurnKinds, AfterText, Handoff, TurnCourse
  \* From Thinking to a page without text: the request is dropped.
  <1>11. ASSUME NEW next \in StateSet, TickTo(next), state.kind = "Thinking", next.rx = NoReq,
                next.kind \in AfterText \cup {"List", "Help", "Conjuring", "Listening"},
                turn'.reply = turn.reply, turn'.kind = turn.kind, UNCHANGED <<lease, memory>>
         PROVE  TurnCourse
    <2>1. turn.reply = {} /\ state.rx # NoReq
      BY <1>11 DEF OneRequestPerAnswer, HoldersOfRequests
    <2>2. CASE next.kind \in AfterText
      <3>1. next.kind # "Listening"
        BY <2>2 DEF AfterText, Handoff
      <3>2. state' = next /\ readerTarget' = "none"
        BY <1>11, <3>1, TickLands
      <3> QED
        BY <1>11, <2>1, <2>2, <3>2 DEF TurnCourse, Excuses, Unasked
    <2>3. CASE next.kind \notin AfterText
      <3>1. next.kind \notin TurnKinds
        BY <1>11, <2>3 DEF TurnKinds
      <3> QED
        BY <1>1, <1>11, <3>1 DEF TurnCourse
    <2> QED
      BY <2>2, <2>3
  <1>12. CASE FirstDirective
    <2>1. PICK next \in {S("List"), Open("Help"), S("Conjuring"), S("Listening")}
                          \cup ReaderOutcomes : TickTo(next)
      BY <1>12 DEF FirstDirective, PlainTick
    <2>2. next \in StateSet /\ state.kind = "Thinking" /\ UNCHANGED <<turn, lease, memory>>
      BY <1>12, ReaderTypes DEF FirstDirective, PlainTick, turnVars
    <2>3. next.rx = NoReq /\ next.kind \in AfterText \cup {"List", "Help", "Conjuring", "Listening"}
      <3>1. CASE next \in {S("List"), Open("Help"), S("Conjuring"), S("Listening")}
        BY <3>1
      <3>2. CASE next \in ReaderOutcomes
        BY <3>2, ReaderOutcomeKinds
      <3> QED
        BY <2>1, <3>1, <3>2
    <2> QED
      BY <1>11, <2>1, <2>2, <2>3
  <1>13. CASE ThinkingTimesOut \/ FirstEventFails
    <2>1. state.kind = "Thinking" /\ TickTo(S("Replying")) /\ UNCHANGED <<lease, memory>>
      BY <1>13 DEF ThinkingTimesOut, FirstEventFails, PlainTick, turnVars
    <2>2. turn'.reply = turn.reply /\ turn'.kind = turn.kind
      BY <1>0, <1>13 DEF ThinkingTimesOut, FirstEventFails, PlainTick, turnVars, TurnSet
    <2> QED
      BY <1>11, <2>1, <2>2 DEF AfterText
  <1>14. CASE FirstText \/ ReplyText
    <2>1. /\ state.kind \in {"Thinking", "Replying"} /\ state.rx # NoReq
          /\ turn' = [turn EXCEPT !.reply = @ \cup {state.rx}] /\ UNCHANGED <<lease, memory>>
      BY <1>14 DEF FirstText, ReplyText, HoldersOfRequests
    <2>2. /\ With("Replying", state.rx) \in StateSet
          /\ With("Replying", state.rx).kind = "Replying" /\ With("Replying", state.rx).rx = state.rx
      <3>1. "Replying" \in Kinds
        BY KindNames
      <3> QED
        BY <1>0, <3>1, StateShapes
    <2>3. \/ TickTo(With("Replying", state.rx)) \/ TickTo(S("Replying"))
          \/ TickTo(state) /\ state.kind = "Replying"
      BY <1>14 DEF FirstText, ReplyText
    <2>4. /\ state'.kind = "Replying" /\ state'.rx \in {state.rx, NoReq}
          /\ readerTarget' = "none"
      BY <1>0, <2>2, <2>3, TickLands
    <2> QED
      BY <2>1, <2>4 DEF TurnCourse, Speaks
  <1>15. CASE ReplyStreamEnds
    <2>1. state' = S("Replying") /\ readerTarget' = "none"
      BY <1>15, TickLands DEF ReplyStreamEnds
    <2>2. turn' \in {turn, [turn EXCEPT !.failed = TRUE]} /\ UNCHANGED <<lease, memory>>
          /\ state.kind = "Replying"
      BY <1>15 DEF ReplyStreamEnds
    <2>3. /\ turn'.id = turn.id /\ turn'.strokes = turn.strokes
          /\ turn'.reply = turn.reply /\ turn'.kind = turn.kind
      BY <1>0, <2>2 DEF TurnSet
    <2> QED
      BY <2>1, <2>2, <2>3 DEF TurnCourse, MovesOn, AfterText
  <1>17. CASE CompleteReply
    <2>1. state' = S("AnswerVisible") /\ readerTarget' = "none" /\ state.kind = "Replying"
          /\ state.rx = NoReq
      BY <1>17, TickLands DEF CompleteReply
    <2>2. turn'.kind = turn.kind /\ turn'.reply = turn.reply
      BY <1>0, <1>17 DEF CompleteReply, TurnSet
    <2>3. CASE turn.kind = "User" /\ ~turn.failed /\ turn.reply # {}
      BY <1>17, <2>1, <2>2, <2>3 DEF CompleteReply, TurnCourse, Remembers
    <2>4. CASE ~(turn.kind = "User" /\ ~turn.failed /\ turn.reply # {})
      <3>1. memory' = memory /\ TickTo(S("AnswerVisible"))
        BY <1>17, <2>4 DEF CompleteReply
      <3> QED
        BY <1>1, <2>2, <3>1 DEF TurnCourse, TurnKinds, AfterText, Handoff
    <2> QED
      BY <2>3, <2>4
  <1>18. CASE FadingEnds \/ TimeoutTick
    <2>1. UNCHANGED <<turn, lease, memory>> /\
          \E next \in {S("AwaitingPenUp"), S("FadingReply"), S("Help"), S("Listening"),
                       S("MemoryShown"), Open("MemoryShown")} : TickTo(next)
      BY <1>18 DEF FadingEnds, TimeoutTick, PlainTick, turnVars
    <2> QED
      BY <1>1, <2>1 DEF TurnCourse, TurnKinds, AfterText, Handoff
  <1>19. CASE HandoffTick
    <2>1. UNCHANGED <<turn, lease, memory>> /\ state.kind \in AfterText
      BY <1>19 DEF HandoffTick, PlainTick, turnVars, AfterText, Handoff
    <2>2. /\ Reading("HandoffPending", state.token) \in StateSet
          /\ Reading("HandoffPending", state.token).kind = "HandoffPending"
          /\ Reading("HandoffPending", state.token).rx = NoReq
      <3>1. "HandoffPending" \in Kinds
        BY KindNames
      <3> QED
        BY <1>0, <3>1, StateShapes
    <2>3. \/ TickTo(Reading("HandoffPending", state.token)) \/ TickTo(S("Replying"))
          \/ TickTo(S("Listening"))
      BY <1>19 DEF HandoffTick, PlainTick
    <2>4. CASE TickTo(S("Listening"))
      BY <1>1, <2>1, <2>4 DEF TurnCourse, TurnKinds, AfterText, Handoff
    <2>5. CASE ~TickTo(S("Listening"))
      <3>1. state'.kind \in AfterText /\ state'.rx = NoReq /\ readerTarget' = "none"
        BY <2>2, <2>3, <2>5, TickLands DEF AfterText, Handoff
      <3> QED
        BY <2>1, <3>1 DEF TurnCourse, MovesOn
    <2> QED
      BY <2>4, <2>5
  <1> QED
    BY <1>2, <1>3, <1>4, <1>5, <1>6, <1>7, <1>8, <1>9, <1>10, <1>12, <1>13, <1>14, <1>15,
       <1>17, <1>18, <1>19 DEF Tick

\* Any step's course.
LEMMA StepTurnCourse ==
    ASSUME TextInv, [Next]_vars
    PROVE  TurnCourse
  <1> USE StateShapes, KindNames DEF IInv, InputInv, TextInv
  <1>0. /\ state \in StateSet /\ turn \in TurnSet
        /\ readerTarget \in {"none", "path"}
    BY DEF TypeOK
  <1>1. state.kind \notin {"Drinking", "Thinking", "Replying"} => state.rx = NoReq
    BY DEF HoldersOfRequests
  \* A page that is, or becomes, about no turn.
  <1>2. ASSUME state'.kind \notin TurnKinds, state'.rx = NoReq, UNCHANGED <<turn, memory>>,
               ~Live' \/ readerTarget' = "none"
        PROVE  TurnCourse
    BY <1>2 DEF TurnCourse, GivesUp, Unasked
  <1>3. ASSUME UNCHANGED <<turn, lease, memory, state, readerTarget>>, Live' => Live
        PROVE  TurnCourse
    BY <1>3 DEF TurnCourse, Keeps
  <1>4. ASSUME NEW after \in {"input", "redraw"}, Gesture(after), pc \in {"poll", "input"},
               UNCHANGED <<turn, lease, memory>>
        PROVE  TurnCourse
    <2>0. Live /\ pc # "drained"
      BY <1>4 DEF Live
    <2>1. CASE UNCHANGED <<state, readerTarget>>
      BY <1>3, <1>4, <2>0, <2>1
    <2>2. CASE state.kind \in Lists /\ state' = S("Listening") /\ UNCHANGED readerTarget
      <3>1. readerTarget' = "none"
        BY <1>0, <2>0, <2>2 DEF PageRules, Lists
      <3>2. state'.kind \notin TurnKinds /\ state'.rx = NoReq
        BY <2>2 DEF TurnKinds, AfterText, Handoff
      <3> QED
        BY <1>2, <1>4, <3>1, <3>2
    <2>3. CASE state = Open("Help") /\ state' = S("Help") /\ UNCHANGED readerTarget
      <3>1. state'.kind = state.kind /\ state'.rx = state.rx
        BY <2>3
      <3> QED
        BY <1>4, <2>0, <2>3, <3>1 DEF TurnCourse, Keeps
    <2>4. CASE state.kind = "ReaderList" /\ UNCHANGED state
      BY <1>4, <2>0, <2>4 DEF TurnCourse, Keeps
    <2> QED
      BY <1>4, <2>1, <2>2, <2>3, <2>4 DEF Gesture
  <1>5. CASE UNCHANGED vars
    BY <1>3, <1>5 DEF vars, turnVars, Live
  <1>6. CASE \E tool \in {"pen", "eraser"} : SwallowFrame(tool) \/ ModalFrame(tool)
    BY <1>3, <1>6 DEF SwallowFrame, ModalFrame, Frame, turnVars, Live
  <1>7. CASE \E tool \in {"pen", "eraser"} : InkFrame(tool)
    <2>1. /\ UNCHANGED <<turn, lease, memory, readerTarget>> /\ Live
          /\ state.kind = "Listening" /\ state' = Open("Listening")
      BY <1>7 DEF InkFrame, Frame, turnVars, Live, Draw
    <2>2. state'.kind = state.kind /\ state'.rx = state.rx
      BY <1>1, <2>1
    <2> QED
      BY <2>1, <2>2 DEF TurnCourse, Keeps
  <1>8. CASE FadeAnswerFrame
    <2>1. /\ UNCHANGED <<turn, memory, readerTarget>> /\ Live /\ pc # "drained"
          /\ state.kind = "AnswerVisible" /\ state' = S("FadingReply")
      BY <1>8 DEF FadeAnswerFrame, Frame, turnVars, Live
    <2>2. readerTarget' = "none"
      BY <1>0, <2>1 DEF PageRules
    <2>3. state'.kind \notin TurnKinds /\ state'.rx = NoReq
      BY <2>1 DEF TurnKinds, AfterText, Handoff
    <2> QED
      BY <1>2, <2>1, <2>2, <2>3
  <1>9. CASE CancelHeartbeatFrame
    <2>1. state' = Open("Listening") /\ memory' = memory /\ turn' = CancelledTurn
      BY <1>9 DEF CancelHeartbeatFrame, Draw
    <2>2. turn'.reply = {} /\ turn'.kind = "User"
      BY <2>1 DEF CancelledTurn, BlankTurn
    <2>3. state'.kind \notin TurnKinds /\ state'.rx = NoReq
      BY <2>1 DEF TurnKinds, AfterText, Handoff
    <2> QED
      BY <2>1, <2>2, <2>3 DEF TurnCourse, GivesUp
  <1>10. CASE PenUp \/ OrphanGap
    <2>1. PICK after \in {"input", "redraw"} : FinishPen(after)
      BY <1>10 DEF PenUp, OrphanGap
    <2>2. UNCHANGED <<turn, lease, memory>> /\ pc \in {"poll", "input"} /\ Live /\ pc # "drained"
      BY <1>10, <2>1 DEF PenUp, OrphanGap, FinishPen, turnVars, Live
    <2>3. CASE FinishModalPen(after)
      BY <1>4, <2>2, <2>3 DEF FinishModalPen
    <2>4. CASE FinishAwaited(after)
      <3>1. state.kind = "AwaitingPenUp" /\ state' \in {state, S("Listening")}
            /\ UNCHANGED readerTarget
        BY <2>4 DEF FinishAwaited
      <3>2. readerTarget' = "none"
        BY <1>0, <2>2, <3>1 DEF PageRules
      <3>3. state'.kind \notin TurnKinds /\ state'.rx = NoReq
        BY <1>1, <3>1 DEF TurnKinds, AfterText, Handoff
      <3> QED
        BY <1>2, <2>2, <3>2, <3>3
    <2>5. CASE FinishStroke(after)
      <3>1. UNCHANGED readerTarget /\ \/ state' = state
                                      \/ state.kind = "Listening" /\ state' = Open("Listening")
        BY <2>5 DEF FinishStroke
      <3>2. state'.kind = state.kind /\ state'.rx = state.rx
        BY <1>1, <3>1
      <3> QED
        BY <2>2, <3>1, <3>2 DEF TurnCourse, Keeps
    <2> QED
      BY <2>1, <2>3, <2>4, <2>5 DEF FinishPen
  <1>11. CASE FingerDown
    BY <1>3, <1>11 DEF FingerDown, turnVars, Live
  <1>12. CASE FingerUp
    <2>1. /\ UNCHANGED <<turn, lease, memory>> /\ pc \in {"poll", "input"} /\ Live
          /\ Gesture("input") \/ UNCHANGED <<state, readerTarget>>
      BY <1>12 DEF FingerUp, turnVars, Live
    <2> QED
      BY <1>3, <1>4, <2>1
  <1>13. CASE EnterBackground
    <2>1. /\ turn' = BlankTurn /\ memory' = memory /\ state' = Suspended
          /\ readerTarget' = "none"
      BY <1>13 DEF EnterBackground, Suspend
    <2>2. turn'.reply = {} /\ turn'.kind = "User"
      BY <2>1, TurnShapes DEF BlankTurn
    <2>3. CASE state.kind \in Lists \cup {"Help"}
      <3>1. state' = state /\ state.rx = NoReq
        BY <1>1, <2>1, <2>3 DEF Suspended, Lists
      <3> QED
        BY <2>1, <2>2, <2>3, <3>1
           DEF TurnCourse, GivesUp, Excuses, TurnKinds, AfterText, Lists, Handoff
    <2>4. CASE state.kind \notin Lists \cup {"Help"}
      <3>1. state'.kind \notin TurnKinds /\ state'.rx = NoReq
        BY <2>1, <2>4 DEF Suspended, TurnKinds, AfterText, Handoff
      <3> QED
        BY <2>1, <2>2, <3>1 DEF TurnCourse, GivesUp
    <2> QED
      BY <2>3, <2>4
  <1>14. CASE EnterForeground \/ DuplicateForeground \/ SleepAndWake
    BY <1>3, <1>14 DEF EnterForeground, DuplicateForeground, SleepAndWake, turnVars, Live
  <1>15. CASE Stop
    BY <1>3, <1>15 DEF Stop, turnVars, Live
  <1>16. CASE Close
    <2>1. UNCHANGED <<turn, lease, memory, readerTarget>> /\ ~Live' /\ state' = Suspended
      BY <1>16 DEF Close, Suspend, turnVars, Live
    <2>2. CASE state' = state
      BY <1>3, <2>1, <2>2
    <2>3. CASE state' = S("Listening")
      <3>1. state'.kind \notin TurnKinds /\ state'.rx = NoReq
        BY <2>3 DEF TurnKinds, AfterText, Handoff
      <3> QED
        BY <1>2, <2>1, <3>1
    <2> QED
      BY <2>1, <2>2, <2>3 DEF Suspended
  <1>17. CASE Stopped
    BY <1>5, <1>17 DEF Stopped
  <1>18. CASE OpenReaderTarget
    <2>0. UNCHANGED <<turn, lease, memory>> /\ Live /\ readerTarget' = "none"
      BY <1>18 DEF OpenReaderTarget, turnVars, Live
    <2>1. CASE readerTarget = "none"
      BY <1>3, <1>18, <2>0, <2>1 DEF OpenReaderTarget
    <2>2. CASE readerTarget # "none"
      <3>1. state' \in ReaderOutcomes
        BY <1>18, <2>2 DEF OpenReaderTarget
      <3>2. state'.kind \in AfterText /\ state'.rx = NoReq
        BY <3>1, ReaderOutcomeKinds
      <3>3. state.kind \in AfterText
        BY <1>0, <2>0, <2>2 DEF PageRules, AfterText
      <3> QED
        BY <2>0, <3>2, <3>3 DEF TurnCourse, MovesOn
    <2> QED
      BY <2>1, <2>2
  <1>19. CASE Tick
    BY <1>19, TickTurnCourse
  <1> QED
    BY <1>5, <1>6, <1>7, <1>8, <1>9, <1>10, <1>11, <1>12, <1>13, <1>14, <1>15, <1>16, <1>17,
       <1>18, <1>19 DEF Next, PenFrame

-----------------------------------------------------------------------------
(* What a step makes of the generations.                                   *)

\* The generation moves on alone, with everything asked before left as it was,
\* or with a question of its own.
GenCourse ==
    /\ oracleUp' = oracleUp
    /\ \/ captured' = captured /\ gen' \in {gen, gen + 1} /\ spec' \in {spec, NoReq}
       \/ \E ink \in 0..MaxInk : Ask(ink) /\ spec' \in {NoReq, gen + 1}

\* Every step takes this course with the generation, ...
LEMMA StepGenCourse ==
    ASSUME IInv, [Next]_vars
    PROVE  GenCourse
  <1> USE DEF IInv
  <1>0. page \in 0..MaxInk /\ 0 \in 0..MaxInk
    BY EngineAssumption DEF TypeOK
  <1>1. ASSUME UNCHANGED genVars, spec' \in {spec, NoReq}
        PROVE  GenCourse
    BY <1>1 DEF GenCourse, genVars
  <1>2. CASE PenFrame \/ UNCHANGED vars
    <2>1. UNCHANGED genVars /\ spec' \in {spec, NoReq}
      BY <1>2 DEF PenFrame, SwallowFrame, ModalFrame, InkFrame, FadeAnswerFrame,
                  CancelHeartbeatFrame, Draw, specVars, vars
    <2> QED
      BY <1>1, <2>1
  <1>3. CASE PenUp \/ OrphanGap \/ FingerDown \/ FingerUp
    <2>1. UNCHANGED genVars /\ spec' = spec
      BY <1>3 DEF PenUp, OrphanGap, FinishPen, FingerDown, FingerUp, specVars
    <2> QED
      BY <1>1, <2>1
  <1>4. CASE EnterBackground \/ Close
    BY <1>4 DEF EnterBackground, Close, Invalidated, GenCourse
  <1>5. CASE EnterForeground \/ DuplicateForeground \/ SleepAndWake \/ Stop \/ Stopped
             \/ OpenReaderTarget
    <2>1. UNCHANGED genVars /\ spec' = spec
      BY <1>5 DEF EnterForeground, DuplicateForeground, SleepAndWake, Stop, Stopped,
                  OpenReaderTarget, specVars, vars
    <2> QED
      BY <1>1, <2>1
  <1>6. CASE CommitNothing \/ CommitLockFails \/ CommitWithoutOracle
    BY <1>1, <1>6 DEF CommitNothing, CommitLockFails, CommitWithoutOracle
  <1>7. CASE CommitPage
    <2>1. UNCHANGED genVars \/ Ask(page)
      BY <1>7 DEF CommitPage
    <2>2. spec' = NoReq
      BY <1>7 DEF CommitPage
    <2> QED
      BY <1>0, <1>1, <2>1, <2>2 DEF GenCourse, Ask
  <1>8. CASE Preask
    <2>1. UNCHANGED <<genVars, spec>> \/ (Ask(page) /\ spec' = gen + 1)
      BY <1>8 DEF Preask
    <2> QED
      BY <1>0, <1>1, <2>1 DEF GenCourse, Ask
  <1>9. CASE StartHeartbeat
    <2>1. Ask(0) /\ spec' = spec /\ page = 0
      BY <1>9 DEF StartHeartbeat, Quiet, specVars
    <2>2. spec = NoReq
      BY <2>1 DEF SpeculationIsExact
    <2> QED
      BY <1>0, <2>1, <2>2 DEF GenCourse, Ask
  <1>10. CASE Tick /\ ~(CommitNothing \/ CommitLockFails \/ CommitWithoutOracle \/ CommitPage
                         \/ Preask \/ StartHeartbeat)
    <2>1. UNCHANGED genVars /\ spec' = spec
      BY <1>10 DEF Tick, ShowQueuedReply, DrinkPage, ThinkingEnds, FirstDirective,
                   ThinkingTimesOut, FirstEventFails, FirstText, ReplyText, ReplyStreamEnds,
                   CompleteReply, FadingEnds, TimeoutTick, HandoffTick,
                   IdleTick, PlainTick, specVars
    <2> QED
      BY <1>1, <2>1
  <1> QED
    BY <1>2, <1>3, <1>4, <1>5, <1>6, <1>7, <1>8, <1>9, <1>10 DEF Next

-----------------------------------------------------------------------------
(* What a step makes of the ink.                                           *)

\* The ink stays, is wiped, or grows under the pen; it stays while the paper
\* still drinks it and is wiped when it does no more.
PageCourse ==
    /\ \/ page' = page \/ page' = 0
       \/ /\ page' = lastInk + 1 /\ lastInk' = lastInk + 1
          /\ state.kind = "Listening" /\ state'.kind = "Listening"
    /\ lastInk' \in {lastInk, lastInk + 1}
    /\ state.kind = "Drinking" => page' = IF state'.kind = "Drinking" THEN page ELSE 0

\* ... and this one with the ink.
LEMMA StepPageCourse ==
    ASSUME InputInv, ~Takeover, [Next]_vars
    PROVE  PageCourse
  <1> USE StateShapes, KindNames DEF IInv, InputInv
  <1>0. state \in StateSet /\ state.kind \in Kinds /\ state.rx \in 0..MaxGen
    BY DEF TypeOK
  <1>1. ASSUME page' = page, lastInk' = lastInk, state.kind # "Drinking" \/ state'.kind = "Drinking"
        PROVE  PageCourse
    BY <1>1 DEF PageCourse
  <1>2. CASE UNCHANGED vars \/ Stopped
    BY <1>1, <1>2 DEF vars, inkVars, Stopped
  <1>3. CASE PenFrame
    <2>1. CASE \E tool \in {"pen", "eraser"} : SwallowFrame(tool) \/ ModalFrame(tool)
      BY <1>1, <2>1 DEF SwallowFrame, ModalFrame, inkVars
    <2>2. CASE \E tool \in {"pen", "eraser"} : InkFrame(tool)
      BY <2>2 DEF InkFrame, Draw, PageCourse
    <2>3. CASE FadeAnswerFrame
      BY <1>1, <2>3 DEF FadeAnswerFrame, inkVars
    <2>4. CASE CancelHeartbeatFrame
      BY <2>4 DEF CancelHeartbeatFrame, HeartbeatInFlight, PageRules
    <2> QED
      BY <1>3, <2>1, <2>2, <2>3, <2>4 DEF PenFrame
  <1>4. CASE PenUp \/ OrphanGap
    <2>1. PICK after \in {"input", "redraw"} : FinishPen(after)
      BY <1>4 DEF PenUp, OrphanGap
    <2>2. page' = page /\ lastInk' = lastInk
      BY <2>1 DEF FinishPen
    <2>3. state.kind # "Drinking" \/ state' = state
      BY <2>1 DEF FinishPen, FinishModalPen, FinishAwaited, FinishStroke, Gesture, Lists
    <2> QED
      BY <1>1, <2>2, <2>3
  <1>5. CASE FingerDown \/ FingerUp
    <2>1. page' = page /\ lastInk' = lastInk
      BY <1>5 DEF FingerDown, FingerUp, inkVars
    <2>2. state.kind # "Drinking" \/ state' = state
      BY <1>5 DEF FingerDown, FingerUp, Gesture, Lists
    <2> QED
      BY <1>1, <2>1, <2>2
  <1>6. CASE EnterBackground \/ Close
    <2>1. Suspend /\ lastInk' = lastInk
      BY <1>6 DEF EnterBackground, Close
    <2>2. state.kind = "Drinking" => state'.kind = "Listening" /\ page' = 0
      BY <2>1 DEF Suspend, Suspended, Lists
    <2>3. page' \in {page, 0}
      BY <2>1 DEF Suspend
    <2> QED
      BY <2>1, <2>2, <2>3 DEF PageCourse
  <1>7. CASE EnterForeground \/ DuplicateForeground \/ SleepAndWake \/ Stop
    <2>1. UNCHANGED <<page, lastInk, state>>
      BY <1>7 DEF EnterForeground, DuplicateForeground, SleepAndWake, Stop, inkVars
    <2> QED
      BY <1>1, <2>1
  <1>8. CASE OpenReaderTarget
    <2>1. UNCHANGED <<page, lastInk>> /\ Live
      BY <1>8 DEF OpenReaderTarget, inkVars, Live
    <2>2. state.kind = "Drinking" => readerTarget = "none"
      BY <2>1 DEF PageRules, TypeOK
    <2> QED
      BY <1>1, <1>8, <2>1, <2>2 DEF OpenReaderTarget
  <1>9. CASE Tick
    <2>1. lastInk' = lastInk
      BY <1>9, TickCourse DEF TickTo, LockRefused, inkVars
    <2>2. CASE CommitNothing \/ CommitWithoutOracle
      BY <2>1, <2>2 DEF CommitNothing, CommitWithoutOracle, PageCourse
    <2>3. CASE DrinkPage
      <3>1. With("Thinking", state.rx) \in StateSet /\ With("Thinking", state.rx).kind = "Thinking"
        <4>1. "Thinking" \in Kinds
          BY KindNames
        <4> QED
          BY <1>0, <4>1, StateShapes
      <3>2. state'.kind = "Thinking" /\ page' = 0
        BY <2>3, <3>1, TickOutcome DEF DrinkPage
      <3> QED
        BY <2>1, <3>2 DEF PageCourse
    <2>4. CASE IdleTick
      <3>1. page' = page /\ TickTo(state)
        BY <2>4 DEF IdleTick, PlainTick
      <3>2. state.kind # "Drinking" \/ state' = state
        BY <1>0, <3>1, TickLands
      <3> QED
        BY <1>1, <2>1, <3>1, <3>2
    <2>5. CASE CommitLockFails \/ CommitPage \/ Preask \/ ShowQueuedReply \/ StartHeartbeat
      <3>1. state.kind = "Listening" /\ page' = page
        BY <2>5 DEF CommitLockFails, CommitPage, Preask, ShowQueuedReply, StartHeartbeat, Quiet,
                    inkVars
      <3> QED
        BY <1>1, <2>1, <3>1
    <2>6. CASE ThinkingEnds \/ FirstDirective \/ ThinkingTimesOut \/ FirstEventFails \/ FirstText
               \/ ReplyText \/ ReplyStreamEnds \/ CompleteReply
      <3>1. state.kind \in {"Thinking", "Replying"} /\ page' = page
        BY <2>6 DEF ThinkingEnds, FirstDirective, ThinkingTimesOut, FirstEventFails, FirstText,
                    ReplyText, ReplyStreamEnds, CompleteReply, PlainTick,
                    inkVars
      <3> QED
        BY <1>1, <2>1, <3>1
    <2>7. CASE FadingEnds \/ TimeoutTick \/ HandoffTick
      <3>1. state.kind # "Drinking" /\ page' = page
        BY <2>7 DEF FadingEnds, TimeoutTick, HandoffTick, PlainTick, S, Open
      <3> QED
        BY <1>1, <2>1, <3>1
    <2> QED
      BY <1>9, <2>2, <2>3, <2>4, <2>5, <2>6, <2>7 DEF Tick
  <1> QED
    BY <1>2, <1>3, <1>4, <1>5, <1>6, <1>7, <1>8, <1>9 DEF Next

-----------------------------------------------------------------------------
(* Text and lease.                                                         *)

\* One answer, one request; a request, an oracle; a scheduled turn, its lease.
LEMMA TextStep ==
    ASSUME TextInv, [Next]_vars
    PROVE  /\ OneRequestPerAnswer' /\ Unasked' /\ Leased'
  <1> USE DEF IInv, InputInv, TextInv
  <1>0. /\ oracleUp' = oracleUp /\ turn \in TurnSet /\ state.rx \in 0..MaxGen
        /\ readerTarget \in {"none", "path"}
    BY StepGenCourse, StateShapes DEF GenCourse, TypeOK
  <1>1. CASE Keeps
    <2>1. /\ turn' = turn /\ lease' = lease /\ state'.kind = state.kind /\ state'.rx = state.rx
          /\ readerTarget' = readerTarget \/ state.kind = "ReaderList"
          /\ Live' => Live
      BY <1>1 DEF Keeps
    <2>2. OneRequestPerAnswer' /\ Unasked'
      BY <1>0, <2>1 DEF OneRequestPerAnswer, Unasked
    <2>4. Leased'
      BY <2>1 DEF Leased, TurnKinds, AfterText
    <2> QED
      BY <2>2, <2>4
  <1>2. CASE GivesUp
    <2>1. OneRequestPerAnswer'
      BY <1>2 DEF GivesUp, OneRequestPerAnswer, TurnKinds, AfterText
    <2>2. Unasked'
      BY <1>0, <1>2 DEF GivesUp, Unasked
    <2>4. Leased'
      BY <1>2 DEF GivesUp, Leased
    <2> QED
      BY <2>1, <2>2, <2>4
  <1>3. CASE Excuses
    <2>1. OneRequestPerAnswer'
      BY <1>3 DEF Excuses, OneRequestPerAnswer
    <2>2. Unasked'
      BY <1>0, <1>3 DEF Excuses, Unasked
    <2>4. Leased'
      BY <1>3 DEF Excuses, Leased, TurnKinds
    <2> QED
      BY <2>1, <2>2, <2>4
  <1>4. CASE MovesOn
    <2>1. OneRequestPerAnswer'
      BY <1>4 DEF MovesOn, OneRequestPerAnswer, AfterText, Handoff
    <2>2. Unasked'
      BY <1>0, <1>4 DEF MovesOn, Unasked
    <2>4. Leased'
      BY <1>4 DEF MovesOn, Leased, TurnKinds
    <2> QED
      BY <2>1, <2>2, <2>4
  <1>5. CASE Schedules
    <2>1. OneRequestPerAnswer'
      BY <1>5 DEF Schedules, OneRequestPerAnswer
    <2>2. Unasked' /\ Leased'
      BY <1>0, <1>5 DEF Schedules, Unasked, Leased
    <2> QED
      BY <2>1, <2>2
  <1>6. CASE Drinks
    <2>0. state'.kind = "Thinking" /\ state'.rx = state.rx
      <3>1. "Thinking" \in Kinds
        BY KindNames
      <3> QED
        BY <1>0, <1>6, <3>1, StateShapes DEF Drinks
    <2>1. OneRequestPerAnswer'
      BY <1>6, <2>0 DEF Drinks, OneRequestPerAnswer
    <2>2. Unasked'
      BY <1>0, <1>6, <2>0 DEF Drinks, Unasked
    <2>3. Leased'
      BY <1>6 DEF Drinks, Leased, TurnKinds
    <2> QED
      BY <2>1, <2>2, <2>3
  <1>7. CASE Speaks
    <2>0. turn'.reply = turn.reply \cup {state.rx} /\ turn'.kind = turn.kind
      BY <1>0, <1>7 DEF Speaks, TurnSet
    <2>1. OneRequestPerAnswer'
      BY <1>7, <2>0 DEF Speaks, OneRequestPerAnswer
    <2>2. Unasked'
      BY <1>0, <1>7, <2>0 DEF Speaks, Unasked
    <2>3. Leased'
      BY <1>7, <2>0 DEF Speaks, Leased, TurnKinds, AfterText
    <2> QED
      BY <2>1, <2>2, <2>3
  <1>8. CASE Remembers
    <2>1. OneRequestPerAnswer'
      BY <1>8 DEF Remembers, OneRequestPerAnswer
    <2>2. Unasked' /\ Leased'
      BY <1>0, <1>8 DEF Remembers, Unasked, Leased, TurnKinds, AfterText, Handoff
    <2> QED
      BY <2>1, <2>2
  <1>9. ASSUME NEW g \in 1..MaxGen, Commits(g)
        PROVE  OneRequestPerAnswer' /\ Unasked' /\ Leased'
    <2>0. state'.kind = "Drinking" /\ turn'.reply = {} /\ turn'.kind = "User"
      <3>1. "Drinking" \in Kinds /\ g \in 0..MaxGen
        BY KindNames
      <3>2. state'.kind = "Drinking"
        BY <1>9, <3>1, StateShapes DEF Commits
      <3>3. turn'.reply = {} /\ turn'.kind = "User"
        BY <1>9 DEF Commits, UserTurn, BlankTurn
      <3> QED
        BY <3>2, <3>3
    <2>1. oracleUp
      BY <1>9 DEF Commits
    <2> QED
      BY <1>0, <1>9, <2>0, <2>1 DEF Commits, OneRequestPerAnswer, Unasked, Leased
  <1> QED
    BY <1>1, <1>2, <1>3, <1>4, <1>5, <1>6, <1>7, <1>8, <1>9, StepTurnCourse DEF TurnCourse

-----------------------------------------------------------------------------
(* The turn in progress and what is remembered.                            *)

\* What was asked before stays what it was.
LEMMA AskedStays ==
    ASSUME IInv, GenCourse, NEW id \in 1..gen, id \in Gens
    PROVE  id \in 1..gen' /\ captured'[id] = captured[id]
  <1>0. gen \in Nat /\ captured \in [Gens -> 0..MaxInk]
    BY DEF IInv, TypeOK
  <1>1. CASE captured' = captured /\ gen' \in {gen, gen + 1}
    BY <1>0, <1>1
  <1>2. ASSUME NEW ink \in 0..MaxInk, Ask(ink)
        PROVE  id \in 1..gen' /\ captured'[id] = captured[id]
    <2>1. gen' = gen + 1 /\ captured' = [captured EXCEPT ![gen + 1] = ink]
      BY <1>2 DEF Ask
    <2>2. id # gen + 1
      BY <1>0
    <2> QED
      BY <1>0, <2>1, <2>2
  <1> QED
    BY <1>1, <1>2 DEF GenCourse

\* A turn in progress is on one of its pages.
LEMMA TurnPages ==
    ASSUME TextInv
    PROVE  /\ InTurn => state.kind \in TurnKinds
           /\ state.kind \in {"Drinking", "Thinking"} => InTurn
           /\ state.rx # NoReq => InTurn
           /\ InTurn /\ state.kind \in AfterText => turn.reply # {}
           /\ turn.reply # {} /\ state.kind \in AfterText => InTurn
  <1>1. state.rx # NoReq => state.kind \in {"Drinking", "Thinking", "Replying"}
    BY DEF TextInv, InputInv, IInv, HoldersOfRequests
  <1>2. state.kind \in {"Drinking", "Thinking"} => state.rx # NoReq
    BY DEF TextInv, InputInv, IInv, HoldersOfRequests
  <1>3. state.kind = "Replying" /\ state.rx # NoReq => turn.reply # {}
    BY DEF TextInv, OneRequestPerAnswer
  <1>4. InTurn => state.kind \in TurnKinds
    BY DEF InTurn, TurnKinds, AfterText
  <1>5. /\ state.kind \in {"Drinking", "Thinking"} => InTurn
        /\ state.rx # NoReq => InTurn
    BY <1>1, <1>2 DEF InTurn
  <1>6. InTurn /\ state.kind \in AfterText => turn.reply # {}
    BY <1>3 DEF InTurn, AfterText, Handoff
  <1>7. turn.reply # {} /\ state.kind \in AfterText => InTurn
    BY DEF InTurn, AfterText
  <1> QED
    BY <1>4, <1>5, <1>6, <1>7

\* A page that drinks or thinks after a step is still about a turn.
LEMMA DrinkersAsk ==
    ASSUME TextInv, [Next]_vars, state'.kind \in {"Drinking", "Thinking"}
    PROVE  InTurn'
  <1>1. HoldersOfRequests'
    BY StepIInv DEF TextInv, InputInv, IInv
  <1> QED
    BY <1>1 DEF HoldersOfRequests, InTurn

\* What a step does to InTurn, and to what a turn is known by.
TurnGoesOn ==
    /\ InTurn /\ InTurn'
    /\ turn'.id = turn.id /\ turn'.strokes = turn.strokes /\ turn'.kind = turn.kind
    /\ memory' = memory
    /\ state'.rx \in {state.rx, NoReq} /\ turn'.reply \subseteq turn.reply \cup ({state.rx} \ {NoReq})
    /\ \/ Drinks
       \/ state'.kind = state.kind
       \/ state.kind \in TurnKinds \ {"Drinking"} /\ state'.kind # "Drinking"

\* A turn goes on, begins, is remembered, or there is none after the step.
LEMMA TurnFate ==
    ASSUME TextInv, [Next]_vars
    PROVE  \/ TurnGoesOn
           \/ ~InTurn' /\ memory' = memory
           \/ InTurn' /\ turn'.kind = "Heartbeat" /\ Schedules
           \/ ~InTurn' /\ InTurn /\ Remembers
           \/ \E g \in 1..MaxGen : Commits(g)
  <1> USE DEF TurnKinds, AfterText, Handoff
  <1>0. turn \in TurnSet /\ state \in StateSet /\ state.rx \in 0..MaxGen
    BY StateShapes DEF TextInv, InputInv, IInv, TypeOK
  <1>1. CASE Keeps
    <2>1. InTurn' = InTurn
      BY <1>1 DEF Keeps, InTurn
    <2> QED
      BY <1>1, <2>1 DEF Keeps, TurnGoesOn
  <1>2. CASE GivesUp
    BY <1>2 DEF GivesUp, InTurn
  <1>3. CASE Excuses
    BY <1>3 DEF Excuses, InTurn
  <1>4. CASE MovesOn
    <2>1. CASE turn.reply = {}
      <3>1. ~InTurn'
        BY <1>4, <2>1 DEF MovesOn, InTurn
      <3> QED
        BY <1>4, <3>1 DEF MovesOn
    <2>2. CASE turn.reply # {}
      <3>1. InTurn /\ InTurn'
        BY <1>4, <2>2 DEF MovesOn, InTurn
      <3> QED
        BY <1>4, <3>1 DEF MovesOn, TurnGoesOn
    <2> QED
      BY <2>1, <2>2
  <1>5. CASE Schedules
    <2>1. gen \in Nat
      BY DEF TextInv, InputInv, IInv, TypeOK
    <2>2. state'.rx # NoReq
      BY <1>5, <2>1 DEF Schedules, NoReq
    <2> QED
      BY <1>5, <2>2 DEF Schedules, InTurn
  <1>6. CASE Drinks
    <2>1. /\ state'.kind = "Thinking" /\ state'.rx = state.rx
      <3>1. "Thinking" \in Kinds
        BY KindNames
      <3> QED
        BY <1>0, <1>6, <3>1, StateShapes DEF Drinks
    <2>2. state.rx # NoReq /\ InTurn
      BY <1>6, TurnPages DEF Drinks, TextInv, InputInv, IInv, HoldersOfRequests
    <2> QED
      BY <1>6, <2>1, <2>2 DEF Drinks, TurnGoesOn, InTurn
  <1>7. CASE Speaks
    <2>1. InTurn
      BY <1>7, TurnPages DEF Speaks
    <2>2. /\ turn'.id = turn.id /\ turn'.strokes = turn.strokes /\ turn'.kind = turn.kind
          /\ turn'.reply = turn.reply \cup {state.rx} /\ state.rx # NoReq /\ memory' = memory
      BY <1>0, <1>7 DEF Speaks, TurnSet
    <2>3. InTurn'
      BY <1>7, <2>2 DEF Speaks, InTurn
    <2> QED
      BY <1>7, <2>1, <2>2, <2>3 DEF Speaks, TurnGoesOn
  <1>8. CASE Remembers
    <2>1. ~InTurn'
      BY <1>8 DEF Remembers, InTurn
    <2>2. InTurn
      BY <1>8 DEF Remembers, InTurn
    <2> QED
      BY <1>8, <2>1, <2>2
  <1> QED
    BY <1>1, <1>2, <1>3, <1>4, <1>5, <1>6, <1>7, <1>8, StepTurnCourse DEF TurnCourse

\* What a commit fixes: the turn's number, its strokes and its request agree.
LEMMA CommitFixes ==
    ASSUME TextInv, MemoryMatches, NEW g \in 1..MaxGen, Commits(g)
    PROVE  /\ InTurn' /\ state'.kind = "Drinking" /\ state'.rx = g /\ memory' = memory
           /\ turn'.id = g /\ turn'.strokes = page /\ turn'.reply = {}
           /\ turn'.kind = "User" /\ page \in 1..MaxInk /\ page' = page
           /\ g \in 1..gen' /\ captured'[g] = page
           /\ \A m \in memory : m.turn # g
  <1> USE DEF TextInv, InputInv, IInv
  <1>0. gen \in Nat /\ page \in 1..MaxInk
    BY DEF TypeOK, Commits
  <1>1. state'.kind = "Drinking" /\ state'.rx = g
    <2>1. "Drinking" \in Kinds /\ g \in 0..MaxGen
      BY KindNames
    <2> QED
      BY <2>1, StateShapes DEF Commits
  <1>2. /\ turn'.id = g /\ turn'.strokes = page /\ turn'.reply = {} /\ turn'.kind = "User"
    BY DEF Commits, UserTurn, BlankTurn
  <1>3. g \in 1..gen' /\ captured'[g] = page /\ \A m \in memory : m.turn # g
    <2>1. CASE g = spec /\ spec # NoReq /\ UNCHANGED genVars
      BY <1>0, <2>1 DEF SpeculationIsExact, MemoryMatches, genVars
    <2>2. CASE g = gen + 1 /\ Ask(page)
      <3>1. gen' = g /\ captured'[g] = page
        BY <1>0, <2>2, AskShapes
      <3>2. \A m \in memory : m.turn # g
        BY <1>0, <2>2 DEF MemoryMatches
      <3> QED
        BY <3>1, <3>2
    <2> QED
      BY <2>1, <2>2 DEF Commits
  <1>4. InTurn' /\ memory' = memory /\ page' = page
    BY <1>1 DEF InTurn, Commits, NoReq
  <1> QED
    BY <1>0, <1>1, <1>2, <1>3, <1>4

\* The turn in progress stays what its request carries.
LEMMA TurnMatchesStep ==
    ASSUME TextInv, TurnMatches, MemoryMatches, [Next]_vars
    PROVE  TurnMatches'
  <1> SUFFICES ASSUME turn'.kind = "User", InTurn'
               PROVE  /\ turn'.id \in 1..gen' /\ turn'.strokes = captured'[turn'.id]
                      /\ turn'.strokes # 0
                      /\ state'.rx \in {NoReq, turn'.id} /\ turn'.reply \subseteq {turn'.id}
                      /\ \A m \in memory' : m.turn # turn'.id
    BY DEF TurnMatches
  <1>1. CASE TurnGoesOn
    <2>1. /\ turn.id \in 1..gen /\ turn.strokes = captured[turn.id] /\ turn.strokes # 0
          /\ state.rx \in {NoReq, turn.id} /\ turn.reply \subseteq {turn.id}
          /\ \A m \in memory : m.turn # turn.id
      BY <1>1 DEF TurnMatches, TurnGoesOn
    <2>2. turn.id \in Gens
      <3>1. turn.id \in 0..MaxGen /\ gen \in Nat
        BY TurnShapes DEF TextInv, InputInv, IInv, TypeOK
      <3> QED
        BY <2>1, <3>1 DEF Gens
    <2>3. turn.id \in 1..gen' /\ captured'[turn.id] = captured[turn.id]
      BY <2>1, <2>2, AskedStays, StepGenCourse DEF TextInv, InputInv
    <2> QED
      BY <1>1, <2>1, <2>3 DEF TurnGoesOn
  <1>2. ASSUME NEW g \in 1..MaxGen, Commits(g)
        PROVE  /\ turn'.id \in 1..gen' /\ turn'.strokes = captured'[turn'.id]
               /\ turn'.strokes # 0
               /\ state'.rx \in {NoReq, turn'.id} /\ turn'.reply \subseteq {turn'.id}
               /\ \A m \in memory' : m.turn # turn'.id
    BY <1>2, CommitFixes
  <1> QED
    BY <1>1, <1>2, TurnFate

\* What is remembered stays true, and only the turn just answered is added.
LEMMA MemoryMatchesStep ==
    ASSUME TextInv, TurnMatches, MemoryMatches, [Next]_vars
    PROVE  MemoryMatches'
  <1> USE DEF TextInv, InputInv
  <1>0. gen \in Nat /\ GenCourse
    BY StepGenCourse DEF IInv, TypeOK
  <1>1. ASSUME NEW m \in memory
        PROVE  /\ m.turn \in Gens /\ m.reply = {m.turn} /\ m.strokes # 0
               /\ m.turn \in 1..gen' /\ m.strokes = captured'[m.turn]
               /\ spec' # NoReq => m.turn # spec'
    <2>1. /\ m.turn \in Gens /\ m.reply = {m.turn} /\ m.strokes # 0 /\ m.turn \in 1..gen
          /\ m.strokes = captured[m.turn] /\ (spec # NoReq => m.turn # spec)
      BY DEF MemoryMatches, MemoryPairsOneTurn
    <2>2. m.turn \in 1..gen' /\ captured'[m.turn] = captured[m.turn]
      BY <1>0, <2>1, AskedStays
    <2>3. spec' \in {spec, NoReq, gen + 1}
      BY <1>0 DEF GenCourse
    <2>4. spec' # NoReq => m.turn # spec'
      BY <1>0, <2>1, <2>3
    <2> QED
      BY <2>1, <2>2, <2>4
  <1>2. \A m, n \in memory : n.turn = m.turn => n = m
    BY DEF MemoryMatches, MemoryPairsOneTurn
  <1>3. CASE memory' = memory
    BY <1>1, <1>2, <1>3 DEF MemoryMatches, MemoryPairsOneTurn
  <1>4. CASE InTurn /\ Remembers
    <2> DEFINE new == [turn |-> turn.id, strokes |-> turn.strokes,
                       whole |-> turn.whole, reply |-> turn.reply]
    <2>1. /\ turn.id \in 1..gen /\ turn.strokes = captured[turn.id] /\ turn.strokes # 0
          /\ turn.reply \subseteq {turn.id} /\ turn.reply # {}
          /\ \A m \in memory : m.turn # turn.id
      BY <1>4 DEF TurnMatches, Remembers
    <2>2. turn.id \in Gens
      <3>1. turn.id \in 0..MaxGen
        BY TurnShapes DEF IInv, TypeOK
      <3> QED
        BY <1>0, <2>1, <3>1 DEF Gens
    <2>3. turn.id \in 1..gen' /\ captured'[turn.id] = captured[turn.id]
      BY <1>0, <2>1, <2>2, AskedStays
    <2>4. spec' # NoReq => turn.id # spec'
      <3>1. spec = NoReq
        BY <1>4 DEF IInv, SpeculationIsExact, Remembers
      <3>2. spec' \in {NoReq, gen + 1}
        BY <1>0, <3>1 DEF GenCourse
      <3> QED
        BY <1>0, <2>1, <3>2
    <2>5. /\ new.turn = turn.id /\ new.strokes = turn.strokes /\ new.reply = {turn.id}
      BY <2>1
    <2>6. memory' = memory \cup {new}
      BY <1>4 DEF Remembers
    <2> HIDE DEF new
    <2>7. \A m \in memory' : /\ m.turn \in Gens /\ m.reply = {m.turn}
                             /\ m.strokes = captured'[m.turn] /\ m.strokes # 0
                             /\ m.turn \in 1..gen' /\ (spec' # NoReq => m.turn # spec')
      BY <1>1, <2>1, <2>2, <2>3, <2>4, <2>5, <2>6
    <2>8. \A m, n \in memory' : n.turn = m.turn => n = m
      BY <1>2, <2>1, <2>5, <2>6
    <2> QED
      BY <2>7, <2>8 DEF MemoryMatches, MemoryPairsOneTurn
  <1>5. \A g \in 1..MaxGen : Commits(g) => memory' = memory
    BY DEF Commits
  <1> QED
    BY <1>3, <1>4, <1>5, TurnFate DEF TurnGoesOn, Schedules

-----------------------------------------------------------------------------
(* Ink that was asked about.                                               *)

\* Ink asked about or remembered never lies on the paper again.
LEMMA InkIsSpentStep ==
    ASSUME TextInv, TurnMatches, MemoryMatches, InkIsSpent, [Next]_vars
    PROVE  InkIsSpent'
  <1> SUFFICES ASSUME ~Takeover
               PROVE  /\ page' <= lastInk'
                      /\ \A m \in memory' : m.strokes <= lastInk' /\ (page' # 0 => m.strokes # page')
                      /\ InTurn' => /\ captured'[turn'.id] <= lastInk'
                                    /\ \A m \in memory' : m.strokes # captured'[turn'.id]
                                    /\ state'.kind # "Drinking" => page' = 0
    BY DEF InkIsSpent
  <1> USE DEF TextInv, InputInv
  <1>0. /\ lastInk \in Nat /\ page \in Nat /\ PageCourse /\ GenCourse
        /\ turn.kind = "User" /\ turn'.kind = "User"
        /\ \A m \in memory : m.strokes \in Nat
    <2>1. \A m \in memory : m.strokes \in 0..MaxInk
      BY DEF IInv, TypeOK, Page
    <2> QED
      BY <2>1, StepPageCourse, StepGenCourse, WritersTurn DEF IInv, TypeOK, PageRules
  <1>1. page' <= lastInk' /\ lastInk <= lastInk'
    BY <1>0 DEF PageCourse, InkIsSpent
  <1>2. ASSUME NEW m \in memory
        PROVE  m.strokes <= lastInk' /\ (page' # 0 => m.strokes # page')
    <2>1. m.strokes <= lastInk /\ (page # 0 => m.strokes # page)
      BY DEF InkIsSpent
    <2> QED
      BY <1>0, <2>1 DEF PageCourse
  <1>3. CASE TurnGoesOn
    <2>1. /\ captured[turn.id] <= lastInk /\ \A m \in memory : m.strokes # captured[turn.id]
          /\ state.kind # "Drinking" => page = 0
      BY <1>3 DEF TurnGoesOn, InkIsSpent
    <2>2. captured'[turn'.id] = captured[turn.id] /\ captured[turn.id] \in Nat
      <3>1. turn.id \in 1..gen /\ turn.id \in 0..MaxGen /\ gen \in Nat
        BY <1>0, <1>3, TurnShapes DEF TurnMatches, TurnGoesOn, IInv, TypeOK
      <3>2. turn.id \in Gens
        BY <3>1 DEF Gens
      <3>3. captured'[turn.id] = captured[turn.id] /\ captured[turn.id] \in 0..MaxInk
        BY <1>0, <3>1, <3>2, AskedStays DEF IInv, TypeOK
      <3> QED
        BY <1>3, <3>3 DEF TurnGoesOn
    <2>3. state'.kind # "Drinking" => page' = 0
      <3>1. CASE state.kind = "Drinking"
        BY <1>0, <3>1 DEF PageCourse
      <3>2. CASE state.kind # "Drinking"
        <4>1. page = 0 /\ state.kind # "Listening"
          BY <1>3, <2>1, <3>2, TurnPages DEF TurnGoesOn, TurnKinds, AfterText, Handoff
        <4> QED
          BY <1>0, <4>1 DEF PageCourse
      <3> QED
        BY <3>1, <3>2
    <2>4. memory' = memory /\ captured'[turn'.id] <= lastInk'
      BY <1>0, <1>3, <2>1, <2>2 DEF TurnGoesOn, PageCourse
    <2> QED
      BY <1>1, <1>2, <2>1, <2>2, <2>3, <2>4
  <1>4. CASE ~InTurn' /\ memory' = memory
    BY <1>1, <1>2, <1>4
  <1>5. CASE ~InTurn' /\ InTurn /\ Remembers
    <2>1. /\ turn.strokes = captured[turn.id] /\ captured[turn.id] <= lastInk
          /\ captured[turn.id] \in Nat /\ page = 0 /\ state.kind = "Replying"
      <3>1. turn.id \in 1..gen /\ turn.id \in 0..MaxGen /\ gen \in Nat
        BY <1>0, <1>5, TurnShapes DEF TurnMatches, IInv, TypeOK
      <3>2. captured[turn.id] \in 0..MaxInk
        BY <3>1 DEF IInv, TypeOK, Gens
      <3> QED
        BY <1>0, <1>5, <3>2 DEF TurnMatches, InkIsSpent, Remembers
    <2>2. page' = 0
      BY <1>0, <2>1 DEF PageCourse
    <2>3. \A m \in memory' : m \in memory \/ m.strokes = turn.strokes
      BY <1>5 DEF Remembers
    <2>4. turn.strokes <= lastInk'
      BY <1>0, <1>1, <2>1 DEF PageCourse
    <2> QED
      BY <1>1, <1>2, <1>5, <2>2, <2>3, <2>4
  <1>6. ASSUME NEW g \in 1..MaxGen, Commits(g)
        PROVE  /\ captured'[turn'.id] <= lastInk' /\ memory' = memory
               /\ \A m \in memory' : m.strokes # captured'[turn'.id]
               /\ state'.kind = "Drinking"
    <2>1. /\ memory' = memory /\ captured'[turn'.id] = page /\ page # 0
          /\ page' = page /\ state'.kind = "Drinking"
      BY <1>6, CommitFixes
    <2> QED
      BY <1>1, <1>2, <2>1
  <1> QED
    BY <1>0, <1>1, <1>2, <1>3, <1>4, <1>5, <1>6, TurnFate

-----------------------------------------------------------------------------
(* The promise.                                                            *)

remembered == {m.strokes : m \in memory}

\* A hosted step does to page, question and memory what Dialogue allows.
LEMMA PromiseStep ==
    ASSUME TurnInv, ~Takeover, [Next]_vars
    PROVE  [Promise!Next]_<<page, asking, remembered>>
  <1> USE DEF TurnInv, TextInv, InputInv
  <1>0. /\ lastInk \in Nat /\ page \in 0..MaxInk /\ page' \in 0..MaxInk /\ PageCourse /\ GenCourse
        /\ turn.kind = "User" /\ turn'.kind = "User"
    <2>1. TypeOK'
      BY StepIInv DEF IInv
    <2> QED
      BY <2>1, StepPageCourse, StepGenCourse, WritersTurn DEF IInv, TypeOK, PageRules
  <1>1. memory' = memory => remembered' = remembered
    BY DEF remembered
  <1>2. InTurn => /\ asking = captured[turn.id] /\ asking # 0 /\ asking = turn.strokes
                  /\ asking \notin remembered
                  /\ state.kind = "Drinking" => page = asking
                  /\ state.kind # "Drinking" => page = 0
                  /\ state.kind # "Listening"
    <2> SUFFICES ASSUME InTurn
                 PROVE  /\ asking = captured[turn.id] /\ asking # 0 /\ asking = turn.strokes
                        /\ asking \notin remembered
                        /\ state.kind = "Drinking" => page = asking
                        /\ state.kind # "Drinking" => page = 0
                        /\ state.kind # "Listening"
      OBVIOUS
    <2>1. /\ turn.strokes = captured[turn.id] /\ turn.strokes # 0
          /\ state.rx \in {NoReq, turn.id}
      BY <1>0 DEF TurnMatches
    <2>2. asking = captured[turn.id]
      BY DEF asking
    <2>3. asking \notin remembered
      BY <2>2 DEF InkIsSpent, remembered
    <2>4. state.kind = "Drinking" => page = asking
      BY <2>1, <2>2 DEF IInv, HoldersOfRequests, HeldTurnIsCurrent
    <2>5. state.kind # "Drinking" => page = 0
      BY DEF InkIsSpent
    <2>6. state.kind # "Listening"
      BY TurnPages DEF TurnKinds, AfterText, Handoff
    <2> QED
      BY <2>1, <2>2, <2>3, <2>4, <2>5, <2>6
  <1>3. /\ ~InTurn => asking = 0
        /\ ~InTurn' => asking' = 0
        /\ InTurn' => asking' = captured'[turn'.id]
    BY DEF asking
  \* Nothing is asked, before or after: the pen writes, or a page is wiped.
  <1>4. CASE ~InTurn /\ ~InTurn' /\ memory' = memory
    <2>1. CASE page' = page
      BY <1>1, <1>3, <1>4, <2>1
    <2>2. CASE page' # page
      <3>1. page' # 0 => page' > page
        BY <1>0, <2>2 DEF PageCourse, InkIsSpent
      <3>2. page' \in (1..MaxInk \cup {0}) \ {page}
        BY <1>0, <2>2
      <3> QED
        BY <1>1, <1>3, <1>4, <3>1, <3>2 DEF Promise!Next, Promise!Write
    <2> QED
      BY <2>1, <2>2
  \* A question is given up, and its ink is not on the paper.
  <1>5. CASE InTurn /\ ~InTurn' /\ memory' = memory
    <2>1. page' = 0
      <3>1. state'.kind \in {"Drinking", "Thinking"} => InTurn'
        BY <1>5, DrinkersAsk
      <3> QED
        BY <1>0, <1>2, <1>5, <3>1 DEF PageCourse
    <2> QED
      BY <1>1, <1>2, <1>3, <1>5, <2>1 DEF Promise!Next, Promise!Abandon
  \* The answer is remembered with the strokes it was asked about.
  <1>6. CASE ~InTurn' /\ InTurn /\ Remembers
    <2>1. state.kind = "Replying" /\ page = 0 /\ page' = 0
      BY <1>0, <1>2, <1>6 DEF Remembers, PageCourse
    <2>2. remembered' = remembered \cup {asking}
      <3> DEFINE new == [turn |-> turn.id, strokes |-> turn.strokes,
                         whole |-> turn.whole, reply |-> turn.reply]
      <3>1. memory' = memory \cup {new} /\ new.strokes = asking
        BY <1>2, <1>6 DEF Remembers
      <3> HIDE DEF new
      <3> QED
        BY <3>1 DEF remembered
    <2>3. asking # 0 /\ asking \notin remembered /\ asking' = 0
      BY <1>2, <1>3, <1>6
    <2> QED
      BY <2>1, <2>2, <2>3 DEF Promise!Next, Promise!Remember, remembered
  \* The question goes on; the paper may drink the ink it is about.
  <1>7. CASE TurnGoesOn
    <2>1. asking' = asking /\ remembered' = remembered
      <3>1. turn.id \in 1..gen /\ turn.id \in 0..MaxGen /\ gen \in Nat
        BY <1>0, <1>7, TurnShapes DEF TurnMatches, TurnGoesOn, IInv, TypeOK
      <3>2. turn.id \in Gens
        BY <3>1 DEF Gens
      <3>3. captured'[turn.id] = captured[turn.id]
        BY <1>0, <3>1, <3>2, AskedStays
      <3> QED
        BY <1>1, <1>2, <1>3, <1>7, <3>3 DEF TurnGoesOn
    <2>2. CASE page' = page
      BY <2>1, <2>2
    <2>3. CASE page' # page
      <3>1. state.kind = "Drinking" /\ page' = 0
        BY <1>0, <1>2, <1>7, <2>3 DEF PageCourse, TurnGoesOn
      <3>2. page = asking /\ asking # 0
        BY <1>2, <1>7, <3>1 DEF TurnGoesOn
      <3> QED
        BY <2>1, <3>1, <3>2 DEF Promise!Next, Promise!Absorb, remembered
    <2> QED
      BY <2>2, <2>3
  \* A question is asked about all of the page.
  <1>8. ASSUME NEW g \in 1..MaxGen, Commits(g)
        PROVE  [Promise!Next]_<<page, asking, remembered>>
    <2>1. /\ InTurn' /\ memory' = memory /\ captured'[turn'.id] = page /\ page # 0 /\ page' = page
      BY <1>8, CommitFixes
    <2>2. asking = 0 /\ asking' = page
      BY <1>2, <1>3, <1>8, <2>1 DEF Commits
    <2> QED
      BY <1>1, <2>1, <2>2 DEF Promise!Next, Promise!Ask
  <1> QED
    BY <1>0, <1>4, <1>5, <1>6, <1>7, <1>8, TurnFate

-----------------------------------------------------------------------------
(* The theorems.                                                           *)

\* The reactor starts with no turn and nothing remembered.
LEMMA InitTurn == Init => TurnInv
  <1> SUFFICES ASSUME Init PROVE TurnInv
    OBVIOUS
  <1>1. InputInv
    BY InitInput
  <1>2. state.kind = "Listening" /\ state.rx = NoReq /\ turn.reply = {} /\ turn.kind = "User"
    BY StateShapes, KindNames DEF Init, BlankTurn
  <1>3. OneRequestPerAnswer /\ Unasked /\ Leased
    BY <1>2 DEF Init, OneRequestPerAnswer, Unasked, Leased
  <1>4. ~InTurn
    BY <1>2 DEF InTurn, Handoff
  <1>5. TurnMatches /\ MemoryMatches /\ InkIsSpent
    BY <1>4 DEF Init, TurnMatches, MemoryMatches, MemoryPairsOneTurn, InkIsSpent
  <1> QED
    BY <1>1, <1>3, <1>5 DEF TurnInv, TextInv

\* Every step keeps what is true of the turn.
LEMMA StepTurn == TurnInv /\ [Next]_vars => TurnInv'
  BY StepInput, TextStep, TurnMatchesStep, MemoryMatchesStep, InkIsSpentStep
     DEF TurnInv, TextInv

\* What is true of the turn always is.
LEMMA TurnInvariance == Spec => []TurnInv
  BY InitTurn, StepTurn, PTL DEF Spec

\* Text of two requests never meets in one answer: turn_reply is empty until the
\* request a page waits for speaks, and holds only what that request said
\* (start_user_turn, poll_first, poll_stream, poll_agent_queue).
THEOREM OneRequestAlwaysPerAnswer == Spec => []OneRequestPerAnswer
  <1>1. TurnInv => OneRequestPerAnswer
    BY DEF TurnInv, TextInv
  <1> QED
    BY <1>1, TurnInvariance, PTL

\* A scheduled turn is only ever in flight under the scheduler lease, whatever
\* pen, reader or recall comes between (start_heartbeat, cancel_heartbeat).
THEOREM HeartbeatsAlwaysHoldTheLease == Spec => []HeartbeatHoldsLease
  <1>1. TurnInv => HeartbeatHoldsLease
    BY DEF TurnInv, TextInv, Leased, HeartbeatHoldsLease, HeartbeatInFlight, TurnKinds, AfterText
  <1> QED
    BY <1>1, TurnInvariance, PTL

\* A remembered page pairs the strokes of one turn with the answer to exactly
\* those strokes, and no turn is remembered twice (complete_reply).
THEOREM MemoryAlwaysPairsOneTurn == Spec => []MemoryPairsOneTurn
  <1>1. TurnInv => MemoryPairsOneTurn
    BY DEF TurnInv, MemoryMatches
  <1> QED
    BY <1>1, TurnInvariance, PTL

\* Hosted by a manager the reactor implements Dialogue: a question is about all
\* of the page, nothing is written while it is asked, and what is remembered is
\* what was answered (commit_page, tick_drinking, complete_reply, recall).
THEOREM ThePromiseIsKept == ~Takeover /\ Spec => KeepsThePromise
  <1>1. Init => Promise!Init
    <2> SUFFICES ASSUME Init PROVE Promise!Init
      OBVIOUS
    <2>1. ~InTurn
      BY StateShapes, KindNames DEF Init, InTurn, Handoff, BlankTurn
    <2> QED
      BY <2>1 DEF Init, Promise!Init, asking
  <1>2. CASE ~Takeover
    <2>1. TurnInv /\ [Next]_vars => [Promise!Next]_<<page, asking, {m.strokes : m \in memory}>>
      BY <1>2, PromiseStep DEF remembered
    <2> QED
      BY <1>1, <2>1, TurnInvariance, PTL DEF Spec, KeepsThePromise, Promise!Spec
  <1> QED
    BY <1>2
=============================================================================
