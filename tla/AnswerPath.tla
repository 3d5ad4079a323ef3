----------------------------- MODULE AnswerPath -----------------------------
(***************************************************************************)
(* From a committed page to the answer on paper: the requests' workers     *)
(* (OracleTurn), the parser of what they receive (AnswerStream), the       *)
(* channel, and the reactor's end of it (state_loop.rs, state_loop/reply.rs*)
(* and turn_controller.rs) with the plan of the reply (ReplyPlan).         *)
(*                                                                         *)
(* Of the reactor only what decides about requests is here; its states,    *)
(* input, modes and leases are Engine's subject.  Drinking is part of      *)
(* "thinking": no receiver is polled in it.  A panel that an answer opens  *)
(* is "listening".                                                         *)
(***************************************************************************)
EXTENDS OracleTurn, ReplyPlan

CONSTANTS
    DrainBudget, \* MAX_READY_STREAM_EVENTS_PER_TICK
    LayoutFails  \* TRUE: a layout worker may exit without a result

ASSUME PathAssumption == DrainBudget \in Nat \ {0} /\ LayoutFails \in BOOLEAN

VARIABLES
    page,        \* the reactor's state
    ink,         \* the page carries ink
    spec,        \* speculative request held, or NoReq
    attempted,   \* speculative_attempted
    turn,        \* request whose receiver the state holds, or NoReq
    reply,       \* turn_reply
    failed,      \* turn_failed
    plan, full,  \* the WritePlan and page_full of State::Replying
    truth,       \* ghost: what the stream had really brought when it ended
    lost,        \* ghost: a layout worker lost text of this reply
    remembered   \* ghost: the reply as it was persisted, or <<>>

pageVars == <<page, ink, spec, attempted, turn, reply, failed, plan, full, truth, lost, remembered>>
vars == <<turnVars, pageVars>>

NoReq   == 0
NoPlan  == Plan(NoJob, <<>>, FALSE)
Nothing == [shown |-> <<>>, outcome |-> "none"]

\* What a local command answers; not a position of an answer.
LocalReply == 1002

Init ==
    /\ TurnInit
    /\ page = "listening" /\ ink = FALSE /\ spec = NoReq /\ attempted = FALSE
    /\ turn = NoReq /\ reply = <<>> /\ failed = FALSE
    /\ plan = NoPlan /\ full = FALSE
    /\ truth = Nothing /\ lost = FALSE /\ remembered = <<>>

-----------------------------------------------------------------------------
(* Listening.                                                              *)

\* Mutation: the pen forgets the speculative request without cancelling it.
PenForgets ==
    /\ page = "listening" /\ ink' = TRUE /\ attempted' = FALSE /\ spec' = NoReq
    /\ UNCHANGED <<turnVars, page, turn, reply, failed, plan, full, truth, lost, remembered>>

\* Pen input cancels what was asked about the page as it was.
Pen ==
    /\ page = "listening" /\ ink' = TRUE /\ attempted' = FALSE /\ spec' = NoReq
    /\ IF spec = NoReq THEN UNCHANGED turnVars ELSE DropTurn(spec)
    /\ UNCHANGED <<page, turn, reply, failed, plan, full, truth, lost, remembered>>

\* start_preask; nothing is asked while the speculative lane is busy
Preask ==
    /\ page = "listening" /\ ink /\ ~attempted /\ attempted' = TRUE
    /\ IF gate["speculative"]
       THEN UNCHANGED <<turnVars, spec>>
       ELSE Ask(used + 1, "speculative") /\ spec' = used + 1
    /\ UNCHANGED <<page, ink, turn, reply, failed, plan, full, truth, lost, remembered>>

Begin(r) ==
    /\ page' = "thinking" /\ turn' = r
    /\ reply' = <<>> /\ failed' = FALSE
    /\ UNCHANGED <<plan, full, truth, lost, remembered>>

\* start_user_turn takes the speculative request over or asks.
Commit ==
    /\ page = "listening" /\ ink
    /\ IF spec # NoReq THEN UNCHANGED turnVars ELSE Ask(used + 1, "interactive")
    /\ Begin(IF spec # NoReq THEN spec ELSE used + 1)
    /\ ink' = FALSE /\ attempted' = FALSE /\ spec' = NoReq

\* begin_heartbeat
Heartbeat ==
    /\ page = "listening" /\ ~ink
    /\ Ask(used + 1, "scheduled") /\ Begin(used + 1)
    /\ UNCHANGED <<ink, attempted, spec>>

-----------------------------------------------------------------------------
(* Thinking: poll_first and consume_first_event.                           *)

Replying(p) == page' = "replying" /\ plan' = p /\ full' = FALSE

\* The receiver is dropped, the page goes on without it.
LetGo == turn' = NoReq /\ DropTurn(turn)

FirstText(e) ==
    /\ e.type = "Ink"
    /\ chan' = [chan EXCEPT ![turn] = Tail(@)]
    /\ reply' = reply \o e.text
    /\ Replying(Streaming(e.text))
    /\ UNCHANGED <<used, gate, worker, held, turn, failed>>

\* What a transcription does to the stores is not in this module.
FirstTranscript(e) ==
    /\ e.type = "Transcript"
    /\ chan' = [chan EXCEPT ![turn] = Tail(@)]
    /\ UNCHANGED <<used, gate, worker, held, page, turn, reply, failed, plan, full>>

FirstError(e) ==
    /\ e.type = "Err" /\ failed' = TRUE
    /\ LetGo /\ Replying(Immediate(<<Excuse>>)) /\ UNCHANGED reply

FirstCommand(e) ==
    /\ e.type = "LocalCommand" /\ reply' = reply \o <<LocalReply>>
    /\ LetGo /\ Replying(Immediate(<<LocalReply>>)) /\ UNCHANGED failed

FirstDirective(e) ==
    /\ e.type \in {"Panel", "Reader"}
    /\ LetGo /\ page' = "listening" /\ UNCHANGED <<reply, failed, plan, full>>

FirstEvent ==
    /\ page = "thinking" /\ chan[turn] # <<>>
    /\ LET e == Head(chan[turn])
       IN  \/ FirstText(e) \/ FirstTranscript(e) \/ FirstError(e)
           \/ FirstCommand(e) \/ FirstDirective(e)
    /\ UNCHANGED <<ink, spec, attempted, truth, lost, remembered>>

\* ORACLE_PATIENCE has passed; the turn is not marked as failed.
FirstTimesOut ==
    /\ page = "thinking" /\ chan[turn] = <<>> /\ Alive(turn)
    /\ LetGo /\ Replying(Immediate(<<Excuse>>))
    /\ UNCHANGED <<ink, spec, attempted, reply, failed, truth, lost, remembered>>

-----------------------------------------------------------------------------
(* Replying: one tick drains the channel, lays out and draws.              *)

Least(a, b) == IF a < b THEN a ELSE b

\* Events are consumed up to the budget, the first error or a reader request.
Drained ==
    LET n    == Least(DrainBudget, Len(chan[turn]))
        ends == {i \in 1..n : chan[turn][i].type \in {"Err", "Reader"}}
    IN  IF ends = {} THEN n ELSE FirstOf(ends)

EndsAt(n, type) == n > 0 /\ chan[turn][n].type = type

\* The producer is seen to have gone only while budget is left.
Boundary(n) ==
    \/ EndsAt(n, "Err") \/ EndsAt(n, "Reader")
    \/ n < DrainBudget /\ n = Len(chan[turn]) /\ ~Alive(turn)

\* A panel's directive is ignored here, and only logged.
TextOf(e) ==
    CASE e.type = "Ink" -> e.text [] e.type = "LocalCommand" -> <<LocalReply>> [] OTHER -> <<>>

\* consume_reply_event, and that for the first n events one after the other
Consume(s, e) ==
    LET a == AppendText([full |-> s.full, plan |-> s.plan], TextOf(e))
    IN  IF TextOf(e) = <<>> THEN s
        ELSE [full |-> a.full, plan |-> a.plan, reply |-> s.reply \o TextOf(e)]
Consumed(n) ==
    LET s[i \in 0..n] == IF i = 0 THEN [full |-> full, plan |-> plan, reply |-> reply]
                         ELSE Consume(s[i-1], chan[turn][i])
    IN  s[n]

\* Mutation: a turn that broke off is remembered like a whole one.
RememberAnyway(isFailed, text) == text # <<>>

\* complete_reply persists a turn that did not fail and has a reply.
Persists(isFailed, text) == ~isFailed /\ text # <<>>

Complete(isFailed, text) ==
    /\ page' = "visible"
    /\ remembered' = IF Persists(isFailed, text) THEN text ELSE remembered

\* ReplyController::tick on plan p.  Before the next frame is due only the
\* layout is polled.
Frame(p, isFull, open, isFailed, text) ==
    \E q \in Polled(StartInitial(p, open), LayoutFails) :
        /\ full' = (isFull \/ q.truncated)
        /\ lost' = (lost \/ (q.job # StartInitial(p, open).job /\ q.strokes = p.strokes))
        /\ \/ plan' = q /\ UNCHANGED <<page, remembered>>
           \/ \E k \in FrameSizes(q) :
                 LET drawn == Draw(q, k) IN
                 /\ plan' = drawn
                 /\ IF Finished(drawn, open) THEN Complete(isFailed, text)
                    ELSE UNCHANGED <<page, remembered>>

\* tick_replying while the stream is held.  At the boundary the complete text
\* is laid out as one block.  A batch that used up its budget
\* waits another tick before anything is laid out.
TickStream ==
    /\ page = "replying" /\ turn # NoReq
    /\ LET n == Drained
           s == Consumed(n)
       IN  /\ reply' = s.reply /\ failed' = (failed \/ EndsAt(n, "Err"))
           /\ IF Boundary(n)
              THEN /\ LetGo
                   /\ truth' = [shown   |-> Shown(worker[turn].answer),
                                outcome |-> worker[turn].outcome]
                   /\ IF EndsAt(n, "Reader")
                      THEN plan' = s.plan /\ full' = s.full /\ UNCHANGED <<page, lost, remembered>>
                      ELSE Frame(Recenter(s.plan, s.reply),
                                 s.full /\ ~CanRecenter(s.plan, s.reply), FALSE, failed', s.reply)
              ELSE /\ chan' = [chan EXCEPT ![turn] = SubSeq(@, n + 1, Len(@))]
                   /\ UNCHANGED <<used, gate, worker, held, turn, truth>>
                   /\ IF n = DrainBudget /\ s.plan.buffering
                      THEN plan' = s.plan /\ full' = s.full /\ UNCHANGED <<page, lost, remembered>>
                      ELSE Frame(s.plan, s.full, TRUE, failed', s.reply)
    /\ UNCHANGED <<ink, spec, attempted>>

\* tick_replying without a stream
TickReply ==
    /\ page = "replying" /\ turn = NoReq
    /\ Frame(plan, full, FALSE, failed, reply)
    /\ UNCHANGED <<turnVars, ink, spec, attempted, turn, reply, failed, truth>>

\* A recall, a sleep, a pen that ends the turn: the state is replaced and
\* with it go the receiver and the plan.
Abandon ==
    /\ page \in {"thinking", "replying", "visible"} /\ page' = "listening"
    /\ IF turn = NoReq THEN UNCHANGED <<turnVars, turn>> ELSE LetGo
    /\ plan' = NoPlan /\ full' = FALSE
    /\ truth' = Nothing /\ lost' = FALSE /\ remembered' = <<>>
    /\ reply' = <<>> /\ failed' = FALSE    \* dead until the next turn resets them
    /\ UNCHANGED <<ink, spec, attempted>>

Work == \E r \in Requests : WorkerStep(r) /\ UNCHANGED pageVars

Next ==
    \/ Pen \/ Preask \/ Commit \/ Heartbeat
    \/ FirstEvent \/ FirstTimesOut
    \/ TickStream \/ TickReply \/ Abandon
    \/ Work

Spec == Init /\ [][Next]_vars

\* A worker is scheduled, a service that was asked answers or its time limit
\* passes, and the daemon takes what is written to it.  It need not send
\* anything: there is no fairness for its frames or for the OCR's result.
FairSpec == Spec /\ \A r \in Requests :
    /\ WF_vars(LoadPage(r) /\ UNCHANGED pageVars)
    /\ WF_vars(Submit(r) /\ UNCHANGED pageVars)
    /\ WF_vars(Connect(r) /\ UNCHANGED pageVars)
    /\ WF_vars(SendStart(r) /\ UNCHANGED pageVars)
    /\ WF_vars(CancelSeen(r) /\ UNCHANGED pageVars)
-----------------------------------------------------------------------------
(* Properties.                                                             *)

Event == [type : {"Ink", "Transcript", "Err", "LocalCommand"} \cup Route, text : Seq(Nat)]

\* The variables have their types, and a receiver exists exactly while the
\* speculative slot or the state holds it.
TypeOK ==
    /\ used \in 0..MaxReq /\ gate \in [Lanes -> BOOLEAN]
    /\ worker \in [Requests -> Worker] /\ held \subseteq Requests
    /\ chan \in [Requests -> Seq(Event)]
    /\ page \in {"listening", "thinking", "replying", "visible"}
    /\ {ink, attempted, failed, full, lost} \subseteq BOOLEAN
    /\ {spec, turn} \subseteq Requests \cup {NoReq} /\ held = {spec, turn} \ {NoReq}
    /\ reply \in Seq(Nat) /\ plan \in [job : [text : Seq(Nat), running : BOOLEAN],
           queued : Seq(Nat), buffering : BOOLEAN, strokes : Seq(Nat), drawn : Seq(Nat),
           logged : BOOLEAN, truncated : BOOLEAN, low : BOOLEAN]
    /\ truth \in [shown : Seq(Nat), outcome : {"none", "done", "error", "cancelled"}]
    /\ remembered \in Seq(Nat)

\* A lane's permit (AgentWorkers, Permit) is taken exactly while one worker
\* lives in that lane: it survives the hand-over from the handwriting thread
\* to the turn's thread, and is never given to two.
LanesAreExclusive ==
    \A l \in Lanes :
        LET alive == {r \in Requests : Alive(r) /\ worker[r].lane = l}
        IN  /\ gate[l] <=> alive # {}
            /\ \A r, s \in alive : r = s

Prefix(s, t) == Len(s) <= Len(t) /\ s = SubSeq(t, 1, Len(s))

\* All ink of some events, and of those a receiver has yet to poll.
InkOf(events) ==
    LET c[i \in 0..Len(events)] == IF i = 0 THEN <<>> ELSE c[i-1] \o events[i].text
    IN  c[Len(events)]
Coming(r) == InkOf(chan[r])

\* Once the first event was text: what was taken into the reply and what is
\* still in the channel is, in order and without a gap, the beginning of what
\* the writer should see, however the answer was cut into frames: no piece
\* twice, none of the transcription, no directive (StreamParser::advance with
\* consume_first_event and consume_reply_event).
InkIsAPrefix ==
    turn # NoReq /\ Coming(turn) # <<>>
    /\ (page = "replying" \/ Head(chan[turn]).type = "Ink") =>
        Prefix(reply \o Coming(turn), Shown(worker[turn].answer))

\* A reply that is persisted (complete_reply) is the whole visible answer of
\* a request that ended well, or what a local command answered.
WholeAnswersAreRemembered ==
    remembered # <<>> =>
        \/ remembered = <<LocalReply>>
        \/ truth.outcome = "done" /\ remembered = truth.shown

\* When a reply is complete the paper shows all of it, once and in order, or
\* its beginning and the mark that stands for the rest; nothing of it remains
\* in a queue or a layout (recenter_undrawn_reply, poll_reply_layout, tick).
DrawnIsTheReply ==
    page = "visible" /\ ~lost =>
        LET text == IF reply = <<>> THEN <<Excuse>> ELSE reply
        IN  \/ ~plan.truncated /\ plan.drawn = text
            \/ /\ plan.truncated /\ plan.drawn # <<>>
               /\ plan.drawn[Len(plan.drawn)] = Ellipsis
               /\ Prefix(SubSeq(plan.drawn, 1, Len(plan.drawn) - 1), text)

\* A directive opens a panel instead of a reply; it never arrives after text,
\* where consume_reply_event could only drop it.
DirectivesComeFirst ==
    page = "replying" /\ turn # NoReq =>
        \A i \in 1..Len(chan[turn]) :
            chan[turn][i].type \notin {"Panel", "Reader", "LocalCommand"}

\* A request nobody listens to any more gives its lane back, whatever the OCR
\* service or the daemon does from then on: no later page is refused for ever
\* (Drop for OracleTurn, recognize, run_turn).
AbandonedWorkersEnd ==
    \A r \in Requests : (Alive(r) /\ r \notin held) ~> ~Alive(r)

\* Found violated with SplitSpans.  stream.rs promises of strip_directives
\* that directives after prose "never become visible ink"; only directives
\* that are closed before the mark are counted.
DirectivesNeverBecomeInk ==
    turn # NoReq /\ page = "replying" =>
        LET said == worker[turn].answer IN
        \A i \in 1..Len(reply), c \in 1..Len(said) :
            reply[i] <= c /\ said[c] = "close" /\ (\A m \in 1..c : said[m] # "mark")
                => ~InSpan(said, 0, reply[i])
=============================================================================
