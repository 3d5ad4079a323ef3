----------------------------- MODULE OracleTurn -----------------------------
(***************************************************************************)
(* The workers that carry out oracle requests (src/oracle/agent.rs,        *)
(* agent/turn.rs, agent/wire.rs, paddle.rs), one thread per request, and   *)
(* the handle by which the reactor cancels one (oracle/mod.rs,             *)
(* app/oracle_controller.rs).                                              *)
(*                                                                         *)
(* Each lane has one permit.  The worker that took it keeps it until it    *)
(* ends, also after it was cancelled: the flag is read between two network *)
(* operations only.  The OCR service and the agent daemon are external and *)
(* may answer anything, or nothing.                                        *)
(***************************************************************************)
EXTENDS AnswerStream

CONSTANTS
    MaxReq,      \* bound: requests in the life of the process
    TextLimit,   \* MAX_TURN_TEXT_BYTES, in pieces
    MaxDelta,    \* bound: pieces in one text_delta
    LongAnswers, \* bound: the requests whose answers are explored in full;
                 \* the others are answered with plain sentences
    SplitSpans   \* TRUE: a sentence may end inside a directive

ASSUME OracleAssumption ==
    /\ MaxReq \in Nat /\ TextLimit \in Nat /\ MaxDelta \in Nat
    /\ LongAnswers \subseteq 1..MaxReq /\ SplitSpans \in BOOLEAN

VARIABLES
    used,      \* requests created so far (NEXT_REQUEST_ID)
    gate,      \* AgentWorkers: the permit of each lane is taken
    worker,    \* each request's worker, with the flags its handle shares
    held,      \* the requests whose receiver exists
    chan       \* what each receiver has not yet polled

turnVars == <<used, gate, worker, held, chan>>

Lanes    == {"interactive", "speculative", "scheduled"}
Requests == 1..MaxReq
TurnIds  == {1, 2}     \* what the daemon may call a turn
NoTurn   == 0

Stages == {"none", "page", "submit", "poll", "connect", "start", "stream", "ended"}
Worker == [lane : Lanes, stage : Stages, cancelled : BOOLEAN,
           outcome : {"none", "done", "error", "cancelled"},
           turn : TurnIds \cup {NoTurn}, answer : Seq(Piece),
           parser : [delivered : Nat, sentinel : Nat, routed : BOOLEAN, emitted : BOOLEAN]]
NewWorker(lane, stage) ==
    [lane |-> lane, stage |-> stage, cancelled |-> FALSE, outcome |-> "none",
     turn |-> NoTurn, answer |-> <<>>, parser |-> NewParser]

TurnInit ==
    /\ used = 0
    /\ gate = [l \in Lanes |-> FALSE]
    /\ worker = [r \in Requests |-> NewWorker("interactive", "none")]
    /\ held = {}
    /\ chan = [r \in Requests |-> <<>>]

Alive(r) == worker[r].stage \notin {"none", "ended"}

-----------------------------------------------------------------------------
(* Asking and cancelling, by the reactor.                                  *)

\* log_llm_terminal: the first outcome is the one that counts.
Terminal(w, outcome) == IF w.outcome = "none" THEN [w EXCEPT !.outcome = outcome] ELSE w

\* ask_capture, ask_text, ask_speculative_capture.  The request takes the
\* permit of its lane; a busy lane answers at once with an error, or with no
\* request at all for a speculative one.
Ask(r, lane) ==
    /\ r = used + 1 /\ r <= MaxReq /\ used' = r
    /\ IF gate[lane]
       THEN /\ lane # "speculative"
            /\ worker' = [worker EXCEPT ![r] = NewWorker(lane, "ended")]
            /\ chan' = [chan EXCEPT ![r] = <<Plain("Err")>>]
            /\ UNCHANGED gate
       ELSE /\ worker' = [worker EXCEPT ![r] =
                    NewWorker(lane, IF lane = "scheduled" THEN "connect" ELSE "page")]
            /\ gate' = [gate EXCEPT ![lane] = TRUE]
            /\ UNCHANGED chan
    /\ held' = held \cup {r}

Unseen(w) == [w EXCEPT !.answer = <<>>, !.parser = NewParser]

\* Mutation: dropping a receiver does not tell the worker.
DropQuietly(r) ==
    /\ held' = held \ {r} /\ chan' = [chan EXCEPT ![r] = <<>>]
    /\ UNCHANGED <<used, gate, worker>>

\* Drop for OracleTurn: cancel_with_reason, then the receiver goes.  Nobody
\* can see the answer from here on, so it is not followed any further.
DropTurn(r) ==
    /\ held' = held \ {r} /\ chan' = [chan EXCEPT ![r] = <<>>]
    /\ worker' = [worker EXCEPT ![r] = Unseen([Terminal(@, "cancelled") EXCEPT !.cancelled = TRUE])]
    /\ UNCHANGED <<used, gate>>

-----------------------------------------------------------------------------
(* The worker.                                                             *)

Post(r, events) == chan' = [chan EXCEPT ![r] = IF r \in held THEN @ \o events ELSE @]

Step(r, w, events) ==
    /\ worker' = [worker EXCEPT ![r] = w] /\ Post(r, events)
    /\ UNCHANGED <<used, gate, held>>

\* The worker returns: its sender and its permit are dropped with it.
End(r, w, events) ==
    /\ worker' = [worker EXCEPT ![r] = [(IF r \in held THEN w ELSE Unseen(w)) EXCEPT
                                            !.stage = "ended"]]
    /\ Post(r, events)
    /\ gate' = [gate EXCEPT ![w.lane] = FALSE]
    /\ UNCHANGED <<used, held>>

\* send_error reports whatever the outcome was before.
SendError(r) == End(r, Terminal(worker[r], "error"), <<Plain("Err")>>)

\* send_turn_error reports only the first outcome.
SendTurnError(r) ==
    End(r, Terminal(worker[r], "error"),
        IF worker[r].outcome = "none" THEN <<Plain("Err")>> ELSE <<>>)

\* No OCR is configured, or load_page fails; encode_png gives up when it
\* notices the cancellation in time.
LoadPage(r) ==
    /\ worker[r].stage = "page"
    /\ \/ Step(r, [worker[r] EXCEPT !.stage = "submit"], <<>>)
       \/ SendError(r)

\* An error of the service is not reported once the request was cancelled.
RecognizeFails(r) == IF worker[r].cancelled THEN End(r, worker[r], <<>>) ELSE SendError(r)

\* submit_job cannot be cancelled.
Submit(r) ==
    /\ worker[r].stage = "submit"
    /\ \/ Step(r, [worker[r] EXCEPT !.stage = "poll"], <<>>)
       \/ RecognizeFails(r)

\* A status of the job other than pending; the time limit.
PollFails(r) == worker[r].stage = "poll" /\ RecognizeFails(r)

\* Mutation: the permit is released before the turn's own thread has it.
HandOverWithoutPermit(r) ==
    /\ worker' = [worker EXCEPT ![r].stage = "connect"]
    /\ gate' = [gate EXCEPT ![worker[r].lane] = FALSE]
    /\ UNCHANGED <<used, held, chan>>

\* spawn_turn: the permit goes over to the turn's thread.
HandOver(r) == Step(r, [worker[r] EXCEPT !.stage = "connect"], <<>>)

\* finish_job, and what prepare_handwriting does with the text: a local
\* route answers without the network, anything else is a turn.
Recognized(r) ==
    /\ worker[r].stage = "poll"
    /\ \/ HandOver(r)
       \/ \E k \in {"Panel", "Reader", "LocalCommand"} :
              End(r, Terminal(worker[r], "done"), <<Plain(k)>>)
       \/ End(r, [Terminal(worker[r], "done") EXCEPT !.answer = <<"word">>],
              <<Ink(<<1>>), Plain("Transcript")>>)

Connect(r) ==
    /\ worker[r].stage = "connect"
    /\ \/ Step(r, [worker[r] EXCEPT !.stage = "start"], <<>>)
       \/ SendTurnError(r)

\* send_start blocks while the daemon does not read.
SendStart(r) ==
    /\ worker[r].stage = "start"
    /\ \/ Step(r, [worker[r] EXCEPT !.stage = "stream"], <<>>)
       \/ SendTurnError(r)

\* The flag is read before each event and inside read_frame; cancel_turn is
\* sent when the turn has a name.
CancelSeen(r) ==
    /\ worker[r].stage \in {"poll", "stream"} /\ worker[r].cancelled
    /\ End(r, worker[r], <<>>)

\* What the daemon sends in one frame.  "garbage" is a frame that cannot be
\* read or decoded, an envelope of another request, an unknown type, a
\* text_delta without text; a closed connection is the same to the worker.
FrameKinds == {"accepted", "text_delta", "complete", "error", "tool_call", "garbage"}
Texts(r) ==
    IF r \in LongAnswers THEN UNION {[1..n -> Piece] : n \in 1..MaxDelta} ELSE {<<"word">>}

\* matches_active_turn
MatchesTurn(r, turn) == worker[r].turn # NoTurn /\ turn = worker[r].turn

\* on_text.  What is too long for the paper ends the turn.
OnText(r) ==
    \E text \in Texts(r), route \in Route :
        LET full == worker[r].answer \o text
            fed  == Advance(worker[r].parser, full, FALSE, route)
        IN  /\ SplitSpans \/ SpansAreWhole(full)
            /\ IF Len(full) > TextLimit
               THEN SendTurnError(r)
               ELSE Step(r, [worker[r] EXCEPT !.answer = full, !.parser = fed.p], fed.out)

\* on_text when the receiver is gone
OnTextUnseen(r) == UNCHANGED turnVars \/ SendTurnError(r)

\* TurnStream::complete.  An answer without text is an error after the one
\* that the parser reports.
OnComplete(r) ==
    \E route \in Route :
        LET fed     == Advance(worker[r].parser, worker[r].answer, TRUE, route)
            blank   == worker[r].answer = <<>>
            outcome == IF blank THEN "error" ELSE "done"
            again   == blank /\ worker[r].outcome = "none"
        IN  End(r, Terminal([worker[r] EXCEPT !.parser = fed.p], outcome),
                fed.out \o (IF again THEN <<Plain("Err")>> ELSE <<>>))

\* handle_event
HandleEvent(r, kind, turn) ==
    IF kind \in {"text_delta", "complete", "tool_call"} /\ ~MatchesTurn(r, turn)
    THEN SendTurnError(r)
    ELSE
    CASE kind = "accepted" ->
           IF turn # NoTurn /\ worker[r].turn \in {NoTurn, turn}
           THEN Step(r, [worker[r] EXCEPT !.turn = turn], <<>>)
           ELSE SendTurnError(r)
      [] kind = "text_delta" -> IF r \in held THEN OnText(r) ELSE OnTextUnseen(r)
      [] kind = "complete"   -> OnComplete(r)
      \* reject_tool_call answers the daemon and goes on, if it can
      [] kind = "tool_call"  -> UNCHANGED turnVars \/ SendTurnError(r)
      [] OTHER               -> SendTurnError(r)

ReadFrame(r) ==
    /\ worker[r].stage = "stream"
    /\ \E kind \in FrameKinds, turn \in TurnIds \cup {NoTurn} : HandleEvent(r, kind, turn)

WorkerStep(r) ==
    \/ LoadPage(r) \/ Submit(r) \/ PollFails(r) \/ Recognized(r)
    \/ Connect(r) \/ SendStart(r) \/ CancelSeen(r) \/ ReadFrame(r)
=============================================================================
