----------------------------- MODULE ReplyPlan -----------------------------
(***************************************************************************)
(* The plan by which a reply is laid out and written (WritePlan with       *)
(* src/app/reply.rs, reply/layout.rs, layout_controller.rs and             *)
(* reply_controller.rs).  Text is a sequence of pieces of an answer; what  *)
(* a layout worker returns is the part of its text that fits.              *)
(*                                                                         *)
(* A worker that is dropped is cancelled and its result goes nowhere, so a *)
(* job is only the text it was given; its result appears when it is        *)
(* polled.                                                                 *)
(***************************************************************************)
EXTENDS Naturals, Sequences

NoJob == [text |-> <<>>, running |-> FALSE]
Job(t) == [text |-> t, running |-> TRUE]

\* The mark that stands for text that did not fit, and the one piece of an
\* excuse; neither is a position of an answer.
Ellipsis == 1000
Excuse   == 1001

Plan(job, queued, buffering) ==
    [job |-> job, queued |-> queued, buffering |-> buffering,
     strokes |-> <<>>, drawn |-> <<>>, logged |-> FALSE,
     truncated |-> FALSE, low |-> FALSE]

\* plan_reply_async: laid out at once.
Immediate(text) == Plan(Job(text), <<>>, FALSE)

\* plan_streaming_reply_async: kept off the paper until the stream closes.
Streaming(text) == Plan(NoJob, text, TRUE)

\* recenter_undrawn_reply: one layout of the complete text replaces whatever
\* has been laid out, unless something is drawn already.
CanRecenter(plan, complete) == ~plan.logged /\ complete # <<>>
Recenter(plan, complete) ==
    IF CanRecenter(plan, complete) THEN Immediate(complete) ELSE plan

\* append_reply
AppendReply(plan, more) ==
    IF more = <<>> THEN plan
    ELSE IF plan.buffering \/ plan.job.running THEN [plan EXCEPT !.queued = @ \o more]
    ELSE [plan EXCEPT !.job = Job(more)]

\* append_text, with append_overflow_marker when the page fills up
AppendText(s, more) ==
    IF s.full THEN s
    ELSE IF s.plan.low
    THEN [full |-> TRUE,
          plan |-> IF s.plan.truncated THEN s.plan
                   ELSE [s.plan EXCEPT !.strokes = Append(@, Ellipsis), !.truncated = TRUE]]
    ELSE [s EXCEPT !.plan = AppendReply(@, more)]

\* start_initial_reply_layout
StartInitial(plan, open) ==
    IF ~plan.buffering \/ open THEN plan
    ELSE [plan EXCEPT !.buffering = FALSE, !.queued = <<>>,
                      !.job = IF plan.queued = <<>> THEN @ ELSE Job(plan.queued)]

\* What plan_reply may make of a text: all of it, or the lines that fit and
\* an ellipsis; the block may end near the bottom of the page.
Layouts(text) ==
    [strokes : {text}, truncated : {FALSE}, low : BOOLEAN]
        \cup [strokes : {Append(SubSeq(text, 1, k), Ellipsis) : k \in 0..(Len(text) - 1)},
              truncated : {TRUE}, low : {TRUE}]

\* poll_reply_layout: the queued tail follows a layout that was merged or lost.
AfterJob(plan) ==
    IF plan.truncated THEN [plan EXCEPT !.queued = <<>>]
    ELSE IF ~plan.buffering /\ plan.queued # <<>>
    THEN [plan EXCEPT !.queued = <<>>, !.job = Job(plan.queued)]
    ELSE plan

Ready(plan, result) ==
    AfterJob([plan EXCEPT !.job = NoJob,
                          !.strokes = @ \o result.strokes,
                          !.truncated = @ \/ result.truncated,
                          !.low = result.low])
Failed(plan) == AfterJob([plan EXCEPT !.job = NoJob])

\* The outcomes of one poll: pending, ready or failed.
Polled(plan, mayFail) ==
    IF ~plan.job.running THEN {plan}
    ELSE {plan} \cup {Ready(plan, r) : r \in Layouts(plan.job.text)}
                \cup (IF mayFail THEN {Failed(plan)} ELSE {})

\* One frame draws at least one stroke when there is one.
Draw(plan, n) ==
    [plan EXCEPT !.drawn = @ \o SubSeq(plan.strokes, 1, n),
                 !.strokes = SubSeq(@, n + 1, Len(@)),
                 !.logged = @ \/ n > 0]
FrameSizes(plan) == IF plan.strokes = <<>> THEN {0} ELSE 1..Len(plan.strokes)

\* Mutation: what is still queued or being laid out is forgotten.
FinishedEarly(plan, open) == plan.strokes = <<>> /\ ~open /\ ~plan.buffering

\* The reply is written when nothing is left anywhere.
Finished(plan, open) ==
    /\ plan.strokes = <<>> /\ ~open
    /\ ~plan.job.running /\ plan.queued = <<>> /\ ~plan.buffering
=============================================================================
