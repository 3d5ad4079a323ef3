----------------------------- MODULE Lifecycle -----------------------------
(***************************************************************************)
(* The application's end of ReMagic's v2 lifecycle channel                 *)
(* (src/app/lifecycle.rs) with the commands the reactor carries out        *)
(* (runtime/lifecycle_loop.rs) and the manager at the other end.           *)
(*                                                                         *)
(* poll() reads all that has arrived, admits or ignores the frames one by  *)
(* one, and only then are the admitted commands carried out: the client's  *)
(* active token runs ahead of the command being handled.  A command keeps  *)
(* its token here only as a ghost; the program forgets it on admission.    *)
(*                                                                         *)
(* A token is an epoch and whether it names that epoch's lease (a revoked  *)
(* lease is null).  The process lives in one generation, so frames of      *)
(* another one are "stale" like those of an older epoch.                   *)
(***************************************************************************)
EXTENDS Naturals, Sequences

CONSTANTS
    MaxEpoch,    \* bound: epochs a manager that waits for its answers grants
    MaxSends,    \* bound: commands it sends
    EagerEpochs, \* the same bounds of a manager that sends at any time
    EagerSends,
    MaxQueue     \* bound: commands in flight

ASSUME LifecycleAssumption ==
    /\ MaxEpoch \in Nat \ {0} /\ MaxSends \in Nat /\ MaxQueue \in Nat
    /\ EagerEpochs \in 1..MaxEpoch /\ EagerSends \in 0..MaxSends

VARIABLES
    pc, foreground, exit,              \* the reactor
    active, pending, lastReady,        \* active_token, pending_ready_frame,
                                       \* last_ready_token
    batch, commands, eof,              \* frames read, commands admitted
    inbox, hungUp,                     \* manager to application
    events, received,                  \* application to manager: all events
                                       \* queued, and how many were read
    serial, grant, sends, shown        \* the manager: whether it waits for the
                                       \* answer to each command, newest epoch,
                                       \* commands sent, what it believes is shown

reactorVars == <<foreground, exit>>
clientVars  == <<active, pending, lastReady>>
pollVars    == <<batch, commands, eof>>
managerVars == <<serial, grant, sends, shown>>
vars == <<pc, reactorVars, clientVars, pollVars, inbox, hungUp, events, received, managerVars>>

Token   == [epoch : 0..MaxEpoch, lease : BOOLEAN]
T(e, l) == [epoch |-> e, lease |-> l]
NoToken == T(0, FALSE)

\* "Undecodable": no frame or no command (decode_frames).  "Malformed": a command
\* without a token of this application (accept_frame).
Command == [cmd : {"Start", "EnterForeground", "EnterBackground", "Shutdown", "Malformed",
                   "Undecodable"},
            token : Token]

\* "answers" and "behind" are ghosts: the token of the command the event reports
\* on, and how many commands admitted after it are still to be carried out.
Kinds == {"Ready", "StateSaved", "BackgroundReady", "ShutdownComplete", "Failed"}
Event == [kind : Kinds, token : Token, answers : Token, behind : Nat]
Report(kind, token, answers, behind) ==
    [kind |-> kind, token |-> token, answers |-> answers, behind |-> behind]

\* The first frame is committed and its Ready waits for a token.
Init ==
    /\ pc = "poll" /\ foreground = TRUE /\ exit = "none"
    /\ active = NoToken /\ pending = TRUE /\ lastReady = NoToken
    /\ batch = <<>> /\ commands = <<>> /\ eof = FALSE
    /\ inbox = <<>> /\ hungUp = FALSE
    /\ events = <<>> /\ received = 0
    /\ serial \in BOOLEAN /\ grant = 0 /\ sends = 0 /\ shown = "starting"

-----------------------------------------------------------------------------
(* The manager (external).                                                 *)

\* What a manager that waits for its answers would send next.
InTurn(c) ==
    CASE c.cmd = "Start"           -> sends = 0 /\ c.token = T(1, TRUE)
      [] c.cmd = "EnterForeground" -> shown = "back" /\ c.token = T(grant + 1, TRUE)
      [] c.cmd = "EnterBackground" -> shown = "front" /\ c.token.epoch = grant
      [] c.cmd = "Shutdown"        -> shown \in {"front", "back"} /\ c.token.epoch = grant
      [] OTHER                     -> FALSE

Send(c) ==
    /\ ~hungUp /\ pc # "stopped" /\ Len(inbox) < MaxQueue
    /\ c.token.epoch \in 1..(grant + 1)
    /\ IF serial THEN sends < MaxSends /\ InTurn(c)
                 ELSE sends < EagerSends /\ c.token.epoch <= EagerEpochs
    /\ inbox' = Append(inbox, c) /\ sends' = sends + 1
    /\ grant' = IF c.token.epoch > grant THEN c.token.epoch ELSE grant
    /\ shown' = CASE c.cmd = "EnterBackground" -> "leaving"
                  [] c.cmd = "EnterForeground" -> "starting"
                  [] OTHER -> shown
    /\ UNCHANGED <<pc, reactorVars, clientVars, pollVars, hungUp, events, received, serial>>

Receive ==
    /\ ~hungUp /\ received < Len(events) /\ received' = received + 1
    /\ shown' = CASE events[received + 1].kind = "Ready" -> "front"
                  [] events[received + 1].kind = "BackgroundReady" -> "back"
                  [] OTHER -> shown
    /\ UNCHANGED <<pc, reactorVars, clientVars, pollVars, inbox, hungUp, events, serial, grant,
                   sends>>

HangUp ==
    /\ ~hungUp /\ hungUp' = TRUE
    /\ UNCHANGED <<pc, reactorVars, clientVars, pollVars, inbox, events, received, managerVars>>

-----------------------------------------------------------------------------
(* LifecycleClient.                                                        *)

\* Mutation: events carry the token of the last Ready.
StaleEventToken == lastReady

\* Mutation: events name the epoch that comes next.
NextEpochToken == T(active.epoch + 1, active.lease)

\* queue_event encodes an event under the token that is active now.
EventToken == active

\* Mutation: Ready is sent only once in the life of the process.
ReadyOnce(token) == lastReady # NoToken

\* Mutation: every committed frame is reported.
ReadyAlways(token) == FALSE

AlreadyReady(token) == lastReady = token

\* queue_pending_ready, with the token that is active after this step
QueuePendingReady(frame, token, answers, behind) ==
    IF frame /\ ~AlreadyReady(token)
    THEN /\ events' = Append(events, Report("Ready", token, answers, behind))
         /\ lastReady' = token /\ pending' = FALSE
    ELSE pending' = FALSE /\ UNCHANGED <<events, lastReady>>

\* Mutation: a recall within the epoch need not name the active lease.
AdmitsAnyLease(c) ==
    \/ c.cmd = "Start" /\ c.token = active
    \/ c.cmd = "EnterForeground" /\ c.token.epoch >= active.epoch
    \/ /\ c.cmd \in {"EnterBackground", "Shutdown"} /\ c.token.epoch = active.epoch
       /\ c.token.lease => active.lease

\* accept_frame
Admits(c) ==
    IF active = NoToken
    THEN c.cmd = "Start" /\ c.token.lease
    ELSE \/ c.cmd = "Start" /\ c.token = active
         \/ /\ c.cmd = "EnterForeground"
            /\ (c.token.epoch > active.epoch /\ c.token.lease) \/ c.token = active
         \/ /\ c.cmd \in {"EnterBackground", "Shutdown"} /\ c.token.epoch = active.epoch
            /\ c.token.lease => active.lease

Reject(c) == c.cmd = "Malformed" \/ (active = NoToken /\ ~Admits(c))

Fail == pc' = "closing" /\ exit' = "failed"

Decodes(frames) == \A i \in 1..Len(frames) : frames[i].cmd # "Undecodable"

\* poll: flush, then read until nothing is left (an empty poll does nothing)
Read ==
    /\ pc = "poll" /\ (inbox # <<>> \/ hungUp) /\ Decodes(inbox)
    /\ batch' = inbox /\ inbox' = <<>> /\ eof' = hungUp /\ pc' = "accept"
    /\ UNCHANGED <<reactorVars, clientVars, commands, hungUp, events, received, managerVars>>

\* decode_frames fails for all that was read: nothing of it is admitted.
ReadFails ==
    /\ pc = "poll" /\ ~Decodes(inbox) /\ inbox' = <<>>
    /\ Fail
    /\ UNCHANGED <<foreground, clientVars, pollVars, hungUp, events, received, managerVars>>

\* Nobody reads the other end any more.
FlushFails ==
    /\ pc = "poll" /\ hungUp /\ received < Len(events)
    /\ Fail
    /\ UNCHANGED <<foreground, clientVars, pollVars, inbox, hungUp, events, received,
                   managerVars>>

AdmitFrame ==
    /\ pc = "accept" /\ batch # <<>> /\ batch' = Tail(batch)
    /\ ~Reject(Head(batch)) /\ Admits(Head(batch))
    /\ active' = Head(batch).token /\ commands' = Append(commands, Head(batch))
    /\ QueuePendingReady(pending, Head(batch).token, Head(batch).token, 0)
    /\ UNCHANGED <<pc, reactorVars, eof, inbox, hungUp, received, managerVars>>

IgnoreFrame ==
    /\ pc = "accept" /\ batch # <<>> /\ batch' = Tail(batch)
    /\ ~Reject(Head(batch)) /\ ~Admits(Head(batch))
    /\ UNCHANGED <<pc, reactorVars, clientVars, commands, eof, inbox, hungUp, events, received,
                   managerVars>>

\* accept_frame fails in the loop: the commands admitted before it are lost.
RejectFrame ==
    /\ pc = "accept" /\ batch # <<>> /\ Reject(Head(batch))
    /\ Fail /\ batch' = <<>> /\ commands' = <<>>
    /\ UNCHANGED <<foreground, clientVars, eof, inbox, hungUp, events, received, managerVars>>

\* A channel that closes without Shutdown is a failure.
PollDone ==
    /\ pc = "accept" /\ batch = <<>>
    /\ IF eof /\ \A i \in 1..Len(commands) : commands[i].cmd # "Shutdown"
       THEN Fail /\ commands' = <<>>
       ELSE pc' = "handle" /\ UNCHANGED <<exit, commands>>
    /\ UNCHANGED <<foreground, clientVars, batch, eof, inbox, hungUp, events, received,
                   managerVars>>

-----------------------------------------------------------------------------
(* handle_lifecycle_command and the rest of a turn of the loop.            *)

Handling(cmd) == pc = "handle" /\ commands # <<>> /\ Head(commands).cmd = cmd
Behind == Len(Tail(commands))

\* Start, and a recall of an application that is shown already
HandleNothing ==
    /\ Handling("Start") \/ (Handling("EnterForeground") /\ foreground)
    /\ commands' = Tail(commands)
    /\ UNCHANGED <<pc, reactorVars, clientVars, batch, eof, inbox, hungUp, events, received,
                   managerVars>>

\* enter_foreground: commit a frame, ask for the input mode, report Ready
HandleForeground ==
    /\ Handling("EnterForeground") /\ ~foreground
    /\ foreground' = TRUE
    /\ QueuePendingReady(TRUE, EventToken, Head(commands).token, Behind)
    /\ commands' = Tail(commands)
    /\ UNCHANGED <<pc, exit, active, batch, eof, inbox, hungUp, received, managerVars>>

\* Mutation: the page is not suspended before the report.
BackgroundStaysInFront ==
    /\ Handling("EnterBackground")
    /\ events' = Append(Append(events,
           Report("StateSaved", EventToken, Head(commands).token, Behind)),
           Report("BackgroundReady", EventToken, Head(commands).token, Behind))
    /\ commands' = Tail(commands)
    /\ UNCHANGED <<pc, foreground, exit, clientVars, batch, eof, inbox, hungUp, received,
                   managerVars>>

\* enter_background and report_background_ready
HandleBackground ==
    /\ Handling("EnterBackground")
    /\ foreground' = FALSE
    /\ events' = Append(Append(events,
           Report("StateSaved", EventToken, Head(commands).token, Behind)),
           Report("BackgroundReady", EventToken, Head(commands).token, Behind))
    /\ commands' = Tail(commands)
    /\ UNCHANGED <<pc, exit, clientVars, batch, eof, inbox, hungUp, received, managerVars>>

\* The display, the input mode or the report failed half way.
HandleFails ==
    /\ \/ Handling("EnterForeground") /\ ~foreground /\ UNCHANGED foreground
       \/ Handling("EnterBackground") /\ foreground' = FALSE
    /\ Fail /\ commands' = <<>>
    /\ UNCHANGED <<clientVars, batch, eof, inbox, hungUp, events, received, managerVars>>

HandleShutdown ==
    /\ Handling("Shutdown")
    /\ pc' = "closing" /\ exit' = "complete" /\ commands' = <<>>
    /\ UNCHANGED <<foreground, clientVars, batch, eof, inbox, hungUp, events, received,
                   managerVars>>

\* The rest of the loop: the page goes on, a signal or a gesture ends it, or
\* the runtime fails.
Turn ==
    /\ pc = "handle" /\ commands = <<>>
    /\ \/ pc' = "poll" /\ UNCHANGED exit
       \/ pc' = "closing" /\ exit' = "complete"
       \/ Fail
    /\ UNCHANGED <<foreground, clientVars, pollVars, inbox, hungUp, events, received,
                   managerVars>>

\* finish_lifecycle
Finish ==
    /\ pc = "closing" /\ pc' = "flushing"
    /\ events' = IF active = NoToken THEN events
                 ELSE IF exit = "complete"
                 THEN Append(Append(events, Report("StateSaved", EventToken, NoToken, 0)),
                             Report("ShutdownComplete", EventToken, NoToken, 0))
                 ELSE Append(events, Report("Failed", EventToken, NoToken, 0))
    /\ UNCHANGED <<reactorVars, clientVars, pollVars, inbox, hungUp, received, managerVars>>

\* flush_for: whatever the deadline or a closed channel cuts off is lost.
Exit ==
    /\ pc = "flushing" /\ pc' = "stopped"
    /\ \E n \in received..Len(events) : events' = SubSeq(events, 1, n)
    /\ UNCHANGED <<reactorVars, clientVars, pollVars, inbox, hungUp, received, managerVars>>

Stopped == pc = "stopped" /\ UNCHANGED vars

Loop == Read \/ ReadFails \/ AdmitFrame \/ IgnoreFrame \/ RejectFrame \/ PollDone
        \/ HandleNothing \/ HandleForeground \/ HandleBackground \/ HandleShutdown
        \/ Turn \/ Finish \/ Exit

Next == \/ \E c \in Command : Send(c)
        \/ Receive \/ HangUp \/ FlushFails \/ HandleFails \/ Stopped
        \/ Loop

Spec == Init /\ [][Next]_vars

\* run_loop polls on every turn: at least each 25 ms in the background.
LiveSpec == Spec /\ WF_vars(Loop)

-----------------------------------------------------------------------------
(* Properties.                                                             *)

\* Every variable keeps the shape the program's types give it.
TypeOK ==
    /\ pc \in {"poll", "accept", "handle", "closing", "flushing", "stopped"}
    /\ foreground \in BOOLEAN /\ exit \in {"none", "complete", "failed"}
    /\ active \in Token /\ pending \in BOOLEAN /\ lastReady \in Token
    /\ batch \in Seq(Command) /\ commands \in Seq(Command) /\ eof \in BOOLEAN
    /\ inbox \in Seq(Command) /\ hungUp \in BOOLEAN
    /\ events \in Seq(Event) /\ received \in 0..Len(events)
    /\ serial \in BOOLEAN /\ grant \in 0..MaxEpoch /\ sends \in 0..MaxSends
    /\ shown \in {"starting", "front", "leaving", "back"}

\* No later: an older epoch, or the epoch's lease before it was revoked.
NoLater(a, b) == a.epoch < b.epoch \/ (a.epoch = b.epoch /\ (b.lease => a.lease))

\* Whatever the manager sends, the tokens of the events only move on: an event
\* never falls back to an older epoch or to a lease revoked before it
\* (accept_frame).
EventTokensMoveOn ==
    \A i, j \in 1..Len(events) : i < j => NoLater(events[i].token, events[j].token)

\* A token is reported ready at most once, although only the last one reported
\* is remembered (last_ready_token).
ReadyOncePerToken ==
    \A i, j \in 1..Len(events) :
        /\ events[i].kind = "Ready" /\ events[j].kind = "Ready"
        /\ events[i].token = events[j].token
        => i = j

\* Whatever the manager sends, a Ready, StateSaved or BackgroundReady that is
\* reported when no later command was admitted carries the token of the command
\* it answers; in a batch it may carry that of a later one, but never an older
\* token than its own (report_ready_after_frame, report_background_ready).
EventsEchoTheirCommand ==
    \A i \in 1..Len(events) : events[i].answers # NoToken =>
        /\ NoLater(events[i].answers, events[i].token)
        /\ events[i].behind = 0 => events[i].token = events[i].answers

\* Between two commands the last Ready or BackgroundReady tells whether the page
\* is shown (to a manager that waits for its answers).
IsReport(event) == event.kind \in {"Ready", "BackgroundReady"}
LastReport(i)   == IsReport(events[i]) /\ \A j \in (i + 1)..Len(events) : ~IsReport(events[j])
LastReportIsTrue ==
    serial /\ pc \in {"poll", "handle"} =>
        \A i \in 1..Len(events) : LastReport(i) => foreground = (events[i].kind = "Ready")

\* A recall on its way is answered by a Ready for its epoch, or the process
\* ends (enter_foreground), if the manager waits for its answers.
RecallIsAnswered ==
    \A e \in 1..MaxEpoch :
        (serial /\ \E i \in 1..Len(inbox) : inbox[i].cmd = "EnterForeground" /\ inbox[i].token.epoch = e)
        ~> \/ \E i \in 1..Len(events) : events[i].kind = "Ready" /\ events[i].token.epoch = e
           \/ pc = "stopped"
=============================================================================
