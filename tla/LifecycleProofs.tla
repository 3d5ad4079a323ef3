-------------------------- MODULE LifecycleProofs ---------------------------
(***************************************************************************)
(* What the lifecycle channel keeps for every number of epochs, commands   *)
(* and frames in flight.                                                   *)
(*                                                                         *)
(* Whatever the manager sends, the tokens of the events only move on and a *)
(* token is reported ready once: the client's active token never goes back *)
(* and bounds all that was reported, and the last token reported ready     *)
(* bounds the ones before it.                                              *)
(*                                                                         *)
(* The active token is that of the last command admitted, so an answer     *)
(* names its own command or a later one of the same batch.                 *)
(*                                                                         *)
(* With a manager that waits for its answers, the last one tells the       *)
(* truth: between a command and its answer there is nothing behind the     *)
(* command, whatever shutdowns may lie before it.                          *)
(***************************************************************************)
EXTENDS Lifecycle, SequenceTheorems, TLAPS

USE LifecycleAssumption

-----------------------------------------------------------------------------
(* Sequences.                                                              *)

\* A frame or an event is queued behind the others.
LEMMA Appended ==
    ASSUME NEW S, NEW s \in Seq(S), NEW e \in S
    PROVE  /\ Append(s, e) \in Seq(S) /\ Len(Append(s, e)) = Len(s) + 1
           /\ \A i \in 1..Len(s) : Append(s, e)[i] = s[i]
           /\ Append(s, e)[Len(s) + 1] = e
  OBVIOUS

\* The first frame, or command, is taken.
LEMMA Taken ==
    ASSUME NEW S, NEW s \in Seq(S), s # <<>>
    PROVE  /\ Head(s) = s[1] /\ s[1] \in S /\ Len(s) \in Nat \ {0}
           /\ Tail(s) \in Seq(S) /\ Len(Tail(s)) = Len(s) - 1
           /\ \A i \in 1..Len(Tail(s)) : Tail(s)[i] = s[i + 1]
  OBVIOUS

\* Nothing is in an empty queue.
LEMMA Empty == \A S : <<>> \in Seq(S) /\ Len(<<>>) = 0
  BY EmptySeq

\* A report is queued, or two (report_background_ready and finish_lifecycle).
LEMMA Reported ==
    ASSUME NEW s \in Seq(Event), NEW a \in Kinds, NEW b \in Kinds,
           NEW t \in Token, NEW u \in Token, NEW l \in Nat
    PROVE  /\ Report(a, t, u, l) \in Event /\ Report(b, t, u, l) \in Event
           /\ Append(s, Report(a, t, u, l)) \in Seq(Event)
           /\ Append(Append(s, Report(a, t, u, l)), Report(b, t, u, l)) \in Seq(Event)
           /\ Len(Append(Append(s, Report(a, t, u, l)), Report(b, t, u, l))) = Len(s) + 2
<1>1. Report(a, t, u, l) \in Event /\ Report(b, t, u, l) \in Event
    BY DEF Report, Event
<1> QED BY <1>1

\* The end of the events is cut off.
LEMMA CutOff ==
    ASSUME NEW s \in Seq(Event), NEW n \in 0..Len(s)
    PROVE  /\ SubSeq(s, 1, n) \in Seq(Event) /\ Len(SubSeq(s, 1, n)) = n
           /\ \A i \in 1..n : SubSeq(s, 1, n)[i] = s[i]
  OBVIOUS

-----------------------------------------------------------------------------
(* Types.                                                                  *)

\* A queue that is replaced by an empty one, by its tail, or by a longer one
\* stays a queue of commands.
LEMMA QueueTypes ==
    ASSUME TypeOK
    PROVE  /\ <<>> \in Seq(Command)
           /\ batch # <<>> => Head(batch) \in Command /\ Tail(batch) \in Seq(Command)
           /\ commands # <<>> => /\ Head(commands) \in Command /\ Tail(commands) \in Seq(Command)
                                 /\ Behind \in Nat
           /\ \A c \in Command : /\ Append(inbox, c) \in Seq(Command)
                                 /\ Append(commands, c) \in Seq(Command)
           /\ \A c \in Command : c.token \in Token /\ c.token.epoch \in 0..MaxEpoch
           /\ NoToken \in Token
<1>1. batch \in Seq(Command) /\ commands \in Seq(Command) /\ inbox \in Seq(Command)
    BY DEF TypeOK
<1>2. \A c \in Command : c.token \in Token /\ c.token.epoch \in 0..MaxEpoch
    BY DEF Command, Token
<1>3. NoToken \in Token
    BY DEF NoToken, T, Token
<1>4. commands # <<>> => Behind \in Nat
    BY <1>1, Taken DEF Behind
<1> QED BY <1>1, <1>2, <1>3, <1>4, Empty, Appended, Taken

\* A Ready is queued, or nothing is (queue_pending_ready).
LEMMA ReadyQueued ==
    ASSUME TypeOK, NEW frame \in BOOLEAN, NEW token \in Token, NEW answers \in Token,
           NEW behind \in Nat, QueuePendingReady(frame, token, answers, behind)
    PROVE  /\ pending' = FALSE /\ lastReady' \in {lastReady, token}
           /\ \/ /\ frame /\ lastReady # token /\ lastReady' = token
                 /\ events' = Append(events, Report("Ready", token, answers, behind))
              \/ /\ ~frame \/ lastReady = token
                 /\ lastReady' = lastReady /\ events' = events
           /\ events' \in Seq(Event) /\ Len(events') \in {Len(events), Len(events) + 1}
<1>1. Report("Ready", token, answers, behind) \in Event /\ events \in Seq(Event)
    BY DEF TypeOK, Event, Kinds, Report
<1>2. CASE frame /\ lastReady # token
    BY <1>1, <1>2, Appended DEF QueuePendingReady, AlreadyReady
<1>3. CASE ~(frame /\ lastReady # token)
    BY <1>1, <1>3 DEF QueuePendingReady, AlreadyReady
<1> QED BY <1>2, <1>3

\* finish_lifecycle reports once or twice, or nothing without a token.
LEMMA Finished ==
    ASSUME TypeOK, Finish
    PROVE  \/ events' = events
           \/ events' = Append(Append(events, Report("StateSaved", active, NoToken, 0)),
                                   Report("ShutdownComplete", active, NoToken, 0))
           \/ events' = Append(events, Report("Failed", active, NoToken, 0))
<1>1. CASE active = NoToken
    BY <1>1 DEF Finish
<1>2. CASE active # NoToken /\ exit = "complete"
    BY <1>2 DEF Finish, EventToken
<1>3. CASE active # NoToken /\ exit # "complete"
    BY <1>3 DEF Finish, EventToken
<1> QED BY <1>1, <1>2, <1>3

\* Every step keeps the shapes of all variables.
LEMMA TypeStep ==
    ASSUME TypeOK, [Next]_vars
    PROVE  TypeOK'
<1> USE DEF TypeOK
<1>0. Len(events) \in Nat /\ received \in 0..Len(events)
    OBVIOUS
<1>1. CASE \E c \in Command : Send(c)
    <2>1. PICK c \in Command : Send(c)
        BY <1>1
    <2>2. c.token.epoch \in 0..MaxEpoch /\ inbox' \in Seq(Command)
        BY <2>1, QueueTypes DEF Send
    <2>3. sends < MaxSends
        BY <2>1 DEF Send
    <2> QED BY <2>1, <2>2, <2>3 DEF Send, reactorVars, clientVars, pollVars
<1>2. CASE Receive
    BY <1>0, <1>2 DEF Receive, reactorVars, clientVars, pollVars
<1>3. CASE HangUp
    BY <1>3 DEF HangUp, reactorVars, clientVars, pollVars, managerVars
<1>18. CASE Stopped \/ UNCHANGED vars
    <2>1. UNCHANGED vars
        BY <1>18 DEF Stopped
    <2> QED BY <2>1 DEF vars, reactorVars, clientVars, pollVars, managerVars
<1>4. CASE FlushFails
    BY <1>4 DEF FlushFails, Fail, reactorVars, clientVars, pollVars, managerVars
<1>5. CASE Read \/ ReadFails
    BY <1>5, QueueTypes DEF Read, ReadFails, Fail, reactorVars, clientVars, pollVars, managerVars
<1>6. CASE AdmitFrame
    <2>1. Head(batch) \in Command /\ Head(batch).token \in Token
        BY <1>6, QueueTypes DEF AdmitFrame
    <2>2. batch' \in Seq(Command) /\ commands' \in Seq(Command)
        BY <1>6, <2>1, QueueTypes DEF AdmitFrame
    <2>3. QueuePendingReady(pending, Head(batch).token, Head(batch).token, 0)
        BY <1>6 DEF AdmitFrame
    <2>4. /\ pending' \in BOOLEAN /\ lastReady' \in Token /\ events' \in Seq(Event)
          /\ Len(events') \in {Len(events), Len(events) + 1}
        BY <2>1, <2>3, ReadyQueued
    <2>5. UNCHANGED <<pc, reactorVars, eof, inbox, hungUp, received, managerVars>>
          /\ active' = Head(batch).token
        BY <1>6 DEF AdmitFrame
    <2> QED BY <1>0, <2>1, <2>2, <2>4, <2>5 DEF reactorVars, managerVars
<1>7. CASE IgnoreFrame
    <2>1. batch' \in Seq(Command)
        BY <1>7, QueueTypes DEF IgnoreFrame
    <2> QED BY <1>7, <2>1 DEF IgnoreFrame, reactorVars, clientVars, managerVars
<1>8. CASE RejectFrame
    BY <1>8, QueueTypes DEF RejectFrame, Fail, clientVars, managerVars
<1>9. CASE PollDone
    BY <1>9, QueueTypes DEF PollDone, Fail, clientVars, managerVars
<1>10. CASE HandleNothing
    <2>1. commands' \in Seq(Command)
        BY <1>10, QueueTypes DEF HandleNothing, Handling
    <2> QED BY <1>10, <2>1 DEF HandleNothing, reactorVars, clientVars, managerVars
<1>11. CASE HandleForeground
    <2>1. /\ Head(commands) \in Command /\ Head(commands).token \in Token
          /\ commands' \in Seq(Command) /\ Behind \in Nat
        BY <1>11, QueueTypes DEF HandleForeground, Handling
    <2>2. QueuePendingReady(TRUE, active, Head(commands).token, Behind)
        BY <1>11 DEF HandleForeground, EventToken
    <2>3. /\ pending' \in BOOLEAN /\ lastReady' \in Token /\ events' \in Seq(Event)
          /\ Len(events') \in {Len(events), Len(events) + 1}
        BY <2>1, <2>2, ReadyQueued
    <2>4. UNCHANGED <<pc, exit, active, batch, eof, inbox, hungUp, received, managerVars>>
          /\ foreground' = TRUE
        BY <1>11 DEF HandleForeground
    <2> QED BY <1>0, <2>1, <2>3, <2>4 DEF managerVars
<1>12. CASE HandleBackground
    <2>1. /\ Head(commands) \in Command /\ Head(commands).token \in Token
          /\ commands' \in Seq(Command) /\ Behind \in Nat
        BY <1>12, QueueTypes DEF HandleBackground, Handling
    <2>2. events' = Append(Append(events, Report("StateSaved", active, Head(commands).token, Behind)),
                                  Report("BackgroundReady", active, Head(commands).token, Behind))
        BY <1>12 DEF HandleBackground, EventToken
    <2>0. events \in Seq(Event) /\ active \in Token
        OBVIOUS
    <2>3. events' \in Seq(Event) /\ Len(events') = Len(events) + 2
        BY ONLY <2>0, <2>1, <2>2, Reported DEF Kinds
    <2>4. UNCHANGED <<pc, exit, clientVars, batch, eof, inbox, hungUp, received, managerVars>>
          /\ foreground' = FALSE
        BY <1>12 DEF HandleBackground
    <2>5. received' \in 0..Len(events')
        BY <1>0, <2>3, <2>4
    <2> QED BY <2>1, <2>3, <2>4, <2>5 DEF managerVars, clientVars
<1>13. CASE HandleFails
    BY <1>13, QueueTypes DEF HandleFails, Fail, clientVars, managerVars
<1>14. CASE HandleShutdown
    BY <1>14, QueueTypes DEF HandleShutdown, clientVars, managerVars
<1>15. CASE Turn
    BY <1>15 DEF Turn, Fail, clientVars, pollVars, managerVars
<1>16. CASE Finish
    <2>1. Report("Failed", active, NoToken, 0) \in Event
        BY QueueTypes DEF Event, Kinds, Report
    <2>2. events' \in Seq(Event) /\ Len(events') >= Len(events)
        <3>0. events \in Seq(Event) /\ active \in Token /\ NoToken \in Token
            BY QueueTypes
        <3>1. CASE events' = events
            BY <1>0, <3>1
        <3>2. CASE events' = Append(Append(events, Report("StateSaved", active, NoToken, 0)),
                                   Report("ShutdownComplete", active, NoToken, 0))
            BY ONLY <1>0, <3>0, <3>2, Reported DEF Kinds
        <3>3. CASE events' = Append(events, Report("Failed", active, NoToken, 0))
            BY ONLY <1>0, <2>1, <3>0, <3>3, Appended
        <3> QED BY <1>16, <3>1, <3>2, <3>3, Finished
    <2>3. UNCHANGED <<reactorVars, clientVars, pollVars, inbox, hungUp, received, managerVars>>
          /\ pc' = "flushing"
        BY <1>16 DEF Finish
    <2> QED BY <1>0, <2>2, <2>3 DEF reactorVars, clientVars, pollVars, managerVars
<1>17. CASE Exit
    <2>1. PICK n \in received..Len(events) : events' = SubSeq(events, 1, n)
        BY <1>17 DEF Exit
    <2>2. n \in 0..Len(events)
        BY <1>0, <2>1
    <2>3. events' \in Seq(Event) /\ Len(events') = n
        BY <2>1, <2>2, CutOff
    <2>4. UNCHANGED <<reactorVars, clientVars, pollVars, inbox, hungUp, received, managerVars>>
          /\ pc' = "stopped"
        BY <1>17 DEF Exit
    <2> QED BY <1>0, <2>1, <2>2, <2>3, <2>4 DEF reactorVars, clientVars, pollVars, managerVars
<1> QED BY <1>1, <1>2, <1>3, <1>4, <1>5, <1>6, <1>7, <1>8, <1>9, <1>10, <1>11, <1>12, <1>13,
           <1>14, <1>15, <1>16, <1>17, <1>18 DEF Next, Loop

-----------------------------------------------------------------------------
(* Tokens.                                                                 *)

\* Frames name an epoch, none newer than the newest one granted.
Named(s) == \A i \in 1..Len(s) : s[i].token.epoch \in 1..grant
EpochsKnown == Named(inbox) /\ Named(batch) /\ active.epoch <= grant

\* The active token bounds what was reported, and the last token reported ready
\* bounds those before it.
TokensInOrder ==
    /\ \A i \in 1..Len(events) : NoLater(events[i].token, active)
    /\ \A i \in 1..Len(events) : events[i].kind = "Ready" => NoLater(events[i].token, lastReady)
    /\ NoLater(lastReady, active)

TokenInv == TypeOK /\ EpochsKnown /\ TokensInOrder /\ EventTokensMoveOn /\ ReadyOncePerToken

\* "No later" orders the tokens.
LEMMA TokenOrder ==
    ASSUME NEW a \in Token, NEW b \in Token, NEW c \in Token
    PROVE  /\ NoLater(a, a)
           /\ NoLater(a, b) /\ NoLater(b, c) => NoLater(a, c)
           /\ NoLater(a, b) /\ NoLater(b, a) => a = b
<1>1. \A t \in Token : t.epoch \in Nat /\ t.lease \in BOOLEAN
    BY DEF Token
<1>2. NoLater(a, a)
    BY <1>1 DEF NoLater
<1>3. ASSUME NoLater(a, b), NoLater(b, c)
      PROVE  NoLater(a, c)
    BY <1>1, <1>3 DEF NoLater
<1>4. ASSUME NoLater(a, b), NoLater(b, a)
      PROVE  a = b
    <2>1. a.epoch = b.epoch /\ a.lease = b.lease
        BY <1>1, <1>4 DEF NoLater
    <2> QED BY <2>1 DEF Token
<1> QED BY <1>2, <1>3, <1>4

\* How a step may change the events: Exit cuts them off, and every other step
\* adds reports under the active token, a Ready alone and only for a token that
\* was not the last one.
Shortened ==
    /\ Len(events') <= Len(events) /\ \A i \in 1..Len(events') : events'[i] = events[i]
    /\ UNCHANGED <<active, lastReady>>
Lengthened ==
    /\ Len(events) <= Len(events') /\ \A i \in 1..Len(events) : events'[i] = events[i]
    /\ \A i \in (Len(events) + 1)..Len(events') :
           /\ events'[i].token = active'
           /\ events'[i].kind = "Ready" =>
                  i = Len(events') /\ i = Len(events) + 1 /\ lastReady # active' /\ lastReady' = active'
    /\ lastReady' \in {lastReady, active'}

\* Every step shortens or lengthens the events.
LEMMA EventsStep ==
    ASSUME TypeOK, [Next]_vars
    PROVE  Shortened \/ Lengthened
<1>0. events \in Seq(Event) /\ active \in Token /\ Len(events) \in Nat
    BY DEF TypeOK
<1>1. CASE UNCHANGED <<events, lastReady>>
    BY <1>0, <1>1 DEF Lengthened
<1>2. ASSUME NEW token \in Token, NEW answers \in Token, NEW frame \in BOOLEAN,
             NEW behind \in Nat, QueuePendingReady(frame, token, answers, behind),
             active' = token
      PROVE  Lengthened
    <2>1. Report("Ready", token, answers, behind) \in Event
          /\ Report("Ready", token, answers, behind).token = token
        BY DEF Report, Event, Kinds
    <2>2. CASE frame /\ lastReady # token /\ lastReady' = token
               /\ events' = Append(events, Report("Ready", token, answers, behind))
        BY <1>0, <1>2, <2>1, <2>2 DEF Lengthened
    <2>3. CASE lastReady' = lastReady /\ events' = events
        BY <1>0, <2>3 DEF Lengthened
    <2> QED BY <1>2, <2>2, <2>3, ReadyQueued
<1>3. CASE AdmitFrame
    <2>1. Head(batch).token \in Token
        BY <1>3, QueueTypes DEF AdmitFrame
    <2> QED BY <1>2, <1>3, <2>1 DEF AdmitFrame, TypeOK
<1>4. CASE HandleForeground
    <2>1. Head(commands).token \in Token /\ Behind \in Nat
        BY <1>4, QueueTypes DEF HandleForeground, Handling
    <2> QED BY <1>0, <1>2, <1>4, <2>1 DEF HandleForeground, EventToken
<1>5. ASSUME NEW a \in Kinds, NEW b \in Kinds, NEW u \in Token, NEW l \in Nat,
             a # "Ready", b # "Ready",
             UNCHANGED <<active, lastReady>>,
             \/ events' = Append(events, Report(a, active, u, l))
             \/ events' = Append(Append(events, Report(a, active, u, l)), Report(b, active, u, l))
      PROVE  Lengthened
    <2>1. /\ Report(a, active, u, l) \in Event /\ Report(b, active, u, l) \in Event
          /\ Report(a, active, u, l).token = active /\ Report(b, active, u, l).token = active
          /\ Report(a, active, u, l).kind # "Ready" /\ Report(b, active, u, l).kind # "Ready"
        BY <1>0, <1>5 DEF Report, Event
    <2>2. CASE events' = Append(events, Report(a, active, u, l))
        BY <1>0, <1>5, <2>1, <2>2 DEF Lengthened
    <2>3. CASE events' = Append(Append(events, Report(a, active, u, l)), Report(b, active, u, l))
        <3> DEFINE p == Report(a, active, u, l)
                   q == Report(b, active, u, l)
        <3>1. events' = Append(Append(events, p), q) /\ p \in Event /\ q \in Event
            BY <2>1, <2>3
        <3>2. p.token = active /\ q.token = active /\ p.kind # "Ready" /\ q.kind # "Ready"
            BY <2>1
        <3> HIDE DEF p, q
        <3>3. /\ Len(events') = Len(events) + 2
              /\ \A i \in 1..Len(events) : events'[i] = events[i]
              /\ events'[Len(events) + 1] = p /\ events'[Len(events) + 2] = q
            BY <1>0, <3>1
        <3>4. \A i \in (Len(events) + 1)..Len(events') : i = Len(events) + 1 \/ i = Len(events) + 2
            BY <1>0, <3>3
        <3> QED BY <1>0, <1>5, <3>2, <3>3, <3>4 DEF Lengthened
    <2> QED BY <1>5, <2>2, <2>3
<1>6. CASE HandleBackground
    <2>1. Head(commands).token \in Token /\ Behind \in Nat
        BY <1>6, QueueTypes DEF HandleBackground, Handling
    <2> QED BY <1>5, <1>6, <2>1 DEF HandleBackground, EventToken, clientVars, Kinds
<1>7. CASE Finish
    <2>1. UNCHANGED <<active, lastReady>> /\ NoToken \in Token
        BY <1>7, QueueTypes DEF Finish, clientVars
    <2>2. CASE events' = events
        BY <1>1, <2>1, <2>2
    <2>3. CASE events' # events
        BY <1>5, <1>7, <2>1, <2>3, Finished DEF Kinds
    <2> QED BY <2>2, <2>3
<1>8. CASE Exit
    <2>1. PICK n \in received..Len(events) : events' = SubSeq(events, 1, n)
        BY <1>8 DEF Exit
    <2>2. n \in 0..Len(events)
        BY <1>0, <2>1 DEF TypeOK
    <2>3. Len(events') = n /\ \A i \in 1..n : events'[i] = events[i]
        BY <1>0, <2>1, <2>2, CutOff
    <2> QED BY <1>0, <1>8, <2>2, <2>3 DEF Shortened, Exit, clientVars
<1>9. CASE (\E c \in Command : Send(c)) \/ Receive \/ HangUp \/ FlushFails \/ Stopped
    BY <1>1, <1>9 DEF Send, Receive, HangUp, FlushFails, Stopped, vars, clientVars
<1>10. CASE \/ Read \/ ReadFails \/ IgnoreFrame \/ RejectFrame \/ PollDone \/ HandleNothing \/ HandleFails
            \/ HandleShutdown \/ Turn \/ UNCHANGED vars
    BY <1>1, <1>10 DEF Read, ReadFails, Fail, IgnoreFrame, RejectFrame, PollDone, HandleNothing, HandleFails,
                       HandleShutdown, Turn, vars, clientVars
<1> QED BY <1>3, <1>4, <1>6, <1>7, <1>8, <1>9, <1>10 DEF Next, Loop

\* The active token only moves on (accept_frame).
LEMMA ActiveMovesOn ==
    ASSUME TypeOK, EpochsKnown, [Next]_vars
    PROVE  NoLater(active, active') /\ (active' = active \/ active'.epoch \in 1..grant)
<1>0. active \in Token
    BY DEF TypeOK
<1>1. CASE AdmitFrame
    <2> DEFINE c == Head(batch)
    <2>1. c.token \in Token /\ c.token.epoch \in 1..grant
        <3>1. batch # <<>> /\ batch \in Seq(Command) /\ Named(batch)
            BY <1>1 DEF TypeOK, EpochsKnown, AdmitFrame
        <3>2. c = batch[1] /\ c \in Command /\ 1 \in 1..Len(batch)
            BY <3>1, Taken
        <3>3. c.token.epoch \in 1..grant
            BY <3>1, <3>2 DEF Named
        <3> QED BY <3>2, <3>3, QueueTypes
    <2>2. Admits(c) /\ active' = c.token
        BY <1>1 DEF AdmitFrame
    <2> HIDE DEF c
    <2>3. NoLater(active, c.token)
        <3>1. \A t \in Token : t.epoch \in Nat /\ t.lease \in BOOLEAN
            BY DEF Token
        <3>2. CASE active = NoToken
            BY <2>1, <3>2 DEF NoLater, NoToken, T
        <3>3. CASE active # NoToken
            BY <1>0, <2>1, <2>2, <3>1, <3>3 DEF Admits, NoLater
        <3> QED BY <3>2, <3>3
    <2> QED BY <2>1, <2>2, <2>3
<1>2. CASE UNCHANGED active
    BY <1>0, <1>2, TokenOrder
<1>3. CASE \/ (\E c \in Command : Send(c)) \/ Receive \/ HangUp \/ FlushFails \/ Stopped
           \/ UNCHANGED vars
    BY <1>2, <1>3 DEF Send, Receive, HangUp, FlushFails, Stopped, vars, clientVars
<1>4. CASE \/ Read \/ ReadFails \/ IgnoreFrame \/ RejectFrame \/ PollDone \/ HandleNothing \/ HandleFails
           \/ HandleShutdown \/ Turn \/ HandleForeground \/ HandleBackground \/ Finish \/ Exit
    BY <1>2, <1>4 DEF Read, ReadFails, Fail, IgnoreFrame, RejectFrame, PollDone, HandleNothing, HandleFails,
                      HandleShutdown, Turn, HandleForeground, HandleBackground, Finish, Exit,
                      clientVars
<1> QED BY <1>1, <1>3, <1>4 DEF Next, Loop

\* Every epoch named by a frame was granted.
LEMMA EpochsStep ==
    ASSUME TypeOK, EpochsKnown, [Next]_vars
    PROVE  EpochsKnown'
<1>0. grant \in Nat /\ active.epoch \in Nat
    BY DEF TypeOK, Token
<1>1. active' = active \/ active'.epoch \in 1..grant
    BY ActiveMovesOn
<1>2. ASSUME grant' = grant, Named(inbox'), Named(batch')
      PROVE  EpochsKnown'
    BY <1>0, <1>1, <1>2 DEF EpochsKnown, Named
<1>3. Named(<<>>)
    BY Empty DEF Named
<1>4. Named(inbox) /\ Named(batch)
    BY DEF EpochsKnown
<1>5. CASE \E c \in Command : Send(c)
    <2>1. PICK c \in Command : Send(c)
        BY <1>5
    <2>2. c.token.epoch \in 1..(grant + 1) /\ inbox' = Append(inbox, c) /\ UNCHANGED <<batch, active>>
          /\ grant' = IF c.token.epoch > grant THEN c.token.epoch ELSE grant
        BY <2>1 DEF Send, pollVars, clientVars
    <2>3. grant <= grant' /\ c.token.epoch \in 1..grant' /\ grant' \in Nat
        BY <1>0, <2>2
    <2>4. \A i \in 1..Len(inbox') : inbox'[i].token.epoch \in 1..grant'
        <3>1. /\ Len(inbox') = Len(inbox) + 1
              /\ \A i \in 1..Len(inbox) : inbox'[i] = inbox[i]
              /\ inbox'[Len(inbox) + 1] = c /\ Len(inbox) \in Nat
            BY <2>2, Appended DEF TypeOK
        <3>2. \A i \in 1..Len(inbox) : inbox[i].token.epoch \in 1..grant'
            BY <1>0, <1>4, <2>3 DEF Named
        <3>3. ASSUME NEW i \in 1..Len(inbox')
              PROVE  inbox'[i].token.epoch \in 1..grant'
            <4>1. CASE i \in 1..Len(inbox)
                BY <3>1, <3>2, <4>1
            <4>2. CASE i = Len(inbox) + 1
                <5>1. inbox'[i] = c
                    BY <3>1, <4>2
                <5> QED BY <2>3, <5>1
            <4> QED BY <3>1, <4>1, <4>2
        <3> QED BY <3>3
    <2>5. \A i \in 1..Len(batch) : batch[i].token.epoch \in 1..grant'
        BY <1>0, <1>4, <2>3 DEF Named
    <2> QED BY <1>0, <2>2, <2>3, <2>4, <2>5 DEF EpochsKnown, Named
<1>6. CASE Read \/ ReadFails
    BY <1>2, <1>3, <1>4, <1>6 DEF Read, ReadFails, pollVars, managerVars
<1>7. CASE AdmitFrame \/ IgnoreFrame
    <2>1. batch # <<>> /\ batch' = Tail(batch) /\ UNCHANGED <<inbox, grant>>
        BY <1>7 DEF AdmitFrame, IgnoreFrame, managerVars
    <2>2. Named(batch')
        BY <1>4, <2>1, Taken DEF Named, TypeOK
    <2> QED BY <1>2, <1>4, <2>1, <2>2
<1>8. CASE RejectFrame
    BY <1>2, <1>3, <1>4, <1>8 DEF RejectFrame, managerVars
<1>9. CASE UNCHANGED <<inbox, batch, grant>>
    BY <1>2, <1>4, <1>9
<1>10. CASE Receive \/ HangUp \/ FlushFails \/ Stopped \/ UNCHANGED vars
    BY <1>9, <1>10 DEF Receive, HangUp, FlushFails, Stopped, vars, pollVars, managerVars
<1>11. CASE \/ PollDone \/ HandleNothing \/ HandleFails \/ HandleShutdown \/ Turn
            \/ HandleForeground \/ HandleBackground \/ Finish \/ Exit
    BY <1>9, <1>11 DEF PollDone, HandleNothing, HandleFails, HandleShutdown, Turn,
                       HandleForeground, HandleBackground, Finish, Exit, pollVars, managerVars
<1> QED BY <1>5, <1>6, <1>7, <1>8, <1>10, <1>11 DEF Next, Loop

\* Every event has a token.
LEMMA EventTokens ==
    ASSUME NEW s \in Seq(Event)
    PROVE  Len(s) \in Nat /\ \A i \in 1..Len(s) : s[i] \in Event /\ s[i].token \in Token
<1>1. Len(s) \in Nat /\ \A i \in 1..Len(s) : s[i] \in Event
    OBVIOUS
<1>2. \A e \in Event : e.token \in Token
    BY DEF Event
<1> QED BY <1>1, <1>2

\* The tokens of the events stay in order, and no token is reported ready again.
LEMMA TokensStep ==
    ASSUME TokenInv, [Next]_vars
    PROVE  TokensInOrder' /\ EventTokensMoveOn' /\ ReadyOncePerToken'
<1>0. /\ TypeOK /\ EpochsKnown /\ TokensInOrder /\ EventTokensMoveOn /\ ReadyOncePerToken
      /\ Len(events) \in Nat
    BY DEF TokenInv, TypeOK
<1>1. /\ active \in Token /\ lastReady \in Token
      /\ \A i \in 1..Len(events) : events[i].token \in Token
    BY <1>0, EventTokens DEF TypeOK
<1>2. /\ active' \in Token /\ lastReady' \in Token /\ Len(events') \in Nat
      /\ \A i \in 1..Len(events') : events'[i].token \in Token
    <2>1. TypeOK'
        BY <1>0, TypeStep
    <2>2. active' \in Token /\ lastReady' \in Token /\ events' \in Seq(Event)
        BY <2>1 DEF TypeOK
    <2> QED BY <2>2, EventTokens
<1>3. NoLater(active, active')
    BY <1>0, ActiveMovesOn
<1>4. CASE Shortened
    <2>1. \A i \in 1..Len(events') : i \in 1..Len(events) /\ events'[i] = events[i]
        BY <1>0, <1>2, <1>4 DEF Shortened
    <2>2. UNCHANGED <<active, lastReady>>
        BY <1>4 DEF Shortened
    <2>3. TokensInOrder'
        BY <1>0, <2>1, <2>2 DEF TokensInOrder
    <2>4. EventTokensMoveOn'
        BY <1>0, <2>1 DEF EventTokensMoveOn
    <2>5. ReadyOncePerToken'
        BY <1>0, <2>1 DEF ReadyOncePerToken
    <2> QED BY <2>3, <2>4, <2>5
<1>5. CASE Lengthened
    <2>1. ASSUME NEW i \in 1..Len(events')
          PROVE  \/ i \in 1..Len(events) /\ events'[i] = events[i]
                 \/ i \in (Len(events) + 1)..Len(events') /\ events'[i].token = active'
        BY <1>0, <1>2, <1>5 DEF Lengthened
    <2>2. \A i \in 1..Len(events') : NoLater(events'[i].token, active')
        BY <1>0, <1>1, <1>2, <1>3, <2>1, TokenOrder DEF TokensInOrder
    <2>3. NoLater(lastReady, active') /\ NoLater(lastReady, lastReady') /\ NoLater(lastReady', active')
        <3>1. NoLater(lastReady, active')
            BY <1>0, <1>1, <1>2, <1>3, TokenOrder DEF TokensInOrder
        <3>2. lastReady' \in {lastReady, active'}
            BY <1>5 DEF Lengthened
        <3> QED BY <1>1, <1>2, <3>1, <3>2, TokenOrder
    <2>4. \A i \in (Len(events) + 1)..Len(events') : events'[i].kind = "Ready" =>
              /\ i = Len(events') /\ i = Len(events) + 1
              /\ lastReady # active' /\ lastReady' = active' /\ events'[i].token = active'
        BY <1>5 DEF Lengthened
    <2>5. ASSUME NEW i \in 1..Len(events'), events'[i].kind = "Ready"
          PROVE  NoLater(events'[i].token, lastReady')
        <3>1. CASE i \in 1..Len(events) /\ events'[i] = events[i]
            BY <1>0, <1>1, <1>2, <2>3, <2>5, <3>1, TokenOrder DEF TokensInOrder
        <3>2. CASE i \in (Len(events) + 1)..Len(events')
            BY <1>2, <2>4, <2>5, <3>2, TokenOrder
        <3> QED BY <2>1, <3>1, <3>2
    <2>6. TokensInOrder'
        BY <2>2, <2>3, <2>5 DEF TokensInOrder
    <2>7. ASSUME NEW i \in 1..Len(events'), NEW j \in 1..Len(events'), i < j
          PROVE  NoLater(events'[i].token, events'[j].token)
        <3>1. CASE j \in 1..Len(events) /\ events'[j] = events[j]
            <4>1. i \in 1..Len(events) /\ events'[i] = events[i]
                BY <1>0, <2>1, <2>7, <3>1
            <4> QED BY <1>0, <2>7, <3>1, <4>1 DEF EventTokensMoveOn
        <3>2. CASE events'[j].token = active'
            BY <2>2, <3>2
        <3> QED BY <2>1, <3>1, <3>2
    <2>8. ASSUME NEW i \in 1..Len(events'), NEW j \in (Len(events) + 1)..Len(events'),
                 events'[i].kind = "Ready", events'[j].kind = "Ready",
                 events'[i].token = events'[j].token
          PROVE  i = j
        <3>1. /\ j = Len(events) + 1 /\ lastReady # active' /\ events'[j].token = active'
            BY <2>4, <2>8
        <3>2. CASE i \in 1..Len(events) /\ events'[i] = events[i]
            <4>1. NoLater(active', lastReady)
                BY <1>0, <2>8, <3>1, <3>2 DEF TokensInOrder
            <4> QED BY <1>1, <1>2, <2>3, <3>1, <4>1, TokenOrder
        <3>3. CASE i \in (Len(events) + 1)..Len(events')
            BY <2>4, <2>8, <3>1, <3>3
        <3> QED BY <2>1, <3>2, <3>3
    <2>9. ReadyOncePerToken'
        <3> SUFFICES ASSUME NEW i \in 1..Len(events'), NEW j \in 1..Len(events'),
                            events'[i].kind = "Ready", events'[j].kind = "Ready",
                            events'[i].token = events'[j].token
                     PROVE  i = j
            BY DEF ReadyOncePerToken
        <3>1. CASE j \in (Len(events) + 1)..Len(events')
            BY <2>8, <3>1
        <3>2. CASE i \in (Len(events) + 1)..Len(events')
            BY <2>8, <3>2
        <3>3. CASE i \in 1..Len(events) /\ j \in 1..Len(events)
            BY <1>0, <1>5, <3>3 DEF ReadyOncePerToken, Lengthened
        <3> QED BY <2>1, <3>1, <3>2, <3>3
    <2>10. EventTokensMoveOn'
        BY <2>7 DEF EventTokensMoveOn
    <2> QED BY <2>6, <2>9, <2>10
<1> QED BY <1>0, <1>4, <1>5, EventsStep

\* Nothing is reported at first.
LEMMA InitTokens == Init => TokenInv
<1> SUFFICES ASSUME Init PROVE TokenInv
    OBVIOUS
<1>1. TypeOK
    <2>1. NoToken \in Token
        BY DEF NoToken, T, Token
    <2>2. batch \in Seq(Command) /\ commands \in Seq(Command) /\ inbox \in Seq(Command)
        BY Empty DEF Init
    <2>3. events \in Seq(Event) /\ Len(events) = 0
        BY Empty DEF Init
    <2>4. received \in 0..Len(events)
        BY <2>3 DEF Init
    <2>5. grant \in 0..MaxEpoch /\ sends \in 0..MaxSends
        BY DEF Init
    <2>6. /\ pc = "poll" /\ foreground = TRUE /\ exit = "none" /\ pending = TRUE
          /\ eof = FALSE /\ hungUp = FALSE /\ serial \in BOOLEAN /\ shown = "starting"
          /\ active = NoToken /\ lastReady = NoToken
        BY DEF Init
    <2> QED BY <2>1, <2>2, <2>3, <2>4, <2>5, <2>6 DEF TypeOK
<1>2. EpochsKnown
    BY Empty DEF Init, EpochsKnown, Named, NoToken, T
<1>3. TokensInOrder /\ EventTokensMoveOn /\ ReadyOncePerToken
    BY Empty DEF Init, TokensInOrder, EventTokensMoveOn, ReadyOncePerToken, NoLater
<1> QED BY <1>1, <1>2, <1>3 DEF TokenInv

\* Every step keeps the tokens in order, ...
LEMMA StepTokens == TokenInv /\ [Next]_vars => TokenInv'
  BY TypeStep, EpochsStep, TokensStep DEF TokenInv

\* ... so they always are.
LEMMA AlwaysTokens == Spec => []TokenInv
  BY InitTokens, StepTokens, PTL DEF Spec

\* The reactor, the client, the queues between them and the manager keep their
\* shapes.
THEOREM TypesAreKept == Spec => []TypeOK
<1>1. TokenInv => TypeOK
    BY DEF TokenInv
<1> QED BY <1>1, AlwaysTokens, PTL

\* Whatever the manager sends, and in whatever order, an event never falls back
\* to an older epoch or to a lease revoked before it (accept_frame).
THEOREM EventTokensAlwaysMoveOn == Spec => []EventTokensMoveOn
<1>1. TokenInv => EventTokensMoveOn
    BY DEF TokenInv
<1> QED BY <1>1, AlwaysTokens, PTL

\* No token is reported ready twice (queue_pending_ready).
THEOREM ReadyAlwaysOnce == Spec => []ReadyOncePerToken
<1>1. TokenInv => ReadyOncePerToken
    BY DEF TokenInv
<1> QED BY <1>1, AlwaysTokens, PTL

-----------------------------------------------------------------------------
(* Answers.                                                                *)

\* The client's token is that of the command admitted last, and no command still
\* to be carried out names a later one.
BatchInOrder ==
    /\ commands # <<>> => commands[Len(commands)].token = active
    /\ \A i \in 1..Len(commands) : NoLater(commands[i].token, active)
EchoInv == TokenInv /\ BatchInOrder /\ EventsEchoTheirCommand

\* Every step keeps the commands in the order of their tokens.
LEMMA BatchStep ==
    ASSUME TypeOK, EpochsKnown, BatchInOrder, [Next]_vars
    PROVE  BatchInOrder'
<1>0. /\ commands \in Seq(Command) /\ batch \in Seq(Command) /\ active \in Token
      /\ Len(commands) \in Nat
    BY DEF TypeOK
<1>1. CASE AdmitFrame
    <2> DEFINE c == Head(batch)
    <2>1. c \in Command /\ c.token \in Token
        BY <1>1, QueueTypes DEF AdmitFrame
    <2>2. active' = c.token /\ commands' = Append(commands, c)
        BY <1>1 DEF AdmitFrame
    <2> HIDE DEF c
    <2>3. /\ Len(commands') = Len(commands) + 1 /\ commands'[Len(commands) + 1] = c
          /\ \A i \in 1..Len(commands) : commands'[i] = commands[i]
        BY <1>0, <2>1, <2>2, Appended
    <2>4. NoLater(active, active') /\ active' \in Token
        BY <2>1, <2>2, ActiveMovesOn
    <2>5. \A i \in 1..Len(commands) : commands[i].token \in Token
        <3>1. \A d \in Command : d.token \in Token
            BY DEF Command
        <3> QED BY <1>0, <3>1
    <2>6. ASSUME NEW i \in 1..Len(commands')
          PROVE  NoLater(commands'[i].token, active')
        <3>1. CASE i \in 1..Len(commands)
            BY <1>0, <2>3, <2>4, <2>5, <3>1, TokenOrder DEF BatchInOrder
        <3>2. CASE i = Len(commands) + 1
            BY <2>2, <2>3, <2>4, <3>2, TokenOrder
        <3> QED BY <1>0, <2>3, <3>1, <3>2
    <2>7. commands'[Len(commands')].token = active'
        BY <2>2, <2>3
    <2> QED BY <2>6, <2>7 DEF BatchInOrder
<1>2. CASE commands' = <<>>
    BY <1>2, Empty DEF BatchInOrder
<1>3. CASE UNCHANGED <<commands, active>>
    BY <1>3 DEF BatchInOrder
<1>4. ASSUME commands # <<>>, commands' = Tail(commands), active' = active
      PROVE  BatchInOrder'
    <2> DEFINE t == Tail(commands)
    <2>1. /\ Len(commands) \in Nat \ {0} /\ Len(t) = Len(commands) - 1 /\ t \in Seq(Command)
          /\ \A i \in 1..Len(t) : t[i] = commands[i + 1] /\ i + 1 \in 1..Len(commands)
        BY <1>0, <1>4, Taken
    <2> HIDE DEF t
    <2>2. \A i \in 1..Len(t) : NoLater(t[i].token, active)
        BY <2>1 DEF BatchInOrder
    <2>3. t # <<>> => t[Len(t)].token = active
        <3>1. t # <<>> => Len(t) \in 1..Len(t) /\ Len(t) + 1 = Len(commands)
            BY <2>1, EmptySeq
        <3> QED BY <1>4, <2>1, <3>1 DEF BatchInOrder
    <2> QED BY <1>4, <2>2, <2>3 DEF BatchInOrder, t
<1>5. CASE HandleNothing \/ HandleForeground \/ HandleBackground
    BY <1>4, <1>5 DEF HandleNothing, HandleForeground, HandleBackground, Handling, clientVars
<1>6. CASE RejectFrame \/ HandleFails \/ HandleShutdown
    BY <1>2, <1>6 DEF RejectFrame, HandleFails, HandleShutdown
<1>7. CASE PollDone
    BY <1>2, <1>3, <1>7 DEF PollDone, clientVars
<1>8. CASE \/ (\E c \in Command : Send(c)) \/ Receive \/ HangUp \/ FlushFails \/ Stopped
           \/ UNCHANGED vars
    BY <1>3, <1>8 DEF Send, Receive, HangUp, FlushFails, Stopped, vars, clientVars, pollVars
<1>9. CASE Read \/ ReadFails \/ IgnoreFrame \/ Turn \/ Finish \/ Exit
    BY <1>3, <1>9 DEF Read, ReadFails, IgnoreFrame, Turn, Finish, Exit, clientVars, pollVars
<1> QED BY <1>1, <1>5, <1>6, <1>7, <1>8, <1>9 DEF Next, Loop

\* What is carried out is reported under its token if it is the last command, and
\* under a later one if it is not.
LEMMA EchoStep ==
    ASSUME TypeOK, BatchInOrder, EventsEchoTheirCommand, [Next]_vars
    PROVE  EventsEchoTheirCommand'
<1> DEFINE Echoes(e) == e.answers # NoToken => /\ NoLater(e.answers, e.token)
                                               /\ e.behind = 0 => e.token = e.answers
<1>0. /\ events \in Seq(Event) /\ active \in Token /\ Len(events) \in Nat
      /\ \A i \in 1..Len(events) : Echoes(events[i])
    BY DEF TypeOK, EventsEchoTheirCommand
<1>1. ASSUME \A i \in 1..Len(events') : Echoes(events'[i])
      PROVE  EventsEchoTheirCommand'
    BY <1>1 DEF EventsEchoTheirCommand
<1> HIDE DEF Echoes
<1>2. CASE UNCHANGED events
    BY <1>0, <1>1, <1>2
<1>3. ASSUME NEW e \in Event, Echoes(e), events' = Append(events, e)
      PROVE  EventsEchoTheirCommand'
    <2>1. \A i \in 1..Len(events') : Echoes(events'[i])
        BY <1>0, <1>3
    <2> QED BY <1>1, <2>1
<1>4. ASSUME NEW d \in Event, NEW e \in Event, Echoes(d), Echoes(e),
             events' = Append(Append(events, d), e)
      PROVE  EventsEchoTheirCommand'
    <2>1. \A i \in 1..Len(events') : Echoes(events'[i])
        BY <1>0, <1>4
    <2> QED BY <1>1, <2>1
<1>5. \A a \in Kinds, t \in Token, u \in Token, l \in Nat :
          /\ Report(a, t, u, l) \in Event
          /\ u = NoToken \/ (NoLater(u, t) /\ (l = 0 => t = u)) => Echoes(Report(a, t, u, l))
    BY DEF Report, Event, Echoes
<1>6. ASSUME NEW frame \in BOOLEAN, NEW t \in Token, NEW u \in Token, NEW l \in Nat,
             NoLater(u, t), l = 0 => t = u, QueuePendingReady(frame, t, u, l)
      PROVE  EventsEchoTheirCommand'
    <2>1. Report("Ready", t, u, l) \in Event /\ Echoes(Report("Ready", t, u, l))
        BY <1>5, <1>6 DEF Kinds
    <2> QED BY <1>2, <1>3, <1>6, <2>1, ReadyQueued
<1>7. CASE AdmitFrame
    <2>1. Head(batch).token \in Token
        BY <1>7, QueueTypes DEF AdmitFrame
    <2>2. NoLater(Head(batch).token, Head(batch).token)
        BY <2>1, TokenOrder
    <2>3. QueuePendingReady(pending, Head(batch).token, Head(batch).token, 0) /\ pending \in BOOLEAN
        BY <1>7 DEF AdmitFrame, TypeOK
    <2> QED BY <1>6, <2>1, <2>2, <2>3
<1>8. ASSUME commands # <<>>
      PROVE  /\ Head(commands).token \in Token /\ NoLater(Head(commands).token, active)
             /\ Behind \in Nat /\ (Behind = 0 => active = Head(commands).token)
    <2>1. /\ Head(commands) = commands[1] /\ 1 \in 1..Len(commands)
          /\ Len(Tail(commands)) = Len(commands) - 1 /\ Len(commands) \in Nat
        BY <1>8, Taken DEF TypeOK
    <2>2. Behind \in Nat /\ (Behind = 0 => Len(commands) = 1)
        BY <2>1 DEF Behind
    <2> QED BY <1>8, <2>1, <2>2, QueueTypes DEF BatchInOrder
<1>9. CASE HandleForeground
    <2>1. commands # <<>> /\ QueuePendingReady(TRUE, active, Head(commands).token, Behind)
        BY <1>9 DEF HandleForeground, Handling, EventToken
    <2> QED BY <1>0, <1>6, <1>8, <2>1
<1>10. CASE HandleBackground
    <2> DEFINE d == Report("StateSaved", active, Head(commands).token, Behind)
               e == Report("BackgroundReady", active, Head(commands).token, Behind)
    <2>1. commands # <<>> /\ events' = Append(Append(events, d), e)
        BY <1>10 DEF HandleBackground, Handling, EventToken
    <2>2. d \in Event /\ e \in Event /\ Echoes(d) /\ Echoes(e)
        BY <1>0, <1>5, <1>8, <2>1 DEF Kinds
    <2> HIDE DEF d, e
    <2> QED BY <1>4, <2>1, <2>2
<1>11. CASE Finish
    <2> DEFINE d == Report("StateSaved", active, NoToken, 0)
               e == Report("ShutdownComplete", active, NoToken, 0)
               f == Report("Failed", active, NoToken, 0)
    <2>1. /\ d \in Event /\ e \in Event /\ f \in Event
          /\ Echoes(d) /\ Echoes(e) /\ Echoes(f)
        BY <1>0, <1>5, QueueTypes DEF Kinds
    <2>2. events' = events \/ events' = Append(Append(events, d), e) \/ events' = Append(events, f)
        BY <1>11, Finished
    <2> HIDE DEF d, e, f
    <2> QED BY <1>2, <1>3, <1>4, <2>1, <2>2
<1>12. CASE Exit
    <2>1. PICK n \in received..Len(events) : events' = SubSeq(events, 1, n)
        BY <1>12 DEF Exit
    <2>2. n \in 0..Len(events)
        BY <1>0, <2>1 DEF TypeOK
    <2>3. \A i \in 1..Len(events') : i \in 1..Len(events) /\ events'[i] = events[i]
        BY <1>0, <2>1, <2>2, CutOff
    <2> QED BY <1>0, <1>1, <2>3
<1>13. CASE (\E c \in Command : Send(c)) \/ Receive \/ HangUp \/ FlushFails \/ Stopped
    BY <1>2, <1>13 DEF Send, Receive, HangUp, FlushFails, Stopped, vars
<1>14. CASE \/ Read \/ ReadFails \/ IgnoreFrame \/ RejectFrame \/ PollDone \/ HandleNothing \/ HandleFails
            \/ HandleShutdown \/ Turn \/ UNCHANGED vars
    BY <1>2, <1>14 DEF Read, ReadFails, Fail, IgnoreFrame, RejectFrame, PollDone, HandleNothing, HandleFails,
                       HandleShutdown, Turn, vars
<1> QED BY <1>7, <1>9, <1>10, <1>11, <1>12, <1>13, <1>14 DEF Next, Loop

\* No command waits and nothing is reported at first; ...
LEMMA InitEcho == Init => EchoInv
<1> SUFFICES ASSUME Init PROVE EchoInv
    OBVIOUS
<1>1. BatchInOrder /\ EventsEchoTheirCommand
    BY Empty DEF Init, BatchInOrder, EventsEchoTheirCommand
<1> QED BY <1>1, InitTokens DEF EchoInv

\* ... every step keeps the answers, ...
LEMMA StepEcho == EchoInv /\ [Next]_vars => EchoInv'
<1> SUFFICES ASSUME EchoInv, [Next]_vars PROVE EchoInv'
    OBVIOUS
<1>1. TokenInv /\ TypeOK /\ EpochsKnown /\ BatchInOrder /\ EventsEchoTheirCommand
    BY DEF EchoInv, TokenInv
<1> QED BY <1>1, StepTokens, BatchStep, EchoStep DEF EchoInv

\* ... so they always hold.
LEMMA AlwaysEcho == Spec => []EchoInv
  BY InitEcho, StepEcho, PTL DEF Spec

\* Whatever the manager sends, Ready, StateSaved and BackgroundReady carry the
\* token of the command they answer, or, of a batch, that of a later command:
\* never an older one (report_ready_after_frame, report_background_ready).
THEOREM EventsAlwaysEcho == Spec => []EventsEchoTheirCommand
<1>1. EchoInv => EventsEchoTheirCommand
    BY DEF EchoInv
<1> QED BY <1>1, AlwaysEcho, PTL

-----------------------------------------------------------------------------
(* A manager that waits for its answers.                                   *)

\* A command is open until its answer is reported: none behind it is on its way
\* before that.
IsOpen(c)   == c.cmd \in {"EnterForeground", "EnterBackground"}
NoneOpen(s) == \A i \in 1..Len(s) : ~IsOpen(s[i])
OpenLast(s) == \A i \in 1..Len(s) : IsOpen(s[i]) => i = Len(s)
NothingOpen == NoneOpen(inbox) /\ NoneOpen(batch) /\ NoneOpen(commands)
OneCommand  == /\ OpenLast(inbox) /\ OpenLast(batch) /\ OpenLast(commands)
               /\ ~NoneOpen(batch) => inbox = <<>>
               /\ ~NoneOpen(commands) => inbox = <<>> /\ batch = <<>>

\* Start comes before everything else, and its Ready before every other report.
Begun == /\ pending => foreground /\ commands = <<>> /\ events = <<>>
         /\ active = NoToken <=> pending
         /\ pending \/ sends = 0 => NothingOpen

\* A report is the answer to the command that was open, and is read before the
\* next one is sent.
NoneUnread == \A i \in (received + 1)..Len(events) : ~IsReport(events[i])
Awaited == /\ ~NoneUnread => NothingOpen
           /\ shown \in {"front", "back"} => NothingOpen /\ NoneUnread /\ ~pending
           /\ \A i \in (received + 1)..Len(events) : IsReport(events[i]) => LastReport(i)

\* A recall names an epoch that was not reported yet, and what is open when it is
\* carried out names the active token.
Newer(s) == \A i \in 1..Len(s) :
                s[i].cmd = "EnterForeground" => active.epoch < s[i].token.epoch
Fresh == /\ Newer(inbox) /\ Newer(batch)
         /\ \A i \in 1..Len(commands) : IsOpen(commands[i]) =>
                /\ commands[i].token = active
                /\ commands[i].cmd = "EnterForeground" => lastReady.epoch < active.epoch

LastIsTrue == \A i \in 1..Len(events) : LastReport(i) => foreground = (events[i].kind = "Ready")

InLoop    == pc \in {"poll", "accept", "handle"}
Handshake == OneCommand /\ Begun /\ Awaited /\ Fresh /\ LastIsTrue
SerialInv == TokenInv /\ (serial /\ InLoop => Handshake)

\* What is open in a queue to which a command is added, or from which one is taken.
LEMMA OpenInQueue ==
    ASSUME NEW s \in Seq(Command)
    PROVE  /\ NoneOpen(<<>>) /\ OpenLast(<<>>) /\ Newer(<<>>)
           /\ NoneOpen(s) => OpenLast(s)
           /\ \A c \in Command : /\ NoneOpen(s) => OpenLast(Append(s, c))
                                 /\ NoneOpen(s) /\ ~IsOpen(c) => NoneOpen(Append(s, c))
           /\ s # <<>> => /\ NoneOpen(s) => NoneOpen(Tail(s)) /\ ~IsOpen(Head(s))
                          /\ Newer(s) => Newer(Tail(s))
                          /\ OpenLast(s) => OpenLast(Tail(s))
                          /\ OpenLast(s) /\ IsOpen(Head(s)) => Tail(s) = <<>>
<1>1. NoneOpen(<<>>) /\ OpenLast(<<>>) /\ Newer(<<>>)
    BY Empty DEF NoneOpen, OpenLast, Newer
<1>2. NoneOpen(s) => OpenLast(s)
    BY DEF NoneOpen, OpenLast
<1>3. ASSUME NEW c \in Command
      PROVE  /\ NoneOpen(s) => OpenLast(Append(s, c))
             /\ NoneOpen(s) /\ ~IsOpen(c) => NoneOpen(Append(s, c))
    <2>1. /\ Len(Append(s, c)) = Len(s) + 1 /\ Len(s) \in Nat
          /\ \A i \in 1..Len(s) : Append(s, c)[i] = s[i]
          /\ Append(s, c)[Len(s) + 1] = c
        BY Appended
    <2> QED BY <2>1 DEF NoneOpen, OpenLast
<1>4. ASSUME s # <<>>
      PROVE  /\ NoneOpen(s) => NoneOpen(Tail(s)) /\ ~IsOpen(Head(s))
             /\ Newer(s) => Newer(Tail(s))
             /\ OpenLast(s) => OpenLast(Tail(s))
             /\ OpenLast(s) /\ IsOpen(Head(s)) => Tail(s) = <<>>
    <2> DEFINE t == Tail(s)
    <2>1. /\ Head(s) = s[1] /\ Len(s) \in Nat \ {0} /\ Len(t) = Len(s) - 1 /\ t \in Seq(Command)
          /\ \A i \in 1..Len(t) : t[i] = s[i + 1] /\ i + 1 \in 1..Len(s)
        BY <1>4, Taken
    <2> HIDE DEF t
    <2>2. NoneOpen(s) => NoneOpen(t) /\ ~IsOpen(Head(s))
        BY <2>1 DEF NoneOpen
    <2>3. Newer(s) => Newer(t)
        BY <2>1 DEF Newer
    <2>4. OpenLast(s) => OpenLast(t)
        BY <2>1 DEF OpenLast
    <2>5. ASSUME OpenLast(s), IsOpen(Head(s))
          PROVE  t = <<>>
        <3>1. Len(t) = 0
            BY <2>1, <2>5 DEF OpenLast
        <3> QED BY <2>1, <3>1, EmptySeq
    <2> QED BY <2>2, <2>3, <2>4, <2>5 DEF t
<1> QED BY <1>1, <1>2, <1>3, <1>4

\* What is open in a queue that was extended or newly looked at is one of its
\* commands.
LEMMA NewerQueue ==
    ASSUME NEW s \in Seq(Command), NEW c \in Command,
           Newer(s), c.cmd = "EnterForeground" => active.epoch < c.token.epoch
    PROVE  Newer(Append(s, c))
<1>1. /\ Len(Append(s, c)) = Len(s) + 1 /\ Len(s) \in Nat
      /\ \A i \in 1..Len(s) : Append(s, c)[i] = s[i]
      /\ Append(s, c)[Len(s) + 1] = c
    BY Appended
<1> QED BY <1>1 DEF Newer

\* The manager sends what comes next: a command is open only after the answer to
\* the one before it was read.
LEMMA SendKeepsHandshake ==
    ASSUME TypeOK, EpochsKnown, Handshake, serial, NEW c \in Command, Send(c)
    PROVE  Handshake'
<1>1. /\ InTurn(c) /\ inbox' = Append(inbox, c) /\ sends' = sends + 1
      /\ UNCHANGED <<foreground, active, pending, lastReady, batch, commands, events, received>>
    BY DEF Send, reactorVars, clientVars, pollVars
<1>2. OneCommand /\ Begun /\ Awaited /\ Fresh /\ LastIsTrue
    BY DEF Handshake
<1>3. inbox \in Seq(Command) /\ sends \in Nat /\ grant \in Nat /\ active.epoch \in Nat
      /\ active.epoch <= grant
    BY DEF TypeOK, Token, EpochsKnown
<1>4. LastIsTrue'
    BY <1>1, <1>2 DEF LastIsTrue, LastReport
<1>5. Newer(batch)' /\ (Newer(inbox') => Newer(inbox)') /\ NoneUnread' = NoneUnread
      /\ NoneOpen(batch)' = NoneOpen(batch) /\ NoneOpen(commands)' = NoneOpen(commands)
      /\ NoneOpen(inbox)' = NoneOpen(inbox')
    BY <1>1, <1>2 DEF Fresh, Newer, NoneUnread, NoneOpen
<1>6. sends' # 0
    BY <1>1, <1>3
<1>7. \A i \in (received' + 1)..Len(events') : IsReport(events'[i]) => LastReport(i)'
    BY <1>1, <1>2 DEF Awaited, LastReport
<1>8. Fresh' <=> Newer(inbox')
    BY <1>1, <1>2, <1>5 DEF Fresh, Newer
<1>9. CASE ~IsOpen(c)
    <2>1. NothingOpen /\ shown' = shown
        <3>1. c.cmd = "Start" => sends = 0
            BY <1>1 DEF InTurn
        <3>2. c.cmd = "Shutdown" => shown \in {"front", "back"}
            BY <1>1 DEF InTurn
        <3>3. c.cmd \notin {"Malformed", "Undecodable"}
            BY <1>1 DEF InTurn
        <3> QED BY <1>2, <1>9, <3>1, <3>2, <3>3 DEF Begun, Awaited, IsOpen, Send, Command
    <2>2. NoneOpen(inbox') /\ NothingOpen'
        BY <1>1, <1>3, <1>5, <1>9, <2>1, OpenInQueue DEF NothingOpen
    <2>3. OneCommand'
        BY <1>1, <1>2, <1>3, <1>9, <2>1, <2>2, OpenInQueue DEF OneCommand, NothingOpen, NoneOpen, OpenLast
    <2>4. Begun'
        BY <1>1, <1>2, <2>2 DEF Begun
    <2>5. Awaited'
        BY <1>1, <1>2, <1>5, <1>7, <2>1, <2>2 DEF Awaited
    <2>6. Newer(inbox')
        BY <1>1, <1>2, <1>3, <1>9, NewerQueue DEF Fresh, IsOpen
    <2> QED BY <1>4, <1>8, <2>3, <2>4, <2>5, <2>6 DEF Handshake
<1>10. CASE IsOpen(c)
    <2>1. /\ shown \in {"front", "back"} /\ shown' \in {"leaving", "starting"}
          /\ c.cmd = "EnterForeground" => c.token.epoch = grant + 1
        <3>1. CASE c.cmd = "EnterForeground"
            <4>1. shown = "back" /\ c.token = T(grant + 1, TRUE)
                BY <1>1, <3>1 DEF InTurn
            <4>2. shown' = "starting"
                BY <3>1 DEF Send
            <4> QED BY <4>1, <4>2 DEF T
        <3>2. CASE c.cmd = "EnterBackground"
            <4>1. shown = "front"
                BY <1>1, <3>2 DEF InTurn
            <4>2. shown' = "leaving"
                BY <3>2 DEF Send
            <4> QED BY <3>2, <4>1, <4>2
        <3> QED BY <1>10, <3>1, <3>2 DEF IsOpen
    <2>2. NothingOpen /\ NoneUnread /\ ~pending
        BY <1>2, <2>1 DEF Awaited
    <2>3. OpenLast(inbox')
        BY <1>1, <1>3, <2>2, OpenInQueue DEF NothingOpen
    <2>4. OneCommand'
        BY <1>1, <1>2, <2>2, <2>3 DEF OneCommand, NothingOpen, NoneOpen, OpenLast
    <2>5. Begun'
        BY <1>1, <1>2, <1>6, <2>2 DEF Begun
    <2>6. Awaited'
        BY <1>5, <1>7, <2>1, <2>2 DEF Awaited
    <2>7. Newer(inbox')
        BY <1>1, <1>2, <1>3, <2>1, NewerQueue DEF Fresh
    <2> QED BY <1>4, <1>8, <2>4, <2>5, <2>6, <2>7 DEF Handshake
<1> QED BY <1>9, <1>10

\* What the manager reads is the last report, and the last for now.
LEMMA ReceiveKeepsHandshake ==
    ASSUME TypeOK, Handshake, Receive
    PROVE  Handshake'
<1> DEFINE n == received + 1
<1>1. /\ received' = n /\ n \in 1..Len(events)
      /\ shown' = IF events[n].kind = "Ready" THEN "front"
                  ELSE IF events[n].kind = "BackgroundReady" THEN "back" ELSE shown
      /\ UNCHANGED <<foreground, active, pending, lastReady, batch, commands, inbox, events, sends>>
    BY DEF Receive, reactorVars, clientVars, pollVars, TypeOK
<1>2. OneCommand /\ Begun /\ Awaited /\ Fresh /\ LastIsTrue /\ received \in Nat /\ Len(events) \in Nat
    BY DEF Handshake, TypeOK
<1>3. OneCommand' /\ Begun' /\ Fresh' /\ LastIsTrue'
    BY <1>1, <1>2 DEF OneCommand, Begun, Fresh, LastIsTrue, LastReport, NothingOpen, NoneOpen,
                      OpenLast, Newer
<1>4. NothingOpen' = NothingOpen
    BY <1>1 DEF NothingOpen, NoneOpen
<1>5. \A i \in (received' + 1)..Len(events') : i \in (received + 1)..Len(events) /\ i \in (n + 1)..Len(events)
    BY <1>1, <1>2
<1>6. \A i \in (received' + 1)..Len(events') : IsReport(events'[i]) => LastReport(i)'
    BY <1>1, <1>2, <1>5 DEF Awaited, LastReport
<1>7. NoneUnread => NoneUnread'
    BY <1>1, <1>5 DEF NoneUnread
<1>8. CASE IsReport(events[n])
    <2>1. ~NoneUnread /\ LastReport(n) /\ events # <<>>
        BY <1>1, <1>2, <1>8, Empty DEF NoneUnread, Awaited
    <2>2. NothingOpen /\ ~pending
        BY <1>2, <2>1 DEF Awaited, Begun
    <2>3. NoneUnread'
        BY <1>1, <1>5, <2>1 DEF NoneUnread, LastReport
    <2>4. Awaited'
        BY <1>1, <1>4, <1>6, <2>2, <2>3 DEF Awaited
    <2> QED BY <1>3, <2>4 DEF Handshake
<1>9. CASE ~IsReport(events[n])
    <2>1. shown' = shown
        BY <1>1, <1>9 DEF IsReport
    <2>2. Awaited'
        BY <1>1, <1>2, <1>4, <1>6, <1>7, <2>1 DEF Awaited
    <2> QED BY <1>3, <2>2 DEF Handshake
<1> QED BY <1>8, <1>9

\* Frames and commands that are taken without a report leave the order as it is.
LEMMA TakingKeepsHandshake ==
    ASSUME TypeOK, Handshake, Read \/ IgnoreFrame \/ HandleNothing
    PROVE  Handshake'
<1>1. OneCommand /\ Begun /\ Awaited /\ Fresh /\ LastIsTrue
    BY DEF Handshake
<1>2. inbox \in Seq(Command) /\ batch \in Seq(Command) /\ commands \in Seq(Command)
    BY DEF TypeOK
<1>3. UNCHANGED <<foreground, active, pending, lastReady, events, received, sends, shown>>
    BY DEF Read, IgnoreFrame, HandleNothing, reactorVars, clientVars, managerVars
<1>4. LastIsTrue' /\ NoneUnread' = NoneUnread
      /\ \A i \in (received' + 1)..Len(events') : IsReport(events'[i]) => LastReport(i)'
    BY <1>1, <1>3 DEF LastIsTrue, LastReport, NoneUnread, Awaited
<1>5. ASSUME NothingOpen => NothingOpen', pending => commands' = <<>>
      PROVE  Begun' /\ Awaited'
    BY <1>1, <1>3, <1>4, <1>5 DEF Begun, Awaited
<1>7. CASE Read
    <2>1. batch' = inbox /\ inbox' = <<>> /\ commands' = commands
        BY <1>7 DEF Read
    <2>2. NoneOpen(inbox') /\ OpenLast(inbox') /\ Newer(inbox')
        BY <2>1, <1>2, OpenInQueue
    <2>3. NothingOpen => NothingOpen'
        BY <2>1, <2>2 DEF NothingOpen, NoneOpen
    <2>4. OneCommand'
        BY <1>1, <2>1, <2>2 DEF OneCommand, NoneOpen, OpenLast
    <2>5. Fresh'
        BY <1>1, <1>3, <2>1, <2>2 DEF Fresh, Newer
    <2> QED BY <1>1, <1>4, <1>5, <2>1, <2>3, <2>4, <2>5 DEF Handshake, Begun
<1>8. CASE IgnoreFrame
    <2>1. batch # <<>> /\ batch' = Tail(batch) /\ UNCHANGED <<inbox, commands>>
        BY <1>8 DEF IgnoreFrame
    <2>2. /\ NoneOpen(batch) => NoneOpen(batch')
          /\ OpenLast(batch) => OpenLast(batch')
          /\ Newer(batch) => Newer(batch')
        BY <2>1, <1>2, OpenInQueue
    <2>3. NothingOpen => NothingOpen'
        BY <2>1, <2>2 DEF NothingOpen, NoneOpen
    <2>4. OneCommand'
        BY <1>1, <2>1, <2>2 DEF OneCommand, NoneOpen, OpenLast
    <2>5. Fresh'
        BY <1>1, <1>3, <2>1, <2>2 DEF Fresh, Newer
    <2> QED BY <1>1, <1>4, <1>5, <2>1, <2>3, <2>4, <2>5 DEF Handshake, Begun
<1>9. CASE HandleNothing
    <2>1. commands # <<>> /\ commands' = Tail(commands) /\ UNCHANGED <<inbox, batch>>
        BY <1>9 DEF HandleNothing, Handling
    <2>2. /\ NoneOpen(commands) => NoneOpen(commands')
          /\ OpenLast(commands) => OpenLast(commands')
        BY <2>1, <1>2, OpenInQueue
    <2>3. NothingOpen => NothingOpen'
        BY <2>1, <2>2 DEF NothingOpen, NoneOpen
    <2>4. OneCommand'
        BY <1>1, <2>1, <2>2 DEF OneCommand, NoneOpen, OpenLast
    <2>5. \A i \in 1..Len(commands') : commands'[i] = commands[i + 1] /\ i + 1 \in 1..Len(commands)
        BY <1>2, <2>1, Taken
    <2>6. Fresh'
        BY <1>1, <1>3, <2>1, <2>5 DEF Fresh, Newer
    <2> QED BY <1>1, <1>4, <1>5, <2>1, <2>3, <2>4, <2>6 DEF Handshake, Begun
<1> QED BY <1>7, <1>8, <1>9

\* The frame that is admitted is the only one open, or none is (accept_frame).
LEMMA AdmitKeepsHandshake ==
    ASSUME TypeOK, EpochsKnown, TokensInOrder, Handshake, AdmitFrame
    PROVE  Handshake'
<1> DEFINE c == Head(batch)
<1>1. /\ batch # <<>> /\ Admits(c) /\ active' = c.token /\ batch' = Tail(batch)
      /\ commands' = Append(commands, c) /\ QueuePendingReady(pending, c.token, c.token, 0)
      /\ UNCHANGED <<foreground, inbox, received, sends, shown>>
    BY DEF AdmitFrame, reactorVars, managerVars
<1>2. OneCommand /\ Begun /\ Awaited /\ Fresh /\ LastIsTrue
    BY DEF Handshake
<1>3. inbox \in Seq(Command) /\ batch \in Seq(Command) /\ commands \in Seq(Command)
    BY DEF TypeOK
<1>4. /\ c = batch[1] /\ 1 \in 1..Len(batch) /\ c \in Command /\ c.token \in Token
      /\ c.token.epoch \in Nat \ {0} /\ c.token # NoToken
    <2>1. c = batch[1] /\ c \in Command /\ 1 \in 1..Len(batch)
        BY <1>1, <1>3, Taken
    <2>2. c.token \in Token
        BY <2>1, QueueTypes
    <2>3. c.token.epoch \in 1..grant /\ grant \in Nat
        BY <2>1 DEF EpochsKnown, Named, TypeOK
    <2> QED BY <2>1, <2>2, <2>3 DEF NoToken, T
<1>5. pending' = FALSE /\ (~pending => UNCHANGED <<events, lastReady>>)
    BY <1>1 DEF QueuePendingReady
<1>6. NoneOpen(commands)
    BY <1>1, <1>2 DEF OneCommand
<1>7. active.epoch \in Nat /\ active.lease \in BOOLEAN /\ lastReady.epoch <= active.epoch
      /\ lastReady.epoch \in Nat
    BY DEF TypeOK, Token, TokensInOrder, NoLater
<1> HIDE DEF c
<1>8. /\ NoneOpen(batch) => NoneOpen(batch') /\ ~IsOpen(c)
      /\ OpenLast(batch) => OpenLast(batch')
      /\ OpenLast(batch) /\ IsOpen(c) => batch' = <<>>
      /\ Newer(batch) => Newer(Tail(batch))
    BY <1>1, <1>3, OpenInQueue DEF c
<1>9. /\ OpenLast(commands') /\ NoneOpen(<<>>)
      /\ ~IsOpen(c) => NoneOpen(commands')
    BY <1>1, <1>3, <1>4, <1>6, OpenInQueue
<1>10. /\ Len(commands') = Len(commands) + 1 /\ Len(commands) \in Nat
       /\ \A i \in 1..Len(commands) : commands'[i] = commands[i]
       /\ commands'[Len(commands) + 1] = c
    BY <1>1, <1>3, <1>4, Appended
<1>11. OneCommand'
    <2>1. CASE IsOpen(c)
        <3>1. batch' = <<>> /\ inbox = <<>>
            BY <1>1, <1>2, <1>4, <1>8, <2>1 DEF OneCommand, NoneOpen
        <3> QED BY <1>1, <1>2, <1>8, <1>9, <3>1 DEF OneCommand, NoneOpen, OpenLast
    <2>2. CASE ~IsOpen(c)
        <3>1. NoneOpen(commands') /\ OpenLast(batch')
            BY <1>2, <1>8, <1>9, <2>2 DEF OneCommand
        <3>2. ~NoneOpen(batch') => inbox = <<>>
            BY <1>2, <1>8 DEF OneCommand
        <3> QED BY <1>1, <1>2, <1>9, <3>1, <3>2 DEF OneCommand, NoneOpen, OpenLast
    <2> QED BY <2>1, <2>2
<1>12. CASE pending
    <2>1. /\ foreground /\ events = <<>> /\ active = NoToken /\ NothingOpen
          /\ shown \notin {"front", "back"}
        BY <1>2, <1>12 DEF Begun, Awaited
    <2>2. ~IsOpen(c) /\ NoneOpen(batch') /\ NoneOpen(commands') /\ NoneOpen(inbox')
        BY <1>1, <1>8, <1>9, <2>1 DEF NothingOpen
    <2>3. NothingOpen'
        BY <2>2 DEF NothingOpen, NoneOpen
    <2>4. \/ events' = <<>>
          \/ events' = Append(events, Report("Ready", c.token, c.token, 0))
        BY <1>4, <1>1, <1>12, <2>1 DEF QueuePendingReady, AlreadyReady
    <2>5. \A i \in 1..Len(events') : i = 1 /\ Len(events') = 1 /\ events'[i].kind = "Ready"
        <3>1. CASE events' = <<>>
            BY <3>1, Empty
        <3>2. CASE events' = Append(events, Report("Ready", c.token, c.token, 0))
            <4>1. events' = <<Report("Ready", c.token, c.token, 0)>>
                BY <2>1, <3>2
            <4>2. Report("Ready", c.token, c.token, 0).kind = "Ready"
                BY DEF Report
            <4> QED BY <4>1, <4>2
        <3> QED BY <2>4, <3>1, <3>2
    <2>6. LastIsTrue'
        BY <1>1, <2>1, <2>5 DEF LastIsTrue
    <2>7. \A i \in (received' + 1)..Len(events') : IsReport(events'[i]) => LastReport(i)'
        <3>1. received \in Nat /\ received' = received
            BY <1>1 DEF TypeOK
        <3> SUFFICES ASSUME NEW i \in (received' + 1)..Len(events'), IsReport(events'[i])
                     PROVE  LastReport(i)'
            OBVIOUS
        <3>2. i \in 1..Len(events')
            BY <3>1, <2>5
        <3>3. \A j \in (i + 1)..Len(events') : FALSE
            BY <2>5, <3>2
        <3> QED BY <3>3 DEF LastReport
    <2>8. Awaited'
        BY <1>1, <2>1, <2>3, <2>7 DEF Awaited
    <2>9. Begun'
        BY <1>1, <1>4, <1>5, <2>3 DEF Begun
    <2>10. Fresh'
        BY <2>2 DEF Fresh, Newer, NoneOpen, IsOpen
    <2> QED BY <1>11, <2>6, <2>8, <2>9, <2>10 DEF Handshake
<1>13. CASE ~pending
    <2>1. UNCHANGED <<events, lastReady>>
        BY <1>5, <1>13
    <2>2. LastIsTrue' /\ NoneUnread' = NoneUnread
          /\ \A i \in (received' + 1)..Len(events') : IsReport(events'[i]) => LastReport(i)'
        BY <1>1, <1>2, <2>1 DEF LastIsTrue, LastReport, NoneUnread, Awaited
    <2>3. active # NoToken /\ (sends = 0 => NothingOpen)
        BY <1>2, <1>13 DEF Begun
    <2>4. NothingOpen => NothingOpen' /\ ~IsOpen(c)
        BY <1>1, <1>8, <1>9 DEF NothingOpen, NoneOpen
    <2>5. Begun'
        BY <1>1, <1>4, <1>5, <2>3, <2>4 DEF Begun
    <2>6. Awaited'
        BY <1>1, <1>2, <1>5, <2>2, <2>4 DEF Awaited
    <2>7. CASE ~IsOpen(c)
        <3>1. active'.epoch = active.epoch
            <4>1. c.cmd = "Start" \/ c.cmd \in {"EnterBackground", "Shutdown"}
                BY <1>1, <2>3, <2>7 DEF Admits, IsOpen
            <4> QED BY <1>1, <2>3, <4>1 DEF Admits
        <3>2. NoneOpen(commands')
            BY <1>9, <2>7
        <3>3. Newer(inbox)' /\ Newer(batch)'
            BY <1>1, <1>2, <1>8, <3>1 DEF Fresh, Newer
        <3>4. Fresh'
            BY <3>2, <3>3 DEF Fresh, NoneOpen
        <3> QED BY <1>11, <2>2, <2>5, <2>6, <3>4 DEF Handshake
    <2>8. CASE IsOpen(c)
        <3>1. batch' = <<>> /\ inbox' = <<>>
            BY <1>1, <1>2, <1>4, <1>8, <2>8 DEF OneCommand, NoneOpen
        <3>2. Newer(inbox)' /\ Newer(batch)'
            BY <3>1, Empty DEF Newer
        <3>3. \A i \in 1..Len(commands') : IsOpen(commands'[i]) => commands'[i] = c
            BY <1>6, <1>10 DEF NoneOpen
        <3>4. c.cmd = "EnterForeground" => lastReady'.epoch < active'.epoch
            <4>1. c.cmd = "EnterForeground" => active.epoch < c.token.epoch
                BY <1>2, <1>4 DEF Fresh, Newer
            <4> QED BY <1>1, <1>4, <1>7, <2>1, <4>1
        <3>5. Fresh'
            BY <1>1, <3>2, <3>3, <3>4 DEF Fresh
        <3> QED BY <1>11, <2>2, <2>5, <2>6, <3>5 DEF Handshake
    <2> QED BY <2>7, <2>8
<1> QED BY <1>12, <1>13

\* The command that is carried out is the only one there is, and names the
\* active token.
LEMMA OpenIsCarriedOut ==
    ASSUME TypeOK, Handshake, commands # <<>>, IsOpen(Head(commands))
    PROVE  /\ inbox = <<>> /\ batch = <<>> /\ Tail(commands) = <<>>
           /\ ~pending /\ NoneUnread /\ shown \notin {"front", "back"} /\ sends # 0
           /\ Head(commands).token = active /\ Head(commands).token \in Token /\ Behind \in Nat
           /\ Head(commands).cmd = "EnterForeground" => lastReady # active
<1>1. OneCommand /\ Begun /\ Awaited /\ Fresh /\ commands \in Seq(Command)
    BY DEF Handshake, TypeOK
<1>2. Head(commands) = commands[1] /\ 1 \in 1..Len(commands)
    BY <1>1, Taken
<1>3. ~NoneOpen(commands) /\ ~NothingOpen
    BY <1>2 DEF NoneOpen, NothingOpen
<1>4. Tail(commands) = <<>>
    BY <1>1, OpenInQueue DEF OneCommand
<1>5. /\ Head(commands).token = active
      /\ Head(commands).cmd = "EnterForeground" => lastReady.epoch < active.epoch
    BY <1>1, <1>2 DEF Fresh
<1>6. lastReady.epoch < active.epoch => lastReady # active
    BY DEF TypeOK, Token
<1> QED BY <1>1, <1>3, <1>4, <1>5, <1>6, QueueTypes DEF OneCommand, Begun, Awaited

\* A report is queued as the only one to be read, and tells what was done
\* (enter_foreground, report_background_ready).
LEMMA HandleKeepsHandshake ==
    ASSUME TypeOK, Handshake, HandleForeground \/ HandleBackground
    PROVE  Handshake'
<1> DEFINE c == Head(commands)
<1>1. commands # <<>> /\ IsOpen(c) /\ commands' = Tail(commands)
    BY DEF HandleForeground, HandleBackground, Handling, IsOpen
<1>2. /\ inbox = <<>> /\ batch = <<>> /\ commands' = <<>>
      /\ ~pending /\ NoneUnread /\ shown \notin {"front", "back"} /\ sends # 0
      /\ c.token \in Token /\ Behind \in Nat
      /\ c.cmd = "EnterForeground" => lastReady # active
    BY <1>1, OpenIsCarriedOut
<1>3. UNCHANGED <<active, batch, inbox, received, sends, shown>>
    BY DEF HandleForeground, HandleBackground, clientVars, managerVars
<1>4. /\ NoneOpen(commands') /\ OpenLast(commands')
      /\ NoneOpen(<<>>) /\ OpenLast(<<>>) /\ Newer(<<>>)
    BY <1>2, OpenInQueue DEF TypeOK
<1>5. NothingOpen' /\ OneCommand'
    BY <1>2, <1>3, <1>4 DEF NothingOpen, NoneOpen, OneCommand, OpenLast
<1>6. Fresh'
    BY <1>2, <1>3, <1>4 DEF Fresh, Newer, NoneOpen
<1>7. pending' = FALSE
    BY <1>2 DEF HandleForeground, HandleBackground, QueuePendingReady, clientVars
<1>8. Begun'
    BY <1>2, <1>3, <1>5, <1>7 DEF Begun, Handshake
<1>9. received \in Nat /\ received <= Len(events) /\ Len(events) \in Nat
    BY DEF TypeOK
<1>10. ASSUME NEW n \in {Len(events) + 1, Len(events) + 2}, Len(events') = n,
              \A i \in 1..Len(events) : events'[i] = events[i],
              \A i \in (Len(events) + 1)..(n - 1) : ~IsReport(events'[i]),
              IsReport(events'[n]), foreground' = (events'[n].kind = "Ready")
       PROVE  Handshake'
    <2>1. \A i \in 1..n : i = n \/ ~LastReport(i)'
        BY <1>9, <1>10 DEF LastReport
    <2>2. LastIsTrue'
        BY <1>10, <2>1 DEF LastIsTrue
    <2>3. \A i \in (received' + 1)..n : IsReport(events'[i]) => i = n
        <3> SUFFICES ASSUME NEW i \in (received + 1)..n, IsReport(events'[i])
                     PROVE  i = n
            BY <1>3
        <3>1. i \in Nat /\ i >= received + 1 /\ i <= n /\ n \in Nat
            BY <1>9, <1>10
        <3>2. CASE i <= Len(events)
            <4>1. i \in (received + 1)..Len(events) /\ i \in 1..Len(events)
                BY <1>9, <3>1, <3>2
            <4> QED BY <1>2, <1>10, <4>1 DEF NoneUnread
        <3>3. CASE i > Len(events) /\ i < n
            <4>1. i \in (Len(events) + 1)..(n - 1)
                BY <1>9, <3>1, <3>3
            <4> QED BY <1>10, <4>1
        <3> QED BY <1>9, <3>1, <3>2, <3>3
    <2>4. LastReport(n)'
        BY <1>9, <1>10 DEF LastReport
    <2>5. Awaited'
        BY <1>2, <1>3, <1>5, <1>10, <2>3, <2>4 DEF Awaited
    <2> QED BY <1>5, <1>6, <1>8, <2>2, <2>5 DEF Handshake
<1>11. events \in Seq(Event) /\ active \in Token
    BY DEF TypeOK
<1> HIDE DEF c
<1>12. CASE HandleForeground
    <2>1. c.cmd = "EnterForeground" /\ foreground' = TRUE /\ QueuePendingReady(TRUE, active, c.token, Behind)
        BY <1>12 DEF HandleForeground, Handling, EventToken, c
    <2>2. events' = Append(events, Report("Ready", active, c.token, Behind))
        BY <1>2, <2>1 DEF QueuePendingReady, AlreadyReady
    <2>3. Report("Ready", active, c.token, Behind) \in Event /\ Report("Ready", active, c.token, Behind).kind = "Ready"
        BY <1>2, <1>11 DEF Report, Event, Kinds
    <2>4. /\ Len(events') = Len(events) + 1
          /\ \A i \in 1..Len(events) : events'[i] = events[i]
          /\ events'[Len(events) + 1].kind = "Ready"
        BY <1>11, <2>2, <2>3
    <2> DEFINE n == Len(events) + 1
    <2>5. \A i \in (Len(events) + 1)..(n - 1) : FALSE
        BY <1>9
    <2>6. n \in {Len(events) + 1, Len(events) + 2}
        OBVIOUS
    <2>7. Len(events') = n /\ IsReport(events'[n]) /\ foreground' = (events'[n].kind = "Ready")
        BY <2>1, <2>4 DEF IsReport
    <2> HIDE DEF n
    <2> QED BY <1>10, <2>4, <2>5, <2>6, <2>7
<1>13. CASE HandleBackground
    <2> DEFINE p == Report("StateSaved", active, c.token, Behind)
               q == Report("BackgroundReady", active, c.token, Behind)
    <2>1. foreground' = FALSE /\ events' = Append(Append(events, p), q)
        BY <1>13 DEF HandleBackground, EventToken, c
    <2>2. p \in Event /\ q \in Event /\ p.kind = "StateSaved" /\ q.kind = "BackgroundReady"
        BY <1>2, <1>11 DEF Report, Event, Kinds
    <2> HIDE DEF p, q
    <2>3. /\ Len(events') = Len(events) + 2
          /\ \A i \in 1..Len(events) : events'[i] = events[i]
          /\ events'[Len(events) + 1] = p /\ events'[Len(events) + 2] = q
        BY <1>11, <2>1, <2>2
    <2>5. ~IsReport(p) /\ IsReport(q)
        BY <2>2 DEF IsReport
    <2> DEFINE n == Len(events) + 2
    <2>4. \A i \in (Len(events) + 1)..(n - 1) : ~IsReport(events'[i])
        <3>1. \A i \in (Len(events) + 1)..(n - 1) : i = Len(events) + 1
            BY <1>9
        <3> QED BY <2>3, <2>5, <3>1
    <2>6. n \in {Len(events) + 1, Len(events) + 2}
        OBVIOUS
    <2>7. Len(events') = n /\ IsReport(events'[n]) /\ foreground' = (events'[n].kind = "Ready")
        BY <2>1, <2>2, <2>3, <2>5
    <2> HIDE DEF n
    <2> QED BY <1>10, <2>3, <2>4, <2>6, <2>7
<1> QED BY <1>12, <1>13

\* Before the process ends, every step keeps the handshake.
LEMMA HandshakeStep ==
    ASSUME TokenInv, serial, InLoop => Handshake, [Next]_vars, InLoop'
    PROVE  Handshake'
<1>1. TypeOK /\ EpochsKnown /\ TokensInOrder
    BY DEF TokenInv
<1>2. CASE ReadFails \/ RejectFrame \/ FlushFails \/ HandleFails \/ HandleShutdown \/ Finish \/ Exit
    BY <1>2 DEF ReadFails, RejectFrame, FlushFails, HandleFails, HandleShutdown, Finish, Exit, Fail, InLoop
<1>3. CASE UNCHANGED vars
    BY <1>3 DEF vars, reactorVars, clientVars, pollVars, managerVars, InLoop, Handshake,
                OneCommand, Begun, Awaited, Fresh, LastIsTrue, LastReport, NothingOpen, NoneOpen,
                OpenLast, Newer, NoneUnread
<1>4. CASE Turn \/ PollDone \/ HangUp
    <2>1. UNCHANGED <<foreground, clientVars, batch, commands, inbox, events, received, managerVars>>
          /\ InLoop
        BY <1>4 DEF Turn, PollDone, HangUp, Fail, InLoop, pollVars, reactorVars
    <2> QED BY <2>1 DEF clientVars, managerVars, Handshake, OneCommand, Begun, Awaited, Fresh,
                        LastIsTrue, LastReport, NothingOpen, NoneOpen, OpenLast, Newer, NoneUnread
<1>5. CASE Stopped
    BY <1>3, <1>5 DEF Stopped
<1>6. CASE \E c \in Command : Send(c)
    <2>1. InLoop
        BY <1>6 DEF Send, InLoop
    <2> QED BY <1>1, <1>6, <2>1, SendKeepsHandshake
<1>7. CASE Receive
    <2>1. InLoop
        BY <1>7 DEF Receive, InLoop
    <2> QED BY <1>1, <1>7, <2>1, ReceiveKeepsHandshake
<1>8. CASE Read \/ IgnoreFrame \/ HandleNothing
    <2>1. InLoop
        BY <1>8 DEF Read, IgnoreFrame, HandleNothing, Handling, InLoop
    <2> QED BY <1>1, <1>8, <2>1, TakingKeepsHandshake
<1>9. CASE AdmitFrame
    <2>1. InLoop
        BY <1>9 DEF AdmitFrame, InLoop
    <2> QED BY <1>1, <1>9, <2>1, AdmitKeepsHandshake
<1>10. CASE HandleForeground \/ HandleBackground
    <2>1. InLoop
        BY <1>10 DEF HandleForeground, HandleBackground, Handling, InLoop
    <2> QED BY <1>1, <1>10, <2>1, HandleKeepsHandshake
<1> QED BY <1>2, <1>3, <1>4, <1>5, <1>6, <1>7, <1>8, <1>9, <1>10 DEF Next, Loop

\* A manager does not change its ways.
LEMMA SerialStays ==
    ASSUME [Next]_vars
    PROVE  serial' = serial
<1>1. CASE \/ (\E c \in Command : Send(c)) \/ Receive \/ HangUp \/ FlushFails \/ HandleFails
           \/ Stopped \/ UNCHANGED vars
    BY <1>1 DEF Send, Receive, HangUp, FlushFails, HandleFails, Stopped, vars, managerVars
<1>2. CASE \/ Read \/ ReadFails \/ AdmitFrame \/ IgnoreFrame \/ RejectFrame \/ PollDone \/ HandleNothing
           \/ HandleForeground \/ HandleBackground \/ HandleShutdown \/ Turn \/ Finish \/ Exit
    BY <1>2 DEF Read, ReadFails, Fail, AdmitFrame, IgnoreFrame, RejectFrame, PollDone, HandleNothing,
                HandleForeground, HandleBackground, HandleShutdown, Turn, Finish, Exit, managerVars
<1> QED BY <1>1, <1>2 DEF Next, Loop

\* Nothing is open at first.
LEMMA InitSerial == Init => SerialInv
<1> SUFFICES ASSUME Init PROVE SerialInv
    OBVIOUS
<1>1. /\ Len(events) = 0 /\ Len(inbox) = 0 /\ Len(batch) = 0 /\ Len(commands) = 0
      /\ received = 0
    BY Empty DEF Init
<1>2. NothingOpen /\ OneCommand /\ Fresh /\ LastIsTrue /\ NoneUnread
    BY <1>1 DEF NothingOpen, NoneOpen, OneCommand, OpenLast, Fresh, Newer, LastIsTrue, NoneUnread
<1>3. Begun /\ Awaited
    BY <1>1, <1>2 DEF Init, Begun, Awaited, NoneUnread
<1> QED BY <1>2, <1>3, InitTokens DEF SerialInv, Handshake

\* Every step keeps the handshake, ...
LEMMA StepSerial == SerialInv /\ [Next]_vars => SerialInv'
<1> SUFFICES ASSUME SerialInv, [Next]_vars PROVE SerialInv'
    OBVIOUS
<1>1. TokenInv /\ (serial /\ InLoop => Handshake)
    BY DEF SerialInv
<1>2. serial' = serial
    BY SerialStays
<1> QED BY <1>1, <1>2, StepTokens, HandshakeStep DEF SerialInv

\* ... so it always holds.
LEMMA AlwaysSerial == Spec => []SerialInv
  BY InitSerial, StepSerial, PTL DEF Spec

\* To a manager that waits for its answers, the last Ready or BackgroundReady
\* tells whether the page is shown (enter_foreground, enter_background).
THEOREM LastReportIsAlwaysTrue == Spec => []LastReportIsTrue
<1>1. SerialInv => LastReportIsTrue
    BY DEF SerialInv, Handshake, LastIsTrue, InLoop, LastReportIsTrue
<1> QED BY <1>1, AlwaysSerial, PTL

=============================================================================
