--------------------------- MODULE EngineDialogue ---------------------------
(***************************************************************************)
(* The reactor of Engine implements the promise of Dialogue.               *)
(***************************************************************************)
EXTENDS Engine

\* A turn is in progress from the commit until it is remembered or given up;
\* a directive from the oracle and a dismissed book list give it up.
InTurn == \/ state.kind \in {"Drinking", "Thinking", "Replying"}
             /\ (state.rx # NoReq \/ turn.reply # {})
          \/ state.kind \in {"ReaderList"} \cup Handoff /\ turn.reply # {}

\* The ink the oracle was really given, not the strokes the turn will be
\* remembered with: the promise is that the two never differ.
asking == IF InTurn THEN captured[turn.id] ELSE 0

Promise == INSTANCE Dialogue WITH
    Versions <- 1..MaxInk,
    page     <- page,
    asking   <- asking,
    memory   <- {m.strokes : m \in memory}

\* Every step of the reactor is a step the promise allows, or changes nothing
\* the writer was promised: a committed page is asked about as it stands, it is
\* drunk only while it is being asked about, nothing is written meanwhile, and
\* the strokes remembered are those of the question answered (start_preask,
\* commit_page, start_user_turn, tick_drinking, complete_reply, recall).
KeepsThePromise == Promise!Spec
=============================================================================
