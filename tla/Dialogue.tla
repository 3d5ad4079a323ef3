------------------------------ MODULE Dialogue ------------------------------
(***************************************************************************)
(* What MagicPaper promises its writer about ink, whatever the reactor     *)
(* does in between.  There is one page.  Ink put on it is either still     *)
(* there, or carried by the one question being asked, or gone.  While a    *)
(* question is being asked no ink can be added, so the answer is about all *)
(* of the page; a page is remembered only as the one just answered, and    *)
(* never twice.                                                            *)
(***************************************************************************)
EXTENDS Naturals

CONSTANT Versions        \* identities of inked pages, from 1 on; 0 is blank

VARIABLES
    page,       \* the ink on the paper
    asking,     \* the ink the question in progress was asked about
    memory      \* the inked pages remembered with their answers

Init == page = 0 /\ asking = 0 /\ memory = {}

\* The pen adds ink or the eraser takes some away.
Write == /\ asking = 0
         /\ page' \in (Versions \cup {0}) \ {page}
         /\ page' # 0 => page' > page
         /\ UNCHANGED <<asking, memory>>

Ask == /\ asking = 0 /\ page # 0
       /\ asking' = page
       /\ UNCHANGED <<page, memory>>

\* The paper drinks the ink it is asking about.
Absorb == /\ asking # 0 /\ page = asking
          /\ page' = 0
          /\ UNCHANGED <<asking, memory>>

Remember == /\ asking # 0 /\ page = 0
            /\ asking \notin memory
            /\ memory' = memory \cup {asking}
            /\ asking' = 0
            /\ UNCHANGED page

\* An answer that cannot be remembered, a dismissed panel, a recall.
Abandon == /\ asking # 0 /\ asking' = 0
           /\ page' = 0
           /\ UNCHANGED memory

Next == Write \/ Ask \/ Absorb \/ Remember \/ Abandon

Spec == Init /\ [][Next]_<<page, asking, memory>>
=============================================================================
