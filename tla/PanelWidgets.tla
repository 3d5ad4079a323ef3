---------------------------- MODULE PanelWidgets ----------------------------
(***************************************************************************)
(* The paper widgets (src/ui/paper_list.rs, settings.rs, font_settings.rs, *)
(* pi_settings.rs, help.rs, pointer.rs): what a panel draws, what a        *)
(* pointer contact previews, and which action its end means.               *)
(*                                                                         *)
(* A spot is where a contact touches: the "place" of a drawn row, or the   *)
(* blank part of the panel.  A row is counted on its page, from 1, as the  *)
(* writer sees it.  Distances are left out: a contact is the kind of       *)
(* gesture GesturePolicy makes of it and the spots it starts and ends at.  *)
(***************************************************************************)
EXTENDS Naturals, Sequences, FiniteSetsExt, SequencesExt

CONSTANTS PageSize,        \* rows a page of a list has room for
          MaxCandidates    \* MAX_CANDIDATES: books offered at most

ASSUME WidgetAssumption == PageSize \in Nat \ {0} /\ MaxCandidates \in Nat \ {0}

Tools == {"pen", "finger"}
Spot(place, row) == [place |-> place, row |-> row]
Blank == Spot("blank", 0)

\* The elements of a finite set one after the other, by a total order.
InOrder(S, Precedes(_, _)) ==
    LET place(x) == Cardinality({y \in S : Precedes(y, x)}) + 1
    IN  [n \in 1..Cardinality(S) |-> CHOOSE x \in S : place(x) = n]

-----------------------------------------------------------------------------
(* PaperList.                                                              *)

Least(a, b) == IF a < b THEN a ELSE b
Pages(rows) == IF rows = 0 THEN 0 ELSE ((rows - 1) \div PageSize) + 1

\* redraw: a list that became shorter shows its last page.
DrawnPage(page, rows) == IF rows = 0 THEN 0 ELSE Least(page, Pages(rows) - 1)

\* The rows drawn on a page: how many, and what stands in the n-th of them.
RowsOn(page, lines) == Least(PageSize, Len(lines) - page * PageSize)
LineAt(page, lines, row) == lines[page * PageSize + row]

\* Mutation: rows are numbered from 1 on every page.
NumberOnPage(page, row) == row

\* Row.number: the number the stores know the row by.
RowNumber(page, row) == page * PageSize + row

\* What there is to touch: a card of books is one target, other rows have text
\* and, for tasks, a box at the right.
ListSpots(page, lines, kind) ==
    {Blank} \cup
    {Spot(place, row) : row \in 1..RowsOn(page, lines),
                        place \in CASE kind = "Reader" -> {"card"}
                                    [] kind = "Task"   -> {"card", "text", "box"}
                                    [] OTHER           -> {"card", "text"}}

\* begin_preview
ListPreview(tool, spot, lines, kind) ==
    CASE spot.place = "box" \/ (kind = "Reader" /\ spot.place = "card") -> "press"
      [] tool = "pen" /\ kind # "Reader" /\ lines # <<>>                -> "strike"
      [] OTHER                                                          -> "none"

\* The gestures a contact can be.  "crosses": the line of a strike meets the
\* text of the row it starts in, which it does when it starts on the text.
NoGesture == [kind |-> "none", at |-> Blank, crosses |-> FALSE]
Gesture(kind, spot) == [NoGesture EXCEPT !.kind = kind, !.at = spot]

\* GesturePolicy::classify.  A tap may end a little beside where it began.
Classified(tool, from) ==
    {NoGesture, Gesture("up", from), Gesture("down", from), Gesture("sideways", from),
     Gesture("tap", from), Gesture("tap", Blank)} \cup
    (IF tool # "pen" THEN {}
     ELSE {[Gesture("strike", from) EXCEPT !.crosses = c] :
               c \in IF from.place = "text" THEN {TRUE} ELSE BOOLEAN})

\* finish_modal_contact with release_gesture: a pressed target is tapped, unless
\* the contact has left it, which like an unclear strike only redraws.  A
\* contact without a preview may mean nothing.
Released(preview, tool, from) ==
    CASE preview = "press"  -> {Gesture("tap", from), Gesture("sideways", from)}
      [] preview = "strike" -> Classified(tool, from) \ {NoGesture}
      [] OTHER              -> Classified(tool, from)

\* interact
ListAction(gesture, page, kind) ==
    LET number == RowNumber(page, gesture.at.row)
    IN  CASE gesture.kind = "none" -> [do |-> "nothing", number |-> 0]
          [] gesture.kind = "tap" /\ gesture.at = Blank ->
                 [do |-> "dismiss", number |-> 0]
          [] gesture.kind = "tap" /\ gesture.at.place = "box" ->
                 [do |-> "toggle", number |-> number]
          [] gesture.kind = "tap" /\ gesture.at.place = "card" /\ kind = "Reader" ->
                 [do |-> "select", number |-> number]
          [] gesture.kind = "tap" /\ gesture.at.place = "card" /\ kind # "Reader" ->
                 [do |-> "dismiss", number |-> 0]
          [] gesture.kind = "strike" /\ gesture.crosses /\ gesture.at # Blank
                 /\ kind # "Reader" -> [do |-> "delete", number |-> number]
          [] OTHER -> [do |-> "redraw", number |-> 0]

\* interact, a vertical swipe: the page that is shown next.
TurnedPage(gesture, page, lines) ==
    CASE gesture.kind = "up"   -> IF Pages(Len(lines)) = 0 THEN 0
                                  ELSE Least(page + 1, Pages(Len(lines)) - 1)
      [] gesture.kind = "down" -> IF page = 0 THEN 0 ELSE page - 1
      [] OTHER                 -> page

-----------------------------------------------------------------------------
(* Panels of cards and sliders.  A slider ends at a value; a card that is  *)
(* left by the contact that pressed it only redraws the panel.             *)

\* interact of SettingsPanel, FontPanel and PiSettingsPanel: what the contact
\* that began at "from" asks for.  "blank" is beside every card.
CardPreview(spot) == IF spot.place \in {"blank", "inert"} THEN "none" ELSE "press"

CardActions(spot) ==
    CASE spot.place = "blank" -> {"dismiss", "redraw", "nothing"}
      [] spot.place = "inert" -> {"redraw", "dismiss", "nothing"}
      [] OTHER                -> {spot.place, "redraw"}

-----------------------------------------------------------------------------
(* Catalog::lookup of src/reader.rs.                                       *)

\* How well each title answers the query: 0 exactly, 1 one contains the other,
\* 2 and 3 within the edit distance, 4 not at all.
Ranks == 0..4

Best(match) ==
    LET all == DOMAIN match
        of(r) == {b \in all : match[b] = r}
    IN  IF of(0) # {} THEN of(0) ELSE IF of(1) # {} THEN of(1) ELSE of(2) \cup of(3)

Before(match, a, b) == match[a] < match[b] \/ (match[a] = match[b] /\ a < b)

\* collapse: one book is opened, several are offered, the best first.
Offered(match) ==
    LET order == InOrder(Best(match), LAMBDA a, b : Before(match, a, b))
    IN  SubSeq(order, 1, Least(Len(order), MaxCandidates))

=============================================================================
