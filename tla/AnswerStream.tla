---------------------------- MODULE AnswerStream ----------------------------
(***************************************************************************)
(* The incremental parser of the model's answer (src/oracle/stream.rs).    *)
(*                                                                         *)
(* The answer is a sequence of pieces.  A position of the answer is the    *)
(* identity of its piece: an Ink event carries the positions it makes      *)
(* visible, so what was shown can be compared with what was answered.      *)
(* White space and quotation marks are no pieces; a "word" is long enough  *)
(* (four bytes with its stop) for a sentence to be cut after it.           *)
(***************************************************************************)
EXTENDS Naturals, Sequences

Piece == {"word",   \* visible text
          "stop",   \* the end of a sentence
          "open",   \* the bracket that opens a directive
          "close",  \* the bracket that closes it
          "mark"}   \* the sentinel before the transcription

\* What a directive at the head of the answer asks for: something that takes
\* the page ("Panel", also a remembered page and a full refresh), the reader,
\* or a page that does not exist.
Route == {"Panel", "Reader", "Err"}

Ink(t)     == [type |-> "Ink", text |-> t]
Plain(k)   == [type |-> k, text |-> <<>>]

\* StreamParser::new.  A sentinel of 0 has not been found.
NewParser == [delivered |-> 0, sentinel |-> 0, routed |-> FALSE, emitted |-> FALSE]

\* The positions among a+1..b of the answer that are in S, in order.
Positions(a, b, S) ==
    LET s[i \in a..b] ==
            IF i = a THEN <<>> ELSE IF i \in S THEN Append(s[i-1], i) ELSE s[i-1]
    IN  s[b]

FirstOf(S) == CHOOSE i \in S : \A j \in S : i <= j
LastOf(S)  == CHOOSE i \in S : \A j \in S : j <= i

Sentinel(p, full) ==
    LET marks == {i \in 1..Len(full) : full[i] = "mark"}
    IN  IF p.sentinel # 0 \/ marks = {} THEN p.sentinel ELSE FirstOf(marks)

\* The answer ends where the sentinel stands.
Effective(p, full) == IF p.sentinel # 0 THEN p.sentinel - 1 ELSE Len(full)

\* Within a+1..b, i belongs to a directive span, closed or not.
InSpan(full, a, i) ==
    \E o \in (a + 1)..i : /\ full[o] = "open"
                          /\ \A c \in (o + 1)..(i - 1) : full[c] # "close"

\* Mutation: spans are not removed after prose.
KeepDirectives(full, a, b) == [i \in 1..(b - a) |-> a + i]

\* strip_directives on one fragment.
StripDirectives(full, a, b) == Positions(a, b, {i \in (a + 1)..b : ~InSpan(full, a, i)})

\* The last complete sentence: something stands before its stop, and the
\* character after the stop has arrived.  "from" when there is none.
SentenceCut(full, from, to) ==
    LET ends == {i \in (from + 2)..(to - 1) : full[i] = "stop"}
    IN  IF ends = {} THEN from ELSE LastOf(ends)

\* One step of the parser: its state and the events it has put out.
Emit(s, full, to) ==
    LET chunk == StripDirectives(full, s.p.delivered, to)
    IN  IF to <= s.p.delivered THEN s
        ELSE [p   |-> [s.p EXCEPT !.delivered = to,
                                  !.emitted = @ \/ chunk # <<>>],
              out |-> IF chunk = <<>> THEN s.out ELSE Append(s.out, Ink(chunk))]

\* Mutation: every advance looks for a directive at its head.
NeverRouted(p) == FALSE

AlreadyRouted(p) == p.routed

\* route_first: the head of the answer decides whether it is a directive.
\* "wait" holds everything back.
RouteFirst(p, full, done, route) ==
    LET to     == Effective(p, full)
        empty  == p.delivered >= to
        opened == ~empty /\ full[p.delivered + 1] = "open"
        closed == \E c \in (p.delivered + 1)..to : full[c] = "close"
    IN  IF AlreadyRouted(p) \/ (empty /\ done) \/ (~empty /\ ~opened)
        THEN [p |-> [p EXCEPT !.routed = TRUE], out |-> <<>>, wait |-> FALSE]
        ELSE IF opened /\ closed
        THEN [p |-> [p EXCEPT !.routed = TRUE, !.emitted = TRUE, !.delivered = to],
              out |-> <<Plain(route)>>, wait |-> FALSE]
        ELSE [p |-> p, out |-> IF opened /\ done THEN <<Plain("Err")>> ELSE <<>>,
              wait |-> TRUE]

\* The hidden transcription, and the complaint about an empty answer.
Closing(s, full) ==
    LET hidden == s.p.sentinel # 0 /\ s.p.sentinel < Len(full)
    IN  s.out \o (IF hidden THEN <<Plain("Transcript")>> ELSE <<>>)
              \o (IF s.p.emitted THEN <<>> ELSE <<Plain("Err")>>)

\* advance: feed the whole answer so far.
Advance(p0, full, done, route) ==
    LET p    == [p0 EXCEPT !.sentinel = Sentinel(p0, full)]
        to   == Effective(p, full)
        head == RouteFirst(p, full, done, route)
        s0   == [p |-> head.p, out |-> head.out]
        s1   == Emit(s0, full, SentenceCut(full, head.p.delivered, to))
        s2   == IF p.sentinel # 0 \/ done THEN Emit(s1, full, to) ELSE s1
    IN  IF head.wait THEN s0
        ELSE [p |-> s2.p, out |-> IF done THEN Closing(s2, full) ELSE s2.out]

-----------------------------------------------------------------------------
(* What the writer should see of a whole answer: everything before the     *)
(* mark except the directives.                                             *)

Shown(full) ==
    Positions(0, Len(full), {i \in 1..Len(full) : /\ \A m \in 1..i : full[m] # "mark"
                                                  /\ ~InSpan(full, 0, i)})

\* No sentence ends inside a directive.
SpansAreWhole(full) ==
    \A i \in 1..Len(full) : full[i] = "stop" => ~InSpan(full, 0, i)
=============================================================================
