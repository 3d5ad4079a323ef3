---------------------------- MODULE AnswerInkProofs ----------------------------
(***************************************************************************)
(* What the writer reads is what was answered, for every answer and every  *)
(* way in which it is cut into frames and batches: the reply and what is   *)
(* still in its channel are the beginning of the visible answer, and what  *)
(* is persisted is all of it.  Both hold while no sentence ends inside a   *)
(* directive (SplitSpans is FALSE); run answer_directive shows what        *)
(* becomes of a directive otherwise.                                       *)
(*                                                                         *)
(* Told says what a held request has brought so far, by what its parser    *)
(* has delivered; each step of a worker adds to it (Adds), and the reactor *)
(* only moves it from the channel into the reply.                          *)
(***************************************************************************)
EXTENDS AnswerProofs

-----------------------------------------------------------------------------
(* The invariant.                                                          *)

\* The visible pieces among the first b of an answer.
Clear(said)      == {i \in 1..Len(said) : ~InSpan(said, 0, i)}
Cleared(said, b) == Positions(0, b, Clear(said))

\* Every directive that begins before d ends before it.
Closed(said, d) == \A o \in 1..d : said[o] = "open" => \E c \in (o + 1)..d : said[c] = "close"

\* The parser has found the first mark, or there is none.
Marks(p, said) ==
    IF p.sentinel = 0 THEN \A i \in 1..Len(said) : said[i] # "mark"
    ELSE /\ p.sentinel \in 1..Len(said) /\ said[p.sentinel] = "mark"
         /\ \A i \in 1..(p.sentinel - 1) : said[i] # "mark"

\* It stands after a whole number of directives, or where the answer ends.
Between(p, said) ==
    Closed(said, p.delivered) \/ (p.sentinel # 0 /\ p.delivered = Effective(p, said))

\* What a parser has delivered is the ink it has put out.
Delivers(p, said, brought) ==
    /\ Marks(p, said) /\ p.delivered <= Effective(p, said)
    /\ brought = Cleared(said, p.delivered)

\* What a worker that lives has brought, and what one has that ended.
Tells(w, brought) ==
    /\ SpansAreWhole(w.answer) /\ Delivers(w.parser, w.answer, brought)
    /\ Between(w.parser, w.answer)
HasError(events) == \E i \in 1..Len(events) : events[i].type = "Err"
Concludes(w, events, brought) ==
    \/ HasError(events) /\ Prefix(brought, Shown(w.answer))
    \/ w.outcome = "done" /\ brought = Shown(w.answer)

\* The channel begins with what takes the page instead of a reply.
Takes(events) == events # <<>> /\ events[1].type \notin {"Ink", "Transcript"}

Replied(r) == r = turn /\ page = "replying"
Brought(r) == (IF Replied(r) THEN reply ELSE <<>>) \o InkOf(chan[r])
Told(r) == IF Alive(r) THEN Tells(worker[r], Brought(r))
           ELSE Concludes(worker[r], chan[r], Brought(r))

\* Nobody but its receiver ends a request that has one.
Unspoilt(w) == w.stage # "none" /\ (w.stage # "ended" => w.outcome = "none" /\ ~w.cancelled)

Honest(r) == Unspoilt(worker[r]) /\ ((~Replied(r) /\ Takes(chan[r])) \/ Told(r))
InkInv    == \A r \in held : Honest(r)

\* What the stream had brought when it ended is what is persisted.
WholeAnswer(text) == text = <<LocalReply>> \/ (truth.outcome = "done" /\ text = truth.shown)
TruthInv ==
    /\ page = "replying" /\ turn = NoReq /\ ~failed /\ reply # <<>> => WholeAnswer(reply)
    /\ remembered # <<>> => page = "visible" /\ WholeAnswer(remembered)

-----------------------------------------------------------------------------
(* The pieces of an answer.                                                *)

\* A sequence is the beginning of itself and more.
LEMMA Beginning ==
    ASSUME NEW s \in Seq(Nat), NEW t \in Seq(Nat)
    PROVE  Prefix(s, s \o t) /\ Prefix(s, s)
<1>1. /\ Len(s \o t) = Len(s) + Len(t) /\ s \o t \in Seq(Nat)
      /\ \A i \in 1..Len(s) : (s \o t)[i] = s[i]
    BY ConcatProperties
<1>2. PICK u \in Seq(Nat) : u = s \o t
    BY <1>1
<1>3. SubSeq(u, 1, Len(s)) = s /\ Len(s) <= Len(u)
    BY <1>1, <1>2
<1>4. SubSeq(s, 1, Len(s)) = s
    OBVIOUS
<1> QED BY <1>2, <1>3, <1>4 DEF Prefix

\* An element at the end of what is joined is at the end of the second.
LEMMA AppendJoined ==
    ASSUME NEW s \in Seq(Nat), NEW t \in Seq(Nat), NEW e \in Nat
    PROVE  Append(s \o t, e) = s \o Append(t, e)
<1>1. s \o t \in Seq(Nat) /\ <<e>> \in Seq(Nat)
    BY ConcatProperties
<1>2. Append(s \o t, e) = (s \o t) \o <<e>> /\ Append(t, e) = t \o <<e>>
    BY <1>1, AppendIsConcat
<1> QED BY <1>1, <1>2, Regroup

\* Only the numbers that lie in the fragment matter.
LEMMA PositionsSame ==
    ASSUME NEW a \in Nat, NEW b \in Nat, a <= b, NEW S, NEW T,
           \A i \in (a + 1)..b : i \in S <=> i \in T
    PROVE  Positions(a, b, S) = Positions(a, b, T)
<1> DEFINE P == {n \in Nat : a + n <= b => Positions(a, a + n, S) = Positions(a, a + n, T)}
<1>1. 0 \in P
  <2>1. a + 0 = a
    OBVIOUS
  <2> QED BY <2>1, PositionsStart
<1>2. ASSUME NEW n \in Nat, n \in P PROVE n + 1 \in P
  <2> SUFFICES ASSUME a + (n + 1) <= b
               PROVE  Positions(a, a + (n + 1), S) = Positions(a, a + (n + 1), T)
    OBVIOUS
  <2>1. Positions(a, a + n, S) = Positions(a, a + n, T)
    BY <1>2
  <2>2. PICK k \in Nat : k = a + n /\ a <= k /\ k + 1 = a + (n + 1) /\ k + 1 \in (a + 1)..b
    OBVIOUS
  <2>3. k + 1 \in S <=> k + 1 \in T
    BY <2>2
  <2> QED BY <2>1, <2>2, <2>3, PositionsNext
<1>3. b - a \in Nat /\ a + (b - a) = b
    OBVIOUS
<1> HIDE DEF P
<1>4. b - a \in P
    BY <1>1, <1>2, <1>3, Induction
<1> QED BY <1>3, <1>4 DEF P

\* A fragment with none of the numbers.
LEMMA PositionsNone ==
    ASSUME NEW a \in Nat, NEW b \in Nat, a <= b, NEW S, \A i \in (a + 1)..b : i \notin S
    PROVE  Positions(a, b, S) = <<>>
<1> DEFINE P == {n \in Nat : a + n <= b => Positions(a, a + n, S) = <<>>}
<1>1. 0 \in P
  <2>1. a + 0 = a
    OBVIOUS
  <2> QED BY <2>1, PositionsStart
<1>2. ASSUME NEW n \in Nat, n \in P PROVE n + 1 \in P
  <2> SUFFICES ASSUME a + (n + 1) <= b PROVE Positions(a, a + (n + 1), S) = <<>>
    OBVIOUS
  <2>1. Positions(a, a + n, S) = <<>>
    BY <1>2
  <2>2. PICK k \in Nat : k = a + n /\ a <= k /\ k + 1 = a + (n + 1) /\ k + 1 \in (a + 1)..b
    OBVIOUS
  <2> QED BY <2>1, <2>2, PositionsNext
<1>3. b - a \in Nat /\ a + (b - a) = b
    OBVIOUS
<1> HIDE DEF P
<1>4. b - a \in P
    BY <1>1, <1>2, <1>3, Induction
<1> QED BY <1>3, <1>4 DEF P

\* One sequence after the other.
Joins(s, t, all) == all = s \o t

\* Fragments that meet are joined.
LEMMA PositionsJoin ==
    ASSUME NEW a \in Nat, NEW b \in Nat, NEW c \in Nat, a <= b, b <= c, NEW S
    PROVE  Joins(Positions(a, b, S), Positions(b, c, S), Positions(a, c, S))
<1> DEFINE P == {n \in Nat : Positions(a, b + n, S) = Positions(a, b, S) \o Positions(b, b + n, S)}
<1>1. 0 \in P
  <2>1. b + 0 = b
    OBVIOUS
  <2>2. Positions(b, b, S) = <<>> /\ Positions(a, b, S) \in Seq(Nat)
    BY PositionsStart, PositionsType
  <2> QED BY <2>1, <2>2, ConcatEmptySeq
<1>2. ASSUME NEW n \in Nat, n \in P PROVE n + 1 \in P
  <2>1. PICK k \in Nat : k = b + n /\ a <= k /\ b <= k /\ k + 1 = b + (n + 1)
    OBVIOUS
  <2>2. Positions(a, k, S) = Positions(a, b, S) \o Positions(b, k, S)
    BY <1>2, <2>1
  <2>3. PICK u \in Seq(Nat) : u = Positions(a, b, S)
    BY PositionsType
  <2>4. PICK v \in Seq(Nat) : v = Positions(b, k, S)
    BY <2>1, PositionsType
  <2>5. /\ Positions(a, k + 1, S) = IF k + 1 \in S THEN Append(u \o v, k + 1) ELSE u \o v
        /\ Positions(b, k + 1, S) = IF k + 1 \in S THEN Append(v, k + 1) ELSE v
    <3>1. Positions(a, k + 1, S) = IF k + 1 \in S THEN Append(Positions(a, k, S), k + 1)
                                   ELSE Positions(a, k, S)
      BY <2>1, PositionsNext
    <3>2. Positions(b, k + 1, S) = IF k + 1 \in S THEN Append(Positions(b, k, S), k + 1)
                                   ELSE Positions(b, k, S)
      BY <2>1, PositionsNext
    <3> QED BY <3>1, <3>2, <2>2, <2>3, <2>4
  <2>6. Append(u \o v, k + 1) = u \o Append(v, k + 1)
    <3>1. PICK e \in Nat : e = k + 1
      OBVIOUS
    <3>2. Append(u \o v, e) = u \o Append(v, e)
      BY AppendJoined
    <3> QED BY <3>1, <3>2
  <2>7. Positions(a, k + 1, S) = u \o Positions(b, k + 1, S)
    BY <2>5, <2>6
  <2> QED BY <2>1, <2>3, <2>7
<1>3. c - b \in Nat /\ b + (c - b) = c
    OBVIOUS
<1> HIDE DEF P
<1>4. c - b \in P
    BY <1>1, <1>2, <1>3, Induction
<1> QED BY <1>3, <1>4 DEF P, Joins

-----------------------------------------------------------------------------
(* Directives and the mark.                                                *)

\* After a whole number of directives, those before do not matter.
LEMMA SpanFrom ==
    ASSUME NEW said \in Seq(Piece), NEW d \in Nat, Closed(said, d), NEW i \in Nat, d < i
    PROVE  InSpan(said, 0, i) <=> InSpan(said, d, i)
<1>1. ASSUME InSpan(said, d, i) PROVE InSpan(said, 0, i)
  <2>1. (d + 1)..i \subseteq (0 + 1)..i
    OBVIOUS
  <2> QED BY <1>1, <2>1 DEF InSpan
<1>2. ASSUME InSpan(said, 0, i) PROVE InSpan(said, d, i)
  <2>1. PICK o \in (0 + 1)..i : said[o] = "open" /\ \A c \in (o + 1)..(i - 1) : said[c] # "close"
    BY <1>2 DEF InSpan
  <2>2. CASE o <= d
    <3>1. PICK c \in (o + 1)..d : said[c] = "close"
      BY <2>1, <2>2 DEF Closed
    <3>2. c \in (o + 1)..(i - 1)
      OBVIOUS
    <3> QED BY <2>1, <3>1, <3>2
  <2>3. CASE ~(o <= d)
    <3>1. o \in (d + 1)..i
      BY <2>3
    <3> QED BY <2>1, <3>1 DEF InSpan
  <2> QED BY <2>2, <2>3
<1> QED BY <1>1, <1>2

\* What an answer has shown stays, however it goes on.
LEMMA Grown ==
    ASSUME NEW said \in Seq(Piece), NEW more \in Seq(Piece), NEW b \in Nat, b <= Len(said)
    PROVE  /\ Cleared(said \o more, b) = Cleared(said, b)
           /\ Closed(said, b) => Closed(said \o more, b)
<1>1. /\ said \o more \in Seq(Piece) /\ Len(said \o more) = Len(said) + Len(more)
      /\ \A i \in 1..Len(said) : (said \o more)[i] = said[i]
    BY ConcatProperties
<1>2. PICK grown \in Seq(Piece) : grown = said \o more
    BY <1>1
<1>3. /\ Len(grown) >= Len(said) /\ \A i \in 1..Len(said) : grown[i] = said[i]
    BY <1>1, <1>2
<1>4. ASSUME NEW i \in 1..Len(said) PROVE InSpan(grown, 0, i) <=> InSpan(said, 0, i)
  <2>1. \A o \in (0 + 1)..i : grown[o] = said[o] /\ \A c \in (o + 1)..(i - 1) : grown[c] = said[c]
    BY <1>3
  <2> QED BY <2>1 DEF InSpan
<1>5. \A i \in (0 + 1)..b : i \in Clear(grown) <=> i \in Clear(said)
  <2>1. \A i \in (0 + 1)..b : i \in 1..Len(said) /\ i \in 1..Len(grown)
    BY <1>3
  <2> QED BY <2>1, <1>4 DEF Clear
<1>6. Cleared(grown, b) = Cleared(said, b)
    BY <1>5, PositionsSame DEF Cleared
<1>7. ASSUME Closed(said, b) PROVE Closed(grown, b)
  <2>1. \A o \in 1..b : grown[o] = said[o] /\ \A c \in (o + 1)..b : grown[c] = said[c]
    BY <1>3
  <2> QED BY <2>1, <1>7 DEF Closed
<1> QED BY <1>2, <1>6, <1>7

\* Where a sentence ends no directive is open.
LEMMA StopCloses ==
    ASSUME NEW said \in Seq(Piece), SpansAreWhole(said), NEW cut \in 1..Len(said), said[cut] = "stop"
    PROVE  Closed(said, cut)
<1> SUFFICES ASSUME NEW o \in 1..cut, said[o] = "open", \A c \in (o + 1)..cut : said[c] # "close"
             PROVE  FALSE
    BY DEF Closed
<1>1. InSpan(said, 0, cut)
  <2>1. o \in (0 + 1)..cut /\ \A c \in (o + 1)..(cut - 1) : said[c] # "close"
    OBVIOUS
  <2> QED BY <2>1 DEF InSpan
<1> QED BY <1>1 DEF SpansAreWhole

\* A fragment after a whole number of directives shows what the answer does.
LEMMA Stripped ==
    ASSUME NEW said \in Seq(Piece), NEW d \in Nat, NEW to \in Nat, d <= to, to <= Len(said),
           Closed(said, d)
    PROVE  /\ StripDirectives(said, d, to) \in Seq(Nat) /\ Cleared(said, d) \in Seq(Nat)
           /\ Cleared(said, d) \o StripDirectives(said, d, to) = Cleared(said, to)
<1> DEFINE S == {i \in (d + 1)..to : ~InSpan(said, d, i)}
<1>1. \A i \in (d + 1)..to : i \in S <=> i \in Clear(said)
  <2> SUFFICES ASSUME NEW i \in (d + 1)..to PROVE i \in S <=> i \in Clear(said)
    OBVIOUS
  <2>1. i \in Nat /\ d < i /\ i \in 1..Len(said)
    OBVIOUS
  <2>2. InSpan(said, 0, i) <=> InSpan(said, d, i)
    BY <2>1, SpanFrom
  <2> QED BY <2>1, <2>2 DEF Clear
<1> HIDE DEF S
<1>2. StripDirectives(said, d, to) = Positions(d, to, Clear(said))
  <2>1. Positions(d, to, S) = Positions(d, to, Clear(said))
    BY <1>1, PositionsSame
  <2> QED BY <2>1 DEF StripDirectives, S
<1>3. Joins(Positions(0, d, Clear(said)), Positions(d, to, Clear(said)), Positions(0, to, Clear(said)))
    BY PositionsJoin
<1>4. Positions(d, to, Clear(said)) \in Seq(Nat) /\ Positions(0, d, Clear(said)) \in Seq(Nat)
    BY PositionsType
<1> QED BY <1>2, <1>3, <1>4 DEF Cleared, Joins

\* The writer should see what is visible before the mark.
LEMMA ShownBeforeMark ==
    ASSUME NEW said \in Seq(Piece), NEW p \in Parser, Marks(p, said)
    PROVE  /\ Effective(p, said) \in Nat /\ Effective(p, said) <= Len(said)
           /\ Shown(said) = Cleared(said, Effective(p, said))
<1> DEFINE S == {i \in 1..Len(said) : (\A m \in 1..i : said[m] # "mark") /\ ~InSpan(said, 0, i)}
           to == Effective(p, said)
<1>1. to \in Nat /\ to <= Len(said) /\ Len(said) \in Nat
    BY DEF Effective, Marks, Parser
<1>2. \A i \in 1..to : \A m \in 1..i : said[m] # "mark"
    BY <1>1 DEF Effective, Marks, Parser
<1>3. \A i \in (0 + 1)..to : i \in S <=> i \in Clear(said)
    BY <1>1, <1>2 DEF Clear
<1>4. \A i \in (to + 1)..Len(said) : i \notin S
  <2>1. CASE p.sentinel = 0
    BY <2>1 DEF Effective
  <2>2. CASE p.sentinel # 0
    <3>1. said[p.sentinel] = "mark" /\ p.sentinel = to + 1 /\ p.sentinel \in 1..Len(said)
      BY <2>2 DEF Marks, Effective, Parser
    <3> QED BY <3>1, <1>1
  <2> QED BY <2>1, <2>2
<1>5. Shown(said) = Positions(0, Len(said), S)
    BY DEF Shown
<1> HIDE DEF S, to
<1>6. Joins(Positions(0, to, S), Positions(to, Len(said), S), Positions(0, Len(said), S))
    BY <1>1, PositionsJoin
<1>7. Positions(to, Len(said), S) = <<>>
    BY <1>1, <1>4, PositionsNone
<1>8. Positions(0, to, S) = Positions(0, to, Clear(said)) /\ Positions(0, to, S) \in Seq(Nat)
    BY <1>1, <1>3, PositionsSame, PositionsType
<1>9. Positions(0, to, S) \o <<>> = Positions(0, to, S)
    BY <1>8, ConcatEmptySeq
<1> QED BY <1>1, <1>5, <1>6, <1>7, <1>8, <1>9 DEF Cleared, to, Joins

\* What was delivered is the beginning of it.
LEMMA DeliveredIsABeginning ==
    ASSUME NEW said \in Seq(Piece), NEW p \in Parser, NEW brought, Delivers(p, said, brought)
    PROVE  brought \in Seq(Nat) /\ Prefix(brought, Shown(said))
<1>1. PICK d \in Nat : d = p.delivered
    BY DEF Parser
<1>2. PICK to \in Nat : to = Effective(p, said) /\ d <= to
    BY <1>1, ShownBeforeMark DEF Delivers
<1>3. brought = Positions(0, d, Clear(said)) /\ Shown(said) = Positions(0, to, Clear(said))
    BY <1>1, <1>2, ShownBeforeMark DEF Delivers, Cleared
<1>4. Joins(Positions(0, d, Clear(said)), Positions(d, to, Clear(said)), Positions(0, to, Clear(said)))
    BY <1>2, PositionsJoin
<1>5. Positions(0, d, Clear(said)) \in Seq(Nat) /\ Positions(d, to, Clear(said)) \in Seq(Nat)
    BY <1>2, PositionsType
<1> QED BY <1>3, <1>4, <1>5, Beginning DEF Joins

-----------------------------------------------------------------------------
(* The ink of events.                                                      *)

\* An event at the end of what is joined is at the end of the second.
LEMMA EventJoined ==
    ASSUME NEW s \in Seq(StreamEvent), NEW t \in Seq(StreamEvent), NEW e \in StreamEvent
    PROVE  s \o Append(t, e) = Append(s \o t, e)
<1>1. s \o t \in Seq(StreamEvent) /\ <<e>> \in Seq(StreamEvent)
    BY ConcatProperties
<1>2. Append(s \o t, e) = (s \o t) \o <<e>> /\ Append(t, e) = t \o <<e>>
    BY <1>1, AppendIsConcat
<1>3. (s \o t) \o <<e>> = s \o (t \o <<e>>)
    BY <1>1, ConcatAssociative, SMTT(30)
<1> QED BY <1>2, <1>3

\* One event more of a sequence.
LEMMA OneMore ==
    ASSUME NEW t \in Seq(StreamEvent), NEW n \in Nat, n + 1 <= Len(t)
    PROVE  SubSeq(t, 1, n + 1) = Append(SubSeq(t, 1, n), t[n + 1])
<1> DEFINE u == SubSeq(t, 1, n)
           v == SubSeq(t, 1, n + 1)
           e == t[n + 1]
           w == Append(u, e)
<1>1. Len(t) \in Nat /\ n + 1 \in 1..Len(t) /\ e \in StreamEvent
    OBVIOUS
<1>2. u \in Seq(StreamEvent) /\ Len(u) = n /\ \A i \in 1..n : u[i] = t[i]
    BY <1>1, SubSeqProperties
<1>3. v \in Seq(StreamEvent) /\ Len(v) = n + 1 /\ \A i \in 1..(n + 1) : v[i] = t[i]
    BY <1>1, SubSeqProperties
<1> HIDE DEF u, v
<1>4. w \in Seq(StreamEvent) /\ Len(w) = n + 1 /\ w[n + 1] = e /\ \A i \in 1..n : w[i] = u[i]
    BY <1>1, <1>2, AppendProperties
<1> HIDE DEF w
<1>5. \A i \in 1..(n + 1) : v[i] = w[i]
  <2>1. \A i \in 1..(n + 1) : i \in 1..n \/ i = n + 1
    OBVIOUS
  <2>2. \A i \in 1..n : v[i] = w[i]
    BY <1>2, <1>3, <1>4
  <2>3. v[n + 1] = w[n + 1]
    BY <1>3, <1>4
  <2> QED BY <2>1, <2>2, <2>3
<1>6. v = w
    BY <1>3, <1>4, <1>5, SeqEqual
<1> QED BY <1>6 DEF u, v, w

\* The ink of events that are joined is joined.
LEMMA InkOfJoin ==
    ASSUME NEW s \in Seq(StreamEvent), NEW t \in Seq(StreamEvent)
    PROVE  Joins(InkOf(s), InkOf(t), InkOf(s \o t))
<1> DEFINE P == {n \in Nat : n <= Len(t) => Joins(InkOf(s), InkOf(SubSeq(t, 1, n)),
                                                  InkOf(s \o SubSeq(t, 1, n)))}
<1>0. Len(t) \in Nat /\ SubSeq(t, 1, Len(t)) = t
    OBVIOUS
<1>1. 0 \in P
  <2>1. SubSeq(t, 1, 0) = <<>>
    OBVIOUS
  <2>2. s \o <<>> = s
    BY ConcatEmptySeq
  <2>3. InkOf(s) \in Seq(Nat) /\ InkOf(<<>>) = <<>>
    BY InkOfType
  <2>4. InkOf(s) \o <<>> = InkOf(s)
    BY <2>3, ConcatEmptySeq
  <2> QED BY <2>1, <2>2, <2>3, <2>4 DEF Joins
<1>2. ASSUME NEW n \in Nat, n \in P PROVE n + 1 \in P
  <2> SUFFICES ASSUME n + 1 <= Len(t)
               PROVE  Joins(InkOf(s), InkOf(SubSeq(t, 1, n + 1)), InkOf(s \o SubSeq(t, 1, n + 1)))
    OBVIOUS
  <2>1. PICK u \in Seq(StreamEvent) : u = SubSeq(t, 1, n)
    <3>1. n \in Nat /\ 1 \in Nat /\ \A i \in 1..n : t[i] \in StreamEvent
      OBVIOUS
    <3>2. SubSeq(t, 1, n) \in Seq(StreamEvent)
      BY <3>1, SubSeqProperties
    <3> QED BY <3>2
  <2>2. PICK e \in StreamEvent : e = t[n + 1]
    <3>1. n + 1 \in 1..Len(t)
      OBVIOUS
    <3> QED BY <3>1
  <2>3. SubSeq(t, 1, n + 1) = Append(u, e)
    BY <1>0, <2>1, <2>2, OneMore
  <2>4. InkOf(s \o u) = InkOf(s) \o InkOf(u)
    BY <1>2, <2>1 DEF Joins
  <2>5. PICK x \in Seq(Nat) : x = InkOf(s)
    BY InkOfType
  <2>6. PICK y \in Seq(Nat) : y = InkOf(u)
    BY InkOfType
  <2>7. PICK z \in Seq(Nat) : z = e.text
    BY DEF StreamEvent, Event
  <2>8. s \o u \in Seq(StreamEvent) /\ s \o Append(u, e) = Append(s \o u, e)
    BY EventJoined, ConcatProperties
  <2>9. InkOf(s \o Append(u, e)) = (x \o y) \o z
    BY <2>4, <2>5, <2>6, <2>7, <2>8, InkOfAppend
  <2>10. InkOf(Append(u, e)) = y \o z
    BY <2>6, <2>7, InkOfAppend
  <2>11. (x \o y) \o z = x \o (y \o z)
    BY Regroup
  <2> QED BY <2>3, <2>5, <2>9, <2>10, <2>11 DEF Joins
<1> HIDE DEF P
<1>3. Len(t) \in P
    BY <1>0, <1>1, <1>2, Induction
<1>4. Joins(InkOf(s), InkOf(SubSeq(t, 1, Len(t))), InkOf(s \o SubSeq(t, 1, Len(t))))
    BY <1>0, <1>3 DEF P
<1> QED BY <1>0, <1>4, Zenon

\* Events without text add no ink.
LEMMA NoInk ==
    ASSUME NEW k \in Route \cup {"Err", "Transcript", "LocalCommand"}
    PROVE  InkOf(<<Plain(k)>>) = <<>> /\ InkOf(<<>>) = <<>>
<1>1. <<>> \in Seq(StreamEvent) /\ <<>> \in Seq(Nat)
    BY EmptySeq
<1>2. Plain(k) \in StreamEvent /\ Plain(k).text = <<>>
    BY EventShapes DEF Plain
<1>3. <<Plain(k)>> = Append(<<>>, Plain(k))
    OBVIOUS
<1>4. InkOf(<<>>) = <<>>
    BY <1>1, InkOfType
<1>5. InkOf(Append(<<>>, Plain(k))) = InkOf(<<>>) \o Plain(k).text
    BY <1>1, <1>2, InkOfAppend
<1>6. <<>> \o <<>> = <<>>
    BY <1>1, ConcatEmptySeq
<1> QED BY <1>2, <1>3, <1>4, <1>5, <1>6

-----------------------------------------------------------------------------
(* One advance of the parser.                                              *)

\* The parser as it is once it has looked for the mark.
Looked(p, p0, said) == p = [p0 EXCEPT !.sentinel = Sentinel(p0, said)]

\* The rest of an answer is looked at for the mark first; what was delivered
\* stays delivered.
LEMMA Feeding ==
    ASSUME NEW said \in Seq(Piece), NEW more \in Seq(Piece), NEW p \in Parser, NEW brought,
           Delivers(p, said, brought), Between(p, said),
           NEW grown, Joins(said, more, grown),
           NEW q, Looked(q, p, grown)
    PROVE  /\ q \in Parser /\ q.routed = p.routed
           /\ Delivers(q, grown, brought) /\ Between(q, grown)
<1>1. /\ grown \in Seq(Piece) /\ Len(grown) = Len(said) + Len(more)
      /\ \A i \in 1..Len(said) : grown[i] = said[i]
    BY ConcatProperties DEF Joins
<1>2. Len(said) \in Nat /\ Len(more) \in Nat /\ Len(grown) >= Len(said)
    BY <1>1
<1> DEFINE marks == {i \in 1..Len(grown) : grown[i] = "mark"}
<1>3. marks # {} => FirstOf(marks) \in marks /\ \A j \in marks : FirstOf(marks) <= j
  <2>1. marks \in SUBSET Nat
    BY <1>2
  <2> QED BY <2>1, FirstOfType
<1>4. Sentinel(p, grown) = IF p.sentinel # 0 \/ marks = {} THEN p.sentinel ELSE FirstOf(marks)
    BY DEF Sentinel
<1>5. /\ q \in Parser /\ q.routed = p.routed /\ q.delivered = p.delivered
      /\ q.sentinel = Sentinel(p, grown) /\ q.delivered \in Nat
  <2>1. Sentinel(p, grown) \in Nat
    BY <1>1, EffectiveType
  <2> QED BY <2>1 DEF Parser, Looked
<1> HIDE DEF marks
<1>6. Marks(q, grown) /\ Effective(p, said) <= Effective(q, grown)
      /\ (p.sentinel # 0 => q.sentinel # 0 /\ Effective(p, said) = Effective(q, grown))
  <2>1. CASE p.sentinel # 0
    <3>1. q.sentinel = p.sentinel
      BY <2>1, <1>4, <1>5
    <3>2. p.sentinel \in 1..Len(said) /\ p.sentinel \in 1..Len(grown)
      BY <2>1, <1>2 DEF Delivers, Marks
    <3>3. said[p.sentinel] = "mark" /\ \A i \in 1..(p.sentinel - 1) : said[i] # "mark"
      BY <2>1 DEF Delivers, Marks
    <3>4. \A i \in 1..(p.sentinel - 1) : i \in 1..Len(said)
      BY <3>2, <1>2
    <3>5. grown[p.sentinel] = "mark" /\ \A i \in 1..(p.sentinel - 1) : grown[i] # "mark"
      BY <3>2, <3>3, <3>4, <1>1
    <3>6. Effective(p, said) = p.sentinel - 1 /\ Effective(q, grown) = p.sentinel - 1
      BY <2>1, <3>1 DEF Effective
    <3> QED BY <2>1, <3>1, <3>2, <3>5, <3>6 DEF Marks
  <2>2. CASE p.sentinel = 0 /\ marks = {}
    <3>1. q.sentinel = 0
      BY <2>2, <1>4, <1>5
    <3>2. \A i \in 1..Len(grown) : grown[i] # "mark"
      BY <2>2 DEF marks
    <3> QED BY <2>2, <3>1, <3>2, <1>2 DEF Marks, Effective
  <2>3. CASE p.sentinel = 0 /\ marks # {}
    <3>1. q.sentinel = FirstOf(marks)
      BY <2>3, <1>4, <1>5
    <3>2. /\ q.sentinel \in 1..Len(grown) /\ grown[q.sentinel] = "mark"
          /\ \A j \in 1..Len(grown) : grown[j] = "mark" => q.sentinel <= j
      BY <2>3, <3>1, <1>3 DEF marks
    <3>3. \A i \in 1..(q.sentinel - 1) : grown[i] # "mark"
      BY <3>2, <1>2
    <3>4. \A i \in 1..Len(said) : said[i] # "mark"
      BY <2>3 DEF Delivers, Marks
    <3>5. q.sentinel \notin 1..Len(said)
      BY <3>2, <3>4, <1>1
    <3>6. Effective(p, said) = Len(said) /\ Effective(q, grown) = q.sentinel - 1
      BY <2>3, <3>2 DEF Effective
    <3>7. q.sentinel \in Nat /\ q.sentinel # 0 /\ Len(said) <= q.sentinel - 1
      BY <3>2, <3>5, <1>2
    <3>8. Marks(q, grown)
      BY <3>2, <3>3, <3>7 DEF Marks
    <3> QED BY <2>3, <3>6, <3>7, <3>8
  <2> QED BY <2>1, <2>2, <2>3
<1>7. /\ p.delivered <= Effective(p, said) /\ Effective(p, said) <= Len(said)
      /\ Effective(p, said) \in Nat /\ Effective(q, grown) \in Nat
  <2>1. Effective(p, said) \in Nat /\ Effective(p, said) <= Len(said)
    BY ShownBeforeMark DEF Delivers
  <2>2. Effective(q, grown) \in Nat
    BY <1>1, <1>5, <1>6, ShownBeforeMark
  <2> QED BY <2>1, <2>2 DEF Delivers
<1>8. p.delivered <= Len(said) /\ q.delivered <= Effective(q, grown)
    BY <1>5, <1>6, <1>7, <1>2
<1>9. /\ Cleared(grown, p.delivered) = Cleared(said, p.delivered)
      /\ Closed(said, p.delivered) => Closed(grown, p.delivered)
    BY <1>5, <1>8, Grown DEF Joins
<1>10. Delivers(q, grown, brought)
    BY <1>5, <1>6, <1>8, <1>9 DEF Delivers
<1>11. Between(q, grown)
    BY <1>5, <1>6, <1>9 DEF Between
<1> QED BY <1>5, <1>10, <1>11

\* A step of the parser: its state and the events it has put out.
Pair(s) == s = [p |-> s.p, out |-> s.out] /\ Parsed(s)

\* Emit delivers what it puts out, when no directive is open where it begins.
LEMMA Emitting ==
    ASSUME NEW s, Pair(s), NEW said \in Seq(Piece), NEW to \in Nat,
           NEW before \in Seq(Nat), Delivers(s.p, said, before \o InkOf(s.out)),
           to <= Effective(s.p, said), s.p.delivered < to => Closed(said, s.p.delivered),
           NEW t, t = Emit(s, said, to)
    PROVE  /\ t.p.delivered = IF to <= s.p.delivered THEN s.p.delivered ELSE to
           /\ t.p.sentinel = s.p.sentinel /\ Pair(t)
           /\ Delivers(t.p, said, before \o InkOf(t.out))
<1>0. s = [p |-> s.p, out |-> s.out] /\ Parsed(s)
    BY DEF Pair
<1>1. PICK d \in Nat : d = s.p.delivered
    BY <1>0 DEF Parsed, Parser
<1>2. PICK events \in Seq(StreamEvent) : events = s.out
    BY <1>0 DEF Parsed
<1>3. CASE to <= d
    BY <1>0, <1>1, <1>3 DEF Emit, Pair
<1>4. CASE ~(to <= d)
  <2>1. /\ Marks(s.p, said) /\ to <= Len(said) /\ d <= to /\ Closed(said, d)
        /\ before \o InkOf(events) = Cleared(said, d)
    <3>1. Marks(s.p, said) /\ s.p \in Parser /\ before \o InkOf(s.out) = Cleared(said, s.p.delivered)
      BY <1>0 DEF Delivers, Parsed
    <3>2. Effective(s.p, said) \in Nat /\ Effective(s.p, said) <= Len(said)
      BY <3>1, ShownBeforeMark
    <3>3. to <= Len(said) /\ d <= to /\ d < to
      BY <3>2, <1>4
    <3> QED BY <3>1, <3>3, <1>1, <1>2
  <2>2. PICK chunk \in Seq(Nat) : chunk = StripDirectives(said, d, to)
    BY <2>1, Stripped
  <2>3. Cleared(said, d) \o chunk = Cleared(said, to)
    BY <2>1, <2>2, Stripped
  <2>4. /\ t.p = [s.p EXCEPT !.delivered = to, !.emitted = @ \/ chunk # <<>>]
        /\ t.out = IF chunk = <<>> THEN events ELSE Append(events, Ink(chunk))
        /\ t = [p |-> t.p, out |-> t.out]
    BY <1>1, <1>0, <1>2, <1>4, <2>2 DEF Emit
  <2>5. /\ t.p \in Parser /\ t.p.delivered = to /\ t.p.sentinel = s.p.sentinel
        /\ t.out \in Seq(StreamEvent)
    <3>1. chunk # <<>> => Ink(chunk) \in StreamEvent
      BY EventShapes
    <3>2. t.out \in Seq(StreamEvent)
      BY <3>1, <2>4
    <3>3. s.p \in Parser
      BY <1>0 DEF Parsed
    <3>4. t.p \in Parser /\ t.p.delivered = to /\ t.p.sentinel = s.p.sentinel
      BY <3>3, <2>4 DEF Parser
    <3> QED BY <3>2, <3>4
  <2>6. PICK ink0 \in Seq(Nat) : ink0 = InkOf(events)
    BY InkOfType
  <2>7. before \o InkOf(t.out) = Cleared(said, to)
    <3>1. CASE chunk = <<>>
      <4>1. Cleared(said, d) \in Seq(Nat)
        BY <2>1, Stripped
      <4>2. Cleared(said, d) = Cleared(said, to)
        BY <4>1, <3>1, <2>3, ConcatEmptySeq
      <4> QED BY <4>2, <3>1, <2>1, <2>4
    <3>2. CASE chunk # <<>>
      <4>1. Ink(chunk) \in StreamEvent /\ Ink(chunk).text = chunk
        BY <3>2, EventShapes DEF Ink
      <4>2. InkOf(t.out) = ink0 \o chunk
        BY <4>1, <3>2, <2>4, <2>6, InkOfAppend
      <4>3. before \o (ink0 \o chunk) = (before \o ink0) \o chunk
        BY Regroup
      <4> QED BY <4>2, <4>3, <2>1, <2>3, <2>6
    <3> QED BY <3>1, <3>2
  <2>8. Marks(t.p, said) /\ Effective(t.p, said) = Effective(s.p, said)
    BY <2>1, <2>5 DEF Marks, Effective
  <2> QED BY <1>1, <1>4, <2>4, <2>5, <2>7, <2>8 DEF Delivers, Parsed, Pair
<1> QED BY <1>3, <1>4, <1>1

\* The end of an answer adds no ink.
LEMMA ClosingInk ==
    ASSUME NEW s, Parsed(s), NEW said \in Seq(Piece)
    PROVE  InkOf(Closing(s, said)) = InkOf(s.out)
<1>1. PICK events \in Seq(StreamEvent) : events = s.out
    BY DEF Parsed
<1>2. PICK hidden \in Seq(StreamEvent) :
          /\ hidden = IF s.p.sentinel # 0 /\ s.p.sentinel < Len(said) THEN <<Plain("Transcript")>> ELSE <<>>
          /\ InkOf(hidden) = <<>>
    BY OneEvent, NoInk
<1>3. PICK complaint \in Seq(StreamEvent) :
          /\ complaint = IF s.p.emitted THEN <<>> ELSE <<Plain("Err")>>
          /\ InkOf(complaint) = <<>>
    BY OneEvent, NoInk
<1>4. Closing(s, said) = (events \o hidden) \o complaint
    BY <1>1, <1>2, <1>3 DEF Closing
<1>5. PICK both \in Seq(StreamEvent) : both = events \o hidden
    BY ConcatProperties
<1>6. Joins(InkOf(events), InkOf(hidden), InkOf(both)) /\ Joins(InkOf(both), InkOf(complaint), InkOf(both \o complaint))
    BY <1>5, InkOfJoin
<1>7. InkOf(events) \in Seq(Nat) /\ InkOf(both) \in Seq(Nat)
    BY InkOfType
<1>8. InkOf(both) = InkOf(events) /\ InkOf(both \o complaint) = InkOf(both)
    BY <1>2, <1>3, <1>6, <1>7, ConcatEmptySeq DEF Joins
<1> QED BY <1>1, <1>4, <1>5, <1>8

\* What takes the page stays at the head.
LEMMA StillTakes ==
    ASSUME NEW s \in Seq(StreamEvent), NEW t \in Seq(StreamEvent), Takes(s)
    PROVE  Takes(s \o t)
<1>1. /\ Len(s \o t) = Len(s) + Len(t) /\ s \o t \in Seq(StreamEvent)
      /\ \A i \in 1..Len(s) : (s \o t)[i] = s[i]
    BY ConcatProperties
<1>2. Len(s) \in Nat /\ Len(t) \in Nat /\ 1 \in 1..Len(s)
    BY DEF Takes
<1>3. (s \o t)[1] = s[1]
    BY <1>1, <1>2
<1>4. Len(s \o t) # 0
    BY <1>1, <1>2
<1> QED BY <1>3, <1>4, <1>1 DEF Takes

\* An error among the last events is one among all.
LEMMA ErrorKept ==
    ASSUME NEW s \in Seq(StreamEvent), NEW t \in Seq(StreamEvent)
    PROVE  HasError(t) => HasError(s \o t)
<1> SUFFICES ASSUME NEW i \in 1..Len(t), t[i].type = "Err" PROVE HasError(s \o t)
    BY DEF HasError
<1>1. /\ Len(s \o t) = Len(s) + Len(t)
      /\ \A j \in 1..Len(t) : (s \o t)[Len(s) + j] = t[j]
    BY ConcatProperties
<1>2. Len(s) + i \in 1..Len(s \o t)
    BY <1>1
<1> QED BY <1>1, <1>2 DEF HasError

\* Emit only adds to it.
LEMMA EmitStillTakes ==
    ASSUME NEW s, s = [p |-> s.p, out |-> s.out], Parsed(s), NEW said \in Seq(Piece), NEW to \in Nat,
           Takes(s.out)
    PROVE  LET t == Emit(s, said, to)
           IN  Takes(t.out) /\ t = [p |-> t.p, out |-> t.out] /\ Parsed(t)
<1>1. PICK t : t = Emit(s, said, to)
    OBVIOUS
<1>2. /\ t = [p |-> t.p, out |-> t.out] /\ Parsed(t)
      /\ \/ t.out = s.out
         \/ \E c \in Seq(Nat) : c # <<>> /\ t.out = Append(s.out, Ink(c))
    BY <1>1, EmitOutcome
<1>3. Takes(t.out)
  <2>1. CASE t.out = s.out
    BY <2>1
  <2>2. CASE \E c \in Seq(Nat) : c # <<>> /\ t.out = Append(s.out, Ink(c))
    <3>1. PICK c \in Seq(Nat) : c # <<>> /\ t.out = Append(s.out, Ink(c))
      BY <2>2
    <3>2. PICK e \in StreamEvent : e = Ink(c)
      BY <3>1, EventShapes
    <3>3. PICK events \in Seq(StreamEvent) : events = s.out
      BY DEF Parsed
    <3>4. t.out = events \o <<e>> /\ <<e>> \in Seq(StreamEvent)
      BY <3>1, <3>2, <3>3, AppendIsConcat
    <3> QED BY <3>3, <3>4, StillTakes
  <2> QED BY <1>2, <2>1, <2>2
<1> QED BY <1>1, <1>2, <1>3

\* route_first delivers nothing unless it reports a directive, and does not
\* wait when the answer is complete.
LEMMA RouteDelivers ==
    ASSUME NEW p \in Parser, NEW said \in Seq(Piece), NEW done \in BOOLEAN, NEW route \in Route,
           NEW h, h = RouteFirst(p, said, done, route)
    PROVE  /\ h.out = <<>> => h.p.delivered = p.delivered /\ ~(h.wait /\ done)
           /\ h.out # <<>> => ~p.routed /\ Takes(h.out)
<1> DEFINE to == Effective(p, said)
           empty == p.delivered >= to
           opened == ~empty /\ said[p.delivered + 1] = "open"
           closed == \E c \in (p.delivered + 1)..to : said[c] = "close"
           goes == p.routed \/ (empty /\ done) \/ (~empty /\ ~opened)
<1>1. h = IF goes THEN [p |-> [p EXCEPT !.routed = TRUE], out |-> <<>>, wait |-> FALSE]
          ELSE IF opened /\ closed
          THEN [p |-> [p EXCEPT !.routed = TRUE, !.emitted = TRUE, !.delivered = to],
                out |-> <<Plain(route)>>, wait |-> FALSE]
          ELSE [p |-> p, out |-> IF opened /\ done THEN <<Plain("Err")>> ELSE <<>>, wait |-> TRUE]
    BY DEF RouteFirst, AlreadyRouted
<1>2. \A k \in Route : Takes(<<Plain(k)>>) /\ <<Plain(k)>> # <<>>
    BY DEF Plain, Takes, Route
<1>3. route \in Route /\ "Err" \in Route
    BY DEF Route
<1>4. ~goes => ~p.routed /\ (done => opened)
    OBVIOUS
<1> HIDE DEF to, empty, opened, closed, goes
<1>5. CASE goes
  <2>1. h.out = <<>> /\ h.wait = FALSE /\ h.p = [p EXCEPT !.routed = TRUE]
    BY <1>1, <1>5
  <2>2. h.p.delivered = p.delivered
    BY <2>1 DEF Parser
  <2> QED BY <2>1, <2>2
<1>6. CASE ~goes /\ opened /\ closed
  <2>1. h.out = <<Plain(route)>>
    BY <1>1, <1>6
  <2> QED BY <2>1, <1>2, <1>3, <1>4, <1>6
<1>7. CASE ~goes /\ ~(opened /\ closed)
  <2>1. h.p = p /\ h.out = IF opened /\ done THEN <<Plain("Err")>> ELSE <<>>
    BY <1>1, <1>7
  <2> QED BY <2>1, <1>2, <1>3, <1>4, <1>7
<1> QED BY <1>5, <1>6, <1>7

\* RouteOutcome for a head that has a name.
LEMMA RouteShape ==
    ASSUME NEW p \in Parser, NEW said \in Seq(Piece), NEW done \in BOOLEAN, NEW route \in Route,
           NEW h, h = RouteFirst(p, said, done, route)
    PROVE  /\ Parsed(h) /\ h.wait \in BOOLEAN /\ h.p.sentinel = p.sentinel
           /\ h.wait => h.p = p
BY RouteOutcome

\* What one advance brings.
LEMMA AdvanceTells ==
    ASSUME NEW p0 \in Parser, NEW said \in Seq(Piece), NEW done \in BOOLEAN, NEW route \in Route,
           SpansAreWhole(said), NEW p \in Parser, Looked(p, p0, said), p.routed = p0.routed,
           NEW brought \in Seq(Nat), Delivers(p, said, brought), Between(p, said)
    PROVE  LET fed == Advance(p0, said, done, route)
           IN  \/ ~p0.routed /\ Takes(fed.out)
               \/ /\ ~done /\ Between(fed.p, said)
                  /\ Delivers(fed.p, said, brought \o InkOf(fed.out))
               \/ done /\ brought \o InkOf(fed.out) = Shown(said)
<1> DEFINE to   == Effective(p, said)
           head == RouteFirst(p, said, done, route)
           s0   == [p |-> head.p, out |-> head.out]
           cut  == SentenceCut(said, head.p.delivered, to)
           s1   == Emit(s0, said, cut)
           s2   == IF p.sentinel # 0 \/ done THEN Emit(s1, said, to) ELSE s1
           fed  == Advance(p0, said, done, route)
<1> SUFFICES \/ ~p0.routed /\ Takes(fed.out)
             \/ /\ ~done /\ Between(fed.p, said)
                /\ Delivers(fed.p, said, brought \o InkOf(fed.out))
             \/ done /\ brought \o InkOf(fed.out) = Shown(said)
    OBVIOUS
<1>1. fed = IF head.wait THEN s0
            ELSE [p |-> s2.p, out |-> IF done THEN Closing(s2, said) ELSE s2.out]
    BY DEF Advance, Looked
<1>2. to \in Nat /\ to <= Len(said) /\ Shown(said) = Cleared(said, to) /\ Marks(p, said)
    BY ShownBeforeMark DEF Delivers
<1> HIDE DEF to
<1>3. /\ Parsed(head) /\ head.wait \in BOOLEAN /\ head.p.sentinel = p.sentinel
      /\ head.wait => head.p = p
      /\ head.out = <<>> => head.p.delivered = p.delivered /\ ~(head.wait /\ done)
      /\ head.out # <<>> => ~p.routed /\ Takes(head.out)
  <2>1. PICK h : h = RouteFirst(p, said, done, route)
    OBVIOUS
  <2>2. /\ Parsed(h) /\ h.wait \in BOOLEAN /\ h.p.sentinel = p.sentinel
        /\ h.wait => h.p = p
    BY <2>1, RouteShape
  <2>3. /\ h.out = <<>> => h.p.delivered = p.delivered /\ ~(h.wait /\ done)
        /\ h.out # <<>> => ~p.routed /\ Takes(h.out)
    BY <2>1, RouteDelivers
  <2> QED BY <2>1, <2>2, <2>3
<1> HIDE DEF head, fed
<1>4. Parsed(s0) /\ s0 = [p |-> s0.p, out |-> s0.out] /\ s0.p = head.p /\ s0.out = head.out
    BY <1>3 DEF Parsed
<1> HIDE DEF s0
<1>5. /\ head.p.delivered \in Nat /\ cut \in Nat /\ head.p.delivered <= cut
      /\ cut # head.p.delivered => cut < to /\ said[cut] = "stop"
  <2>1. PICK d \in Nat : d = head.p.delivered
    BY <1>3 DEF Parsed, Parser
  <2> QED BY <2>1, <1>2, CutType
<1> HIDE DEF cut
<1>6. CASE head.out # <<>>
  <2>1. ~p0.routed /\ Takes(s0.out)
    BY <1>3, <1>4, <1>6
  <2>2. Takes(s1.out) /\ s1 = [p |-> s1.p, out |-> s1.out] /\ Parsed(s1)
    BY <2>1, <1>4, <1>5, EmitStillTakes
  <2> HIDE DEF s1
  <2>3. Takes(s2.out) /\ Parsed(s2)
    <3>1. Takes(Emit(s1, said, to).out) /\ Parsed(Emit(s1, said, to))
      BY <2>2, <1>2, EmitStillTakes
    <3> QED BY <3>1, <2>2
  <2> HIDE DEF s2
  <2>4. Takes(Closing(s2, said))
    <3>1. PICK events \in Seq(StreamEvent) : events = s2.out
      BY <2>3 DEF Parsed
    <3>2. PICK hidden \in Seq(StreamEvent) : hidden =
              IF s2.p.sentinel # 0 /\ s2.p.sentinel < Len(said) THEN <<Plain("Transcript")>> ELSE <<>>
      BY OneEvent
    <3>3. PICK complaint \in Seq(StreamEvent) : complaint =
              IF s2.p.emitted THEN <<>> ELSE <<Plain("Err")>>
      BY OneEvent
    <3>4. Closing(s2, said) = (events \o hidden) \o complaint
      BY <3>1, <3>2, <3>3 DEF Closing
    <3>5. Takes(events \o hidden) /\ events \o hidden \in Seq(StreamEvent)
      BY <3>1, <2>3, StillTakes, ConcatProperties
    <3> QED BY <3>4, <3>5, StillTakes
  <2>5. Takes(fed.out)
    BY <1>1, <2>1, <2>3, <2>4
  <2> QED BY <2>1, <2>5
<1>7. CASE head.out = <<>>
  <2>1. /\ head.p.delivered = p.delivered /\ head.p.sentinel = p.sentinel /\ s0.out = <<>>
        /\ head.p \in Parser
    BY <1>3, <1>4, <1>7 DEF Parsed
  <2>2. /\ Effective(head.p, said) = to
        /\ Delivers(head.p, said, brought) /\ Between(head.p, said)
    BY <2>1 DEF Effective, Delivers, Marks, Between, to
  <2>3. brought \o InkOf(s0.out) = brought
    BY <2>1, NoInk, ConcatEmptySeq
  <2>4. Delivers(s0.p, said, brought \o InkOf(s0.out)) /\ Between(s0.p, said)
    BY <2>2, <2>3, <1>4
  <2>5. CASE head.wait
    <3>1. fed.p = s0.p /\ fed.out = s0.out /\ ~done
      BY <2>5, <1>1, <1>3, <1>7
    <3> QED BY <3>1, <2>4
  <2>6. CASE ~head.wait
    <3>1. PICK d \in Nat : d = s0.p.delivered /\ d = head.p.delivered
      BY <1>4, <1>5
    <3>2. d <= to /\ Effective(s0.p, said) = to /\ s0.p.sentinel = p.sentinel
      BY <3>1, <2>1, <2>2, <1>4 DEF Delivers
    <3>3. cut <= to /\ (d < cut => cut < to /\ said[cut] = "stop" /\ Closed(said, d))
      <4>1. d < to => Closed(said, d)
        BY <3>1, <3>2, <2>4 DEF Between
      <4> QED BY <4>1, <3>1, <3>2, <1>2, <1>5
    <3>4. /\ s1.p.delivered = IF cut <= d THEN d ELSE cut
          /\ s1.p.sentinel = p.sentinel /\ Pair(s1)
          /\ Delivers(s1.p, said, brought \o InkOf(s1.out))
      <4>1. Pair(s0) /\ cut \in Nat /\ Delivers(s0.p, said, brought \o InkOf(s0.out))
        BY <2>4, <1>4, <1>5 DEF Pair
      <4>2. cut <= Effective(s0.p, said) /\ (s0.p.delivered < cut => Closed(said, s0.p.delivered))
        BY <3>1, <3>2, <3>3
      <4>3. PICK t : t = s1 /\ t = Emit(s0, said, cut)
        OBVIOUS
      <4>4. /\ t.p.delivered = IF cut <= s0.p.delivered THEN s0.p.delivered ELSE cut
            /\ t.p.sentinel = s0.p.sentinel /\ Pair(t)
            /\ Delivers(t.p, said, brought \o InkOf(t.out))
        BY <4>1, <4>2, <4>3, Emitting
      <4> QED BY <4>3, <4>4, <3>1, <3>2
    <3> HIDE DEF s1
    <3>5. PICK d1 \in Nat : d1 = s1.p.delivered /\ d1 <= to /\ Effective(s1.p, said) = to
      BY <3>4, <3>1, <3>2, <3>3, <1>5 DEF Effective, to
    <3>6. Between(s1.p, said)
      <4>1. CASE cut <= d
        BY <4>1, <3>1, <3>2, <3>4, <3>5, <2>4 DEF Between
      <4>2. CASE ~(cut <= d)
        <5>1. said[cut] = "stop" /\ cut \in 1..Len(said) /\ s1.p.delivered = cut
          BY <4>2, <3>3, <3>4, <1>2, <1>5
        <5>2. Closed(said, cut)
          BY <5>1, StopCloses
        <5> QED BY <5>1, <5>2 DEF Between
      <4> QED BY <4>1, <4>2
    <3>7. CASE p.sentinel # 0 \/ done
      <4>1. s2 = Emit(s1, said, to)
        BY <3>7
      <4>2. s1.p.delivered < to => Closed(said, s1.p.delivered)
        BY <3>5, <3>6 DEF Between
      <4> HIDE DEF s2
      <4>3. /\ s2.p.delivered = IF to <= s1.p.delivered THEN s1.p.delivered ELSE to
            /\ s2.p.sentinel = s1.p.sentinel /\ Parsed(s2)
            /\ Delivers(s2.p, said, brought \o InkOf(s2.out))
        <5>1. to <= Effective(s1.p, said) /\ to \in Nat
          BY <3>5, <1>2
        <5>2. Pair(s1) /\ Delivers(s1.p, said, brought \o InkOf(s1.out))
          BY <3>4
        <5>3. PICK t : t = s2 /\ t = Emit(s1, said, to)
          BY <4>1
        <5>4. /\ t.p.delivered = IF to <= s1.p.delivered THEN s1.p.delivered ELSE to
              /\ t.p.sentinel = s1.p.sentinel /\ Pair(t)
              /\ Delivers(t.p, said, brought \o InkOf(t.out))
          BY <5>1, <5>2, <5>3, <4>2, Emitting
        <5> QED BY <5>3, <5>4 DEF Pair
      <4>4. s2.p.delivered = to /\ s2.p.sentinel = p.sentinel
        BY <4>3, <3>4, <3>5, <1>2
      <4>5. brought \o InkOf(s2.out) = Shown(said)
        BY <4>3, <4>4, <1>2 DEF Delivers
      <4>6. CASE done
        <5>1. fed.out = Closing(s2, said)
          BY <4>6, <2>6, <1>1
        <5>2. InkOf(Closing(s2, said)) = InkOf(s2.out)
          BY <4>3, ClosingInk
        <5> QED BY <5>1, <5>2, <4>5, <4>6
      <4>7. CASE ~done
        <5>1. fed.p = s2.p /\ fed.out = s2.out
          BY <4>7, <2>6, <1>1
        <5>2. Between(s2.p, said)
          BY <4>4, <4>7, <3>7 DEF Between, Effective, to
        <5> QED BY <5>1, <5>2, <4>3, <4>7
      <4> QED BY <4>6, <4>7
    <3>8. CASE ~(p.sentinel # 0 \/ done)
      <4>1. fed.p = s1.p /\ fed.out = s1.out /\ ~done
        BY <3>8, <2>6, <1>1
      <4> QED BY <4>1, <3>4, <3>6
    <3> QED BY <3>7, <3>8
  <2> QED BY <2>5, <2>6, <1>3
<1> QED BY <1>6, <1>7

-----------------------------------------------------------------------------
(* What the worker of a held request does.                                 *)

\* It ends only with its stream, and each step adds the ink of its events to
\* what it has brought, unless the page is taken.
Faithful(r, w, events) ==
    /\ w.stage # "ended" => w.outcome = "none" /\ ~w.cancelled
    /\ \/ chan[r] = <<>> /\ ~worker[r].parser.routed /\ Takes(events)
       \/ \A brought \in Seq(Nat) : Tells(worker[r], brought) =>
              IF w.stage = "ended" THEN Concludes(w, events, brought \o InkOf(events))
              ELSE Tells(w, brought \o InkOf(events))
Adds(r) == \E w, events : Course(r, w, events) /\ Faithful(r, w, events)

\* Somebody listens to a living worker.
Heard(r) == TurnTypes /\ EventsInOrder /\ r \in held /\ Alive(r) /\ Unspoilt(worker[r])

\* What is known of such a worker.
LEMMA HeardWorker ==
    ASSUME NEW r, Heard(r)
    PROVE  /\ r \in Requests /\ worker[r] \in Worker /\ worker[r].parser \in Parser
           /\ worker[r].answer \in Seq(Piece)
           /\ worker[r].stage \notin {"none", "ended"}
           /\ worker[r].outcome = "none" /\ ~worker[r].cancelled
           /\ ~worker[r].parser.routed => chan[r] = <<>>
<1>1. r \in Requests /\ worker[r] \in Worker
    BY DEF Heard, TurnTypes
<1>2. worker[r].parser \in Parser /\ worker[r].answer \in Seq(Piece)
    BY <1>1, WorkerShapes
<1>3. worker[r].stage \notin {"none", "ended"} /\ worker[r].outcome = "none" /\ ~worker[r].cancelled
    BY DEF Heard, Alive, Unspoilt
<1>4. ~worker[r].parser.routed => chan[r] = <<>>
    BY DEF Heard, EventsInOrder
<1> QED BY <1>1, <1>2, <1>3, <1>4

\* A worker that has returned, as it was when it did.
Over(v, w) == v = [w EXCEPT !.stage = "ended"]

\* The end of a worker that is heard keeps its answer.
LEMMA HeardEnd ==
    ASSUME NEW r \in Requests, r \in held, NEW w \in Worker, NEW events \in Seq(StreamEvent),
           w.lane = worker[r].lane, End(r, w, events),
           NEW v, Over(v, w)
    PROVE  /\ Course(r, v, events)
           /\ v.stage = "ended" /\ v.answer = w.answer /\ v.outcome = w.outcome
<1>1. "ended" \in Stages
    BY DEF Stages
<1>2. v \in Worker /\ v.lane = w.lane /\ v.stage = "ended" /\ v.answer = w.answer
      /\ v.outcome = w.outcome
    BY <1>1, WorkerShapes DEF Over
<1>3. worker' = [worker EXCEPT ![r] = v] /\ Post(r, events)
      /\ gate' = [gate EXCEPT ![w.lane] = FALSE] /\ UNCHANGED <<used, held>>
    BY DEF End, Over
<1> QED BY <1>2, <1>3 DEF Course

\* A complaint ends what was brought.
LEMMA Complaining ==
    ASSUME NEW r, Heard(r), NEW w \in Worker, w.lane = worker[r].lane,
           w.answer = worker[r].answer, End(r, w, <<Plain("Err")>>)
    PROVE  Adds(r)
<1>1. PICK v : Over(v, w)
    BY DEF Over
<1>2. PICK events \in Seq(StreamEvent) : events = <<Plain("Err")>> /\ InkOf(events) = <<>>
    BY OneEvent, NoInk DEF Route
<1>3. End(r, w, events)
    BY <1>2
<1>4. Course(r, v, events) /\ v.stage = "ended" /\ v.answer = worker[r].answer
    BY <1>1, <1>3, HeardWorker, HeardEnd DEF Heard
<1>5. HasError(events)
    BY <1>2 DEF HasError, Plain
<1>6. ASSUME NEW brought \in Seq(Nat), Tells(worker[r], brought)
      PROVE  Concludes(v, events, brought \o InkOf(events))
  <2>1. brought \o InkOf(events) = brought
    BY <1>2, ConcatEmptySeq
  <2>2. Prefix(brought, Shown(worker[r].answer))
    BY <1>6, HeardWorker, DeliveredIsABeginning DEF Tells
  <2> QED BY <2>1, <2>2, <1>4, <1>5 DEF Concludes
<1> QED BY <1>4, <1>6 DEF Adds, Faithful

\* A step that leaves the answer as it is.
LEMMA Silently ==
    ASSUME NEW r, Heard(r), NEW w \in Worker, w.lane = worker[r].lane,
           w.stage \notin {"none", "ended"}, w.parser = worker[r].parser,
           w.answer = worker[r].answer, w.outcome = worker[r].outcome,
           w.cancelled = worker[r].cancelled, Step(r, w, <<>>)
    PROVE  Adds(r)
<1>1. PICK events \in Seq(StreamEvent) : events = <<>> /\ InkOf(events) = <<>>
    BY OneEvent, NoInk DEF Route
<1>2. Step(r, w, events)
    BY <1>1
<1>3. Course(r, w, events)
    BY <1>2, HeardWorker, StepCourse
<1>4. ASSUME NEW brought \in Seq(Nat), Tells(worker[r], brought)
      PROVE  Tells(w, brought \o InkOf(events))
  <2>1. brought \o InkOf(events) = brought
    BY <1>1, ConcatEmptySeq
  <2> QED BY <2>1, <1>4 DEF Tells
<1>5. w.outcome = "none" /\ ~w.cancelled
    BY HeardWorker
<1> QED BY <1>3, <1>4, <1>5 DEF Adds, Faithful

\* Whoever gives up while it is heard complains.
LEMMA HeardGivesUp ==
    ASSUME NEW r, Heard(r), SendError(r) \/ SendTurnError(r) \/ RecognizeFails(r)
    PROVE  Adds(r)
<1> DEFINE w == Terminal(worker[r], "error")
<1>1. worker[r] \in Worker /\ worker[r].outcome = "none" /\ ~worker[r].cancelled
    BY HeardWorker
<1>2. w \in Worker /\ w.lane = worker[r].lane /\ w.answer = worker[r].answer
    BY <1>1, WorkerShapes
<1>3. End(r, w, <<Plain("Err")>>)
    BY <1>1 DEF SendError, SendTurnError, RecognizeFails
<1> HIDE DEF w
<1> QED BY <1>2, <1>3, Complaining

\* The next stage.
LEMMA HeardGoesOn ==
    ASSUME NEW r, Heard(r), NEW stage \in Stages \ {"none", "ended"},
           Step(r, [worker[r] EXCEPT !.stage = stage], <<>>)
    PROVE  Adds(r)
<1> DEFINE w == [worker[r] EXCEPT !.stage = stage]
<1>1. worker[r] \in Worker
    BY HeardWorker
<1>2. w \in Worker /\ w.lane = worker[r].lane /\ w.stage = stage /\ w.parser = worker[r].parser
      /\ w.answer = worker[r].answer /\ w.outcome = worker[r].outcome
      /\ w.cancelled = worker[r].cancelled
    BY <1>1, WorkerShapes
<1>3. Step(r, w, <<>>)
    OBVIOUS
<1> HIDE DEF w
<1> QED BY <1>2, <1>3, Silently

\* The daemon names the turn.
LEMMA HeardAccepted ==
    ASSUME NEW r, Heard(r), NEW name \in TurnIds \cup {NoTurn},
           Step(r, [worker[r] EXCEPT !.turn = name], <<>>)
    PROVE  Adds(r)
<1> DEFINE w == [worker[r] EXCEPT !.turn = name]
<1>1. worker[r] \in Worker /\ worker[r].stage \notin {"none", "ended"}
    BY HeardWorker
<1>2. w \in Worker /\ w.lane = worker[r].lane /\ w.stage = worker[r].stage
      /\ w.parser = worker[r].parser /\ w.answer = worker[r].answer
      /\ w.outcome = worker[r].outcome /\ w.cancelled = worker[r].cancelled
    BY <1>1 DEF Worker
<1>3. Step(r, w, <<>>)
    OBVIOUS
<1> HIDE DEF w
<1> QED BY <1>1, <1>2, <1>3, Silently

\* The answer of a local route shows its one piece.
LEMMA LocalAnswer == Shown(<<"word">>) = <<1>> /\ InkOf(<<Ink(<<1>>), Plain("Transcript")>>) = <<1>>
<1>1. PICK said \in Seq(Piece) : said = <<"word">>
  <2>1. <<"word">> \in Seq(Piece)
    BY DEF Piece
  <2> QED BY <2>1
<1>2. Len(said) = 1 /\ said[1] = "word"
    BY <1>1
<1> DEFINE S == {i \in 1..Len(said) : (\A m \in 1..i : said[m] # "mark") /\ ~InSpan(said, 0, i)}
<1>3. 1 \in S
  <2>1. ~InSpan(said, 0, 1)
    BY <1>2 DEF InSpan
  <2> QED BY <2>1, <1>2
<1>4. Shown(said) = Positions(0, 1, S)
    BY <1>2 DEF Shown
<1> HIDE DEF S
<1>5. PICK k \in Nat : k = 0 /\ k + 1 = 1
    OBVIOUS
<1>6. Positions(k, k, S) = <<>>
    BY PositionsStart
<1>7. Shown(said) = <<1>>
  <2>1. k + 1 \in S /\ k <= k
    BY <1>3, <1>5
  <2>2. Positions(k, k + 1, S) = Append(Positions(k, k, S), k + 1)
    BY <2>1, PositionsNext
  <2>3. Append(<<>>, 1) = <<1>>
    OBVIOUS
  <2> QED BY <2>2, <2>3, <1>4, <1>5, <1>6
<1>8. PICK first \in StreamEvent : first = Ink(<<1>>) /\ first.text = <<1>>
  <2>1. <<1>> \in Seq(Nat) /\ <<1>> # <<>>
    OBVIOUS
  <2> QED BY <2>1, EventShapes DEF Ink
<1>9. PICK second \in StreamEvent : second = Plain("Transcript") /\ second.text = <<>>
  <2>1. Plain("Transcript") \in StreamEvent
    BY EventShapes
  <2>2. Plain("Transcript").text = <<>>
    BY DEF Plain
  <2> QED BY <2>1, <2>2
<1>10. /\ <<>> \in Seq(StreamEvent) /\ Append(<<>>, first) \in Seq(StreamEvent)
       /\ <<first, second>> = Append(Append(<<>>, first), second)
    BY EmptySeq
<1>11. InkOf(Append(<<>>, first)) = InkOf(<<>>) \o first.text /\ InkOf(<<>>) = <<>>
    BY <1>10, InkOfAppend, InkOfType
<1>12. InkOf(Append(Append(<<>>, first), second)) = InkOf(Append(<<>>, first)) \o second.text
    BY <1>10, InkOfAppend
<1>13. <<>> \o <<1>> = <<1>> /\ <<1>> \o <<>> = <<1>>
    OBVIOUS
<1> QED BY <1>1, <1>7, <1>8, <1>9, <1>10, <1>11, <1>12, <1>13

\* prepare_handwriting: a turn, what takes the page, or a local answer.
LEMMA HeardRecognized ==
    ASSUME NEW r, Heard(r), Recognized(r)
    PROVE  Adds(r)
<1> DEFINE w == Terminal(worker[r], "done")
           u == [w EXCEPT !.answer = <<"word">>]
<1>1. /\ worker[r] \in Worker /\ worker[r].outcome = "none" /\ worker[r].stage = "poll"
      /\ r \in Requests /\ r \in held
    BY HeardWorker DEF Recognized, Heard
<1>2. worker[r].parser = NewParser /\ ~worker[r].parser.routed /\ chan[r] = <<>>
  <2>1. worker[r].parser = NewParser
    BY <1>1 DEF Heard, EventsInOrder
  <2> QED BY <2>1, HeardWorker DEF NewParser
<1>3. w \in Worker /\ w.lane = worker[r].lane /\ w.outcome = "done"
    BY <1>1, WorkerShapes DEF Terminal, Worker
<1>4. u \in Worker /\ u.lane = worker[r].lane /\ u.outcome = "done" /\ u.answer = <<"word">>
  <2>1. <<"word">> \in Seq(Piece)
    BY DEF Piece
  <2> QED BY <2>1, <1>3 DEF Worker
<1> HIDE DEF w, u
<1>5. CASE HandOver(r)
    BY <1>5, HeardGoesOn DEF HandOver, Stages
<1>6. ASSUME NEW k \in {"Panel", "Reader", "LocalCommand"}, End(r, w, <<Plain(k)>>)
      PROVE  Adds(r)
  <2>1. PICK v : Over(v, w)
    BY DEF Over
  <2>2. PICK events \in Seq(StreamEvent) : events = <<Plain(k)>>
    BY OneEvent DEF Route
  <2>3. End(r, w, events)
    BY <1>6, <2>2
  <2>4. Course(r, v, events) /\ v.stage = "ended"
    BY <2>1, <2>3, <1>1, <1>3, HeardEnd
  <2>5. Takes(events)
    BY <2>2 DEF Takes, Plain
  <2> QED BY <2>4, <2>5, <1>2 DEF Adds, Faithful
<1>7. CASE End(r, u, <<Ink(<<1>>), Plain("Transcript")>>)
  <2>1. PICK v : Over(v, u)
    BY DEF Over
  <2>2. PICK events \in Seq(StreamEvent) : events = <<Ink(<<1>>), Plain("Transcript")>>
    <3>1. <<1>> \in Seq(Nat) /\ <<1>> # <<>>
      OBVIOUS
    <3>2. PICK first \in StreamEvent : first = Ink(<<1>>)
      BY <3>1, EventShapes
    <3>3. PICK second \in StreamEvent : second = Plain("Transcript")
      BY EventShapes
    <3>4. <<first, second>> \in Seq(StreamEvent)
      OBVIOUS
    <3> QED BY <3>2, <3>3, <3>4
  <2>3. End(r, u, events)
    BY <1>7, <2>2
  <2>4. Course(r, v, events) /\ v.stage = "ended" /\ v.answer = <<"word">> /\ v.outcome = "done"
    BY <2>1, <2>3, <1>1, <1>4, HeardEnd
  <2>5. ASSUME NEW brought \in Seq(Nat), Tells(worker[r], brought)
        PROVE  Concludes(v, events, brought \o InkOf(events))
    <3>1. brought = Positions(0, 0, Clear(worker[r].answer))
      BY <2>5, <1>2 DEF Tells, Delivers, Cleared, NewParser
    <3>2. brought = <<>>
      BY <3>1, PositionsStart
    <3>3. brought \o <<1>> = <<1>>
      BY <3>2
    <3> QED BY <3>3, <2>2, <2>4, LocalAnswer DEF Concludes
  <2> QED BY <2>4, <2>5 DEF Adds, Faithful
<1> QED BY <1>5, <1>6, <1>7 DEF Recognized, w, u

\* on_text: the parser goes on where it stood, or the text is too long.
LEMMA HeardText ==
    ASSUME ~SplitSpans, NEW r, Heard(r), worker[r].stage = "stream", OnText(r)
    PROVE  Adds(r)
<1>1. /\ r \in Requests /\ worker[r] \in Worker /\ worker[r].parser \in Parser
      /\ worker[r].answer \in Seq(Piece)
      /\ ~worker[r].parser.routed => chan[r] = <<>>
      /\ worker[r].outcome = "none" /\ ~worker[r].cancelled
    BY HeardWorker
<1>2. PICK text \in Texts(r), route \in Route :
          LET said == worker[r].answer \o text
              fed  == Advance(worker[r].parser, said, FALSE, route)
          IN  /\ SplitSpans \/ SpansAreWhole(said)
              /\ IF Len(said) > TextLimit
                 THEN SendTurnError(r)
                 ELSE Step(r, [worker[r] EXCEPT !.answer = said, !.parser = fed.p], fed.out)
    BY Zenon DEF OnText
<1>3. CASE SendTurnError(r)
    BY <1>3, HeardGivesUp
<1>4. CASE ~SendTurnError(r)
  <2>1. PICK more \in Seq(Piece) : more = text
    BY <1>1, TextTypes
  <2>2. PICK said \in Seq(Piece) : said = worker[r].answer \o more
    BY <1>1, ConcatProperties
  <2>3. PICK p0 \in Parser : p0 = worker[r].parser
    BY <1>1
  <2>4. PICK fed : fed = Advance(p0, said, FALSE, route)
    OBVIOUS
  <2>5. SpansAreWhole(said) /\ Step(r, [worker[r] EXCEPT !.answer = said, !.parser = fed.p], fed.out)
    BY <1>2, <1>4, <2>1, <2>2, <2>3, <2>4
  <2>6. fed.p \in Parser /\ fed.out \in Seq(StreamEvent)
    BY <2>4, AdvanceOutcome DEF Parsed
  <2> DEFINE w == [worker[r] EXCEPT !.answer = said, !.parser = fed.p]
  <2>7. /\ w \in Worker /\ w.lane = worker[r].lane /\ w.stage = "stream" /\ w.parser = fed.p
        /\ w.answer = said /\ w.outcome = "none" /\ ~w.cancelled
    BY <1>1, <2>6 DEF Worker, Parser
  <2>8. Step(r, w, fed.out)
    BY <2>5
  <2> HIDE DEF w
  <2>9. Course(r, w, fed.out)
    BY <1>1, <2>6, <2>7, <2>8, StepCourse
  <2>10. CASE ~p0.routed /\ Takes(fed.out)
    BY <1>1, <2>3, <2>7, <2>9, <2>10 DEF Adds, Faithful
  <2>11. CASE ~(~p0.routed /\ Takes(fed.out))
    <3>1. ASSUME NEW brought \in Seq(Nat), Tells(worker[r], brought)
          PROVE  Tells(w, brought \o InkOf(fed.out))
      <4>1. PICK p : Looked(p, p0, said)
        BY DEF Looked
      <4>2. Delivers(p0, worker[r].answer, brought) /\ Between(p0, worker[r].answer)
        BY <3>1, <2>3 DEF Tells
      <4>3. /\ p \in Parser /\ p.routed = p0.routed
            /\ Delivers(p, said, brought) /\ Between(p, said)
        <5>1. PICK before \in Seq(Piece) : before = worker[r].answer
          BY <1>1
        <5>2. /\ Delivers(p0, before, brought) /\ Between(p0, before)
              /\ Joins(before, more, said)
          BY <5>1, <4>2, <2>2 DEF Joins
        <5> QED BY <5>2, <4>1, Feeding
      <4>4. Between(fed.p, said) /\ Delivers(fed.p, said, brought \o InkOf(fed.out))
        BY <4>1, <4>3, <2>4, <2>5, <2>11, AdvanceTells
      <4> QED BY <4>4, <2>5, <2>7 DEF Tells
    <3> QED BY <3>1, <2>7, <2>9 DEF Adds, Faithful
  <2> QED BY <2>10, <2>11
<1> QED BY <1>3, <1>4

\* TurnStream::complete: the rest of the answer, or a complaint about none.
LEMMA HeardComplete ==
    ASSUME NEW r, Heard(r), worker[r].stage = "stream", OnComplete(r)
    PROVE  Adds(r)
<1>1. /\ r \in Requests /\ r \in held /\ worker[r] \in Worker /\ worker[r].parser \in Parser
      /\ worker[r].answer \in Seq(Piece)
      /\ ~worker[r].parser.routed => chan[r] = <<>>
      /\ worker[r].outcome = "none"
    BY HeardWorker DEF Heard
<1>2. PICK p0 \in Parser : p0 = worker[r].parser
    BY <1>1
<1>3. PICK said \in Seq(Piece) : said = worker[r].answer
    BY <1>1
<1>4. PICK route \in Route :
          LET fed     == Advance(p0, said, TRUE, route)
              blank   == said = <<>>
              outcome == IF blank THEN "error" ELSE "done"
              again   == blank
          IN  End(r, Terminal([worker[r] EXCEPT !.parser = fed.p], outcome),
                  fed.out \o (IF again THEN <<Plain("Err")>> ELSE <<>>))
    BY <1>1, <1>2, <1>3 DEF OnComplete
<1>5. PICK fed : fed = Advance(p0, said, TRUE, route)
    OBVIOUS
<1>6. fed.p \in Parser /\ fed.out \in Seq(StreamEvent)
    BY <1>5, AdvanceOutcome DEF Parsed
<1>7. PICK more \in Seq(StreamEvent) :
          /\ more = IF said = <<>> THEN <<Plain("Err")>> ELSE <<>>
          /\ InkOf(more) = <<>>
    BY OneEvent, NoInk
<1>8. PICK events \in Seq(StreamEvent) : events = fed.out \o more
    BY <1>6, ConcatProperties
<1> DEFINE outcome == IF said = <<>> THEN "error" ELSE "done"
           u == [worker[r] EXCEPT !.parser = fed.p]
           w == Terminal(u, outcome)
<1>9. u \in Worker /\ u.lane = worker[r].lane /\ u.answer = said /\ u.outcome = "none"
    BY <1>1, <1>3, <1>6 DEF Worker, Parser
<1>10. End(r, w, events)
    BY <1>4, <1>5, <1>7, <1>8
<1> HIDE DEF u
<1>11. w \in Worker /\ w.lane = worker[r].lane /\ w.answer = said /\ w.outcome = outcome
  <2>1. w \in Worker /\ w.lane = u.lane /\ w.answer = u.answer
    BY <1>9, WorkerShapes
  <2>2. w.outcome = outcome
    BY <1>9 DEF Terminal, Worker
  <2> QED BY <2>1, <2>2, <1>9
<1> HIDE DEF w
<1>12. PICK v : Over(v, w)
    BY DEF Over
<1>13. Course(r, v, events) /\ v.stage = "ended" /\ v.answer = said /\ v.outcome = outcome
  <2>1. Course(r, v, events) /\ v.stage = "ended" /\ v.answer = w.answer /\ v.outcome = w.outcome
    <3>1. /\ r \in Requests /\ r \in held /\ w \in Worker /\ events \in Seq(StreamEvent)
          /\ w.lane = worker[r].lane
      BY <1>1, <1>11
    <3> HIDE DEF outcome
    <3> QED BY <3>1, <1>10, <1>12, HeardEnd
  <2> QED BY <2>1, <1>11
<1>14. Joins(InkOf(fed.out), InkOf(more), InkOf(events))
    BY <1>6, <1>8, InkOfJoin
<1>15. InkOf(events) = InkOf(fed.out)
  <2>1. InkOf(fed.out) \in Seq(Nat)
    BY <1>6, InkOfType
  <2> QED BY <2>1, <1>7, <1>14, ConcatEmptySeq DEF Joins
<1>16. CASE ~p0.routed /\ Takes(fed.out)
  <2>1. Takes(events)
    BY <1>6, <1>8, <1>16, StillTakes
  <2> QED BY <2>1, <1>1, <1>2, <1>13, <1>16 DEF Adds, Faithful
<1>17. CASE ~(~p0.routed /\ Takes(fed.out))
  <2>1. ASSUME NEW brought \in Seq(Nat), Tells(worker[r], brought)
        PROVE  Concludes(v, events, brought \o InkOf(events))
    <3>1. PICK p : Looked(p, p0, said)
      BY DEF Looked
    <3>2. Delivers(p0, said, brought) /\ Between(p0, said) /\ SpansAreWhole(said)
      BY <2>1, <1>2, <1>3 DEF Tells
    <3>3. PICK nothing \in Seq(Piece) : Joins(said, nothing, said)
      BY EmptySeq, ConcatEmptySeq DEF Joins
    <3>4. /\ p \in Parser /\ p.routed = p0.routed
          /\ Delivers(p, said, brought) /\ Between(p, said)
      BY <3>1, <3>2, <3>3, Feeding
    <3>6. brought \o InkOf(fed.out) = Shown(said)
      BY <3>1, <3>2, <3>4, <1>5, <1>17, AdvanceTells
    <3>7. CASE said # <<>>
      BY <3>6, <3>7, <1>13, <1>15 DEF Concludes
    <3>8. CASE said = <<>>
      <4>1. HasError(events)
        <5>1. more = <<Plain("Err")>> /\ Len(more) = 1 /\ more[1].type = "Err"
          BY <3>8, <1>7 DEF Plain
        <5>2. /\ Len(events) = Len(fed.out) + Len(more)
              /\ events[Len(fed.out) + 1] = more[1]
          BY <5>1, <1>6, <1>8, ConcatProperties
        <5>3. Len(fed.out) + 1 \in 1..Len(events)
          BY <5>1, <5>2, <1>6
        <5> QED BY <5>1, <5>2, <5>3 DEF HasError
      <4>2. Prefix(Shown(said), Shown(said))
        BY ShownType, Beginning
      <4> QED BY <4>1, <4>2, <3>6, <1>13, <1>15 DEF Concludes
    <3> QED BY <3>7, <3>8
  <2> QED BY <2>1, <1>13 DEF Adds, Faithful
<1> QED BY <1>16, <1>17

\* A daemon's frame.
LEMMA HeardFrame ==
    ASSUME ~SplitSpans, NEW r, Heard(r), ReadFrame(r)
    PROVE  UNCHANGED turnVars \/ Adds(r)
<1>1. worker[r].stage = "stream" /\ r \in held
    BY DEF ReadFrame, Heard
<1>2. PICK kind \in FrameKinds, name \in TurnIds \cup {NoTurn} : HandleEvent(r, kind, name)
    BY DEF ReadFrame
<1>3. CASE SendTurnError(r)
    BY <1>3, HeardGivesUp
<1>4. CASE OnText(r)
    BY <1>1, <1>4, HeardText
<1>5. CASE OnComplete(r)
    BY <1>1, <1>5, HeardComplete
<1>6. CASE Step(r, [worker[r] EXCEPT !.turn = name], <<>>)
    BY <1>6, HeardAccepted
<1>7. \/ SendTurnError(r) \/ OnText(r) \/ OnComplete(r) \/ UNCHANGED turnVars
      \/ Step(r, [worker[r] EXCEPT !.turn = name], <<>>)
  <2>1. CASE kind \in {"text_delta", "complete", "tool_call"} /\ ~MatchesTurn(r, name)
    BY <2>1, <1>2 DEF HandleEvent
  <2>2. CASE ~(kind \in {"text_delta", "complete", "tool_call"} /\ ~MatchesTurn(r, name))
    <3>1. CASE kind = "accepted"
      BY <3>1, <2>2, <1>2 DEF HandleEvent
    <3>2. CASE kind = "text_delta"
      BY <3>2, <2>2, <1>1, <1>2 DEF HandleEvent
    <3>3. CASE kind = "complete"
      BY <3>3, <2>2, <1>2 DEF HandleEvent
    <3>4. CASE kind = "tool_call"
      BY <3>4, <2>2, <1>2 DEF HandleEvent
    <3>5. CASE kind \in {"error", "garbage"}
      BY <3>5, <2>2, <1>2 DEF HandleEvent
    <3> QED BY <3>1, <3>2, <3>3, <3>4, <3>5 DEF FrameKinds
  <2> QED BY <2>1, <2>2
<1> QED BY <1>3, <1>4, <1>5, <1>6, <1>7

\* Every step of a worker that is heard.
LEMMA WorkerAdds ==
    ASSUME ~SplitSpans, NEW r, Heard(r), WorkerStep(r)
    PROVE  UNCHANGED turnVars \/ Adds(r)
<1>1. CASE LoadPage(r)
    BY <1>1, HeardGoesOn, HeardGivesUp DEF LoadPage, Stages
<1>2. CASE Submit(r)
    BY <1>2, HeardGoesOn, HeardGivesUp DEF Submit, Stages
<1>3. CASE PollFails(r)
    BY <1>3, HeardGivesUp DEF PollFails
<1>4. CASE Recognized(r)
    BY <1>4, HeardRecognized
<1>5. CASE Connect(r)
    BY <1>5, HeardGoesOn, HeardGivesUp DEF Connect, Stages
<1>6. CASE SendStart(r)
    BY <1>6, HeardGoesOn, HeardGivesUp DEF SendStart, Stages
<1>7. CASE CancelSeen(r)
    BY <1>7, HeardWorker DEF CancelSeen
<1>8. CASE ReadFrame(r)
    BY <1>8, HeardFrame
<1> QED BY <1>1, <1>2, <1>3, <1>4, <1>5, <1>6, <1>7, <1>8 DEF WorkerStep

-----------------------------------------------------------------------------
(* What keeps the invariant.                                               *)

\* A request that no step has touched.
LEMMA Untouched ==
    ASSUME NEW r, Honest(r), worker'[r] = worker[r], chan'[r] = chan[r],
           Replied(r)' <=> Replied(r), Replied(r) => reply' = reply
    PROVE  Honest(r)'
BY DEF Honest, Told, Brought, Alive

\* Nobody is told anything.
LEMMA NobodyIsTold ==
    ASSUME IInv', turn' = NoReq, spec' = NoReq
    PROVE  InkInv'
BY DEF IInv, Places, InkInv

\* What lies outside a reply without a stream does not matter for the truth.
LEMMA NothingRemembered ==
    ASSUME TruthInv, page # "visible", remembered' = remembered,
           page' # "replying" \/ turn' # NoReq
    PROVE  TruthInv'
BY DEF TruthInv

\* The step of a worker adds to what was brought.
LEMMA WorkInk == ASSUME IInv, InkInv, TruthInv, ~SplitSpans, Work PROVE InkInv' /\ TruthInv'
<1>1. PICK r \in Requests : WorkerStep(r) /\ UNCHANGED pageVars
    BY DEF Work
<1>2. TurnTypes /\ EventsInOrder
    BY DEF IInv, TurnInv
<1>3. Alive(r) /\ (UNCHANGED turnVars \/ Does(r))
    BY <1>1, <1>2, WorkerCourse
<1>4. page' = page /\ turn' = turn /\ reply' = reply /\ failed' = failed /\ truth' = truth
      /\ remembered' = remembered
    BY <1>1 DEF pageVars
<1>5. TruthInv'
    BY <1>4 DEF TruthInv, WholeAnswer
<1>6. \A s : Replied(s)' <=> Replied(s)
    BY <1>4 DEF Replied
<1>7. CASE UNCHANGED turnVars
  <2>1. worker' = worker /\ chan' = chan /\ held' = held
    BY <1>7 DEF turnVars
  <2> QED BY <2>1, <1>4, <1>5, <1>6, Untouched DEF InkInv
<1>8. CASE r \notin held /\ Does(r)
  <2>1. PICK w, events : Course(r, w, events)
    BY <1>8 DEF Does
  <2>2. /\ worker' = [worker EXCEPT ![r] = w] /\ held' = held /\ chan' = chan
    BY <2>1, <1>2, <1>8 DEF Course, Post, TurnTypes
  <2>3. \A s \in held : s # r /\ worker'[s] = worker[s] /\ chan'[s] = chan[s]
    BY <2>2, <1>2, <1>8 DEF TurnTypes
  <2> QED BY <2>2, <2>3, <1>4, <1>5, <1>6, Untouched DEF InkInv
<1>9. CASE r \in held /\ ~UNCHANGED turnVars
  <2>1. Honest(r) /\ Unspoilt(worker[r])
    BY <1>9 DEF InkInv, Honest
  <2>2. Adds(r)
    BY <2>1, <1>1, <1>2, <1>3, <1>9, WorkerAdds DEF Heard
  <2>3. PICK w, events : Course(r, w, events) /\ Faithful(r, w, events)
    BY <2>2 DEF Adds
  <2>4. /\ w \in Worker /\ w.stage # "none" /\ events \in Seq(StreamEvent)
        /\ worker' = [worker EXCEPT ![r] = w] /\ held' = held
        /\ chan' = [chan EXCEPT ![r] = chan[r] \o events]
    BY <2>3, <1>2, <1>9 DEF Course, Post, TurnTypes
  <2>5. \A s \in held : s # r => worker'[s] = worker[s] /\ chan'[s] = chan[s]
    BY <2>4, <1>2 DEF TurnTypes
  <2>6. worker'[r] = w /\ chan'[r] = chan[r] \o events /\ chan[r] \in Seq(StreamEvent)
    BY <2>4, <1>2 DEF TurnTypes
  <2>7. Unspoilt(worker'[r])
    BY <2>3, <2>4, <2>6 DEF Unspoilt, Faithful
  <2>8. ASSUME Takes(chan'[r]), ~Replied(r) PROVE Honest(r)'
    BY <2>8, <2>7, <1>6 DEF Honest
  <2>9. ASSUME ~Replied(r), Takes(chan[r]) PROVE Honest(r)'
    BY <2>4, <2>6, <2>8, <2>9, StillTakes
  <2>10. ASSUME chan[r] = <<>>, ~worker[r].parser.routed, Takes(events) PROVE Honest(r)'
    <3>1. chan'[r] = events
      BY <2>4, <2>6, <2>10, ConcatEmptySeq
    <3>2. r # NoReq
      BY SomeRequest
    <3>3. ~Replied(r)
      BY <3>2, <2>10, <1>3 DEF Replied, IInv, Begun
    <3> QED BY <3>1, <3>3, <2>8, <2>10
  <2>11. ASSUME Told(r), ~(chan[r] = <<>> /\ ~worker[r].parser.routed /\ Takes(events))
         PROVE  Honest(r)'
    <3>1. PICK before \in Seq(Nat) : before = IF Replied(r) THEN reply ELSE <<>>
      BY EmptySeq DEF IInv, PageTypes
    <3>2. PICK ink0 \in Seq(Nat) : ink0 = InkOf(chan[r])
      BY <2>6, InkOfType
    <3>3. PICK ink1 \in Seq(Nat) : ink1 = InkOf(events)
      BY <2>4, InkOfType
    <3>31. (before \o ink0) \o ink1 = before \o (ink0 \o ink1)
      BY ONLY before \in Seq(Nat), ink0 \in Seq(Nat), ink1 \in Seq(Nat), Regroup
    <3>4. PICK brought \in Seq(Nat) : brought = before \o ink0
      BY ConcatProperties
    <3>5. Brought(r) = brought /\ Tells(worker[r], brought)
      BY <3>1, <3>2, <3>4, <2>11, <1>3 DEF Brought, Told
    <3>6. Brought(r)' = brought \o ink1
      <4>1. Joins(InkOf(chan[r]), InkOf(events), InkOf(chan[r] \o events))
        BY <2>4, <2>6, InkOfJoin
      <4>2. InkOf(chan'[r]) = ink0 \o ink1
        BY <4>1, <3>2, <3>3, <2>6 DEF Joins
      <4>3. Brought(r)' = before \o (ink0 \o ink1)
        BY <4>2, <3>1, <1>4, <1>6 DEF Brought
      <4> QED BY <4>3, <3>31, <3>4
    <3>7. IF w.stage = "ended" THEN Concludes(w, events, brought \o ink1)
          ELSE Tells(w, brought \o ink1)
      BY <3>3, <3>5, <2>3, <2>11 DEF Faithful
    <3>8. CASE w.stage = "ended"
      <4>1. Concludes(w, events, brought \o ink1)
        BY <3>7, <3>8
      <4>2. HasError(events) => HasError(chan[r] \o events)
        BY <2>4, <2>6, ErrorKept
      <4>3. Concludes(worker'[r], chan'[r], Brought(r)')
        BY <4>1, <4>2, <3>6, <2>6 DEF Concludes
      <4>4. ~Alive(r)'
        BY <3>8, <2>6 DEF Alive
      <4> QED BY <4>3, <4>4, <2>7 DEF Honest, Told
    <3>9. CASE w.stage # "ended"
      <4>1. Tells(worker'[r], Brought(r)')
        BY <3>6, <3>7, <3>9, <2>6
      <4>2. Alive(r)'
        BY <3>9, <2>4, <2>6 DEF Alive
      <4> QED BY <4>1, <4>2, <2>7 DEF Honest, Told
    <3> QED BY <3>8, <3>9
  <2>12. Honest(r)'
    BY <2>1, <2>9, <2>10, <2>11 DEF Honest
  <2>13. \A s \in held' : Honest(s)'
    <3> SUFFICES ASSUME NEW s \in held, s # r PROVE Honest(s)'
      BY <2>4, <2>12
    <3> QED BY <2>5, <1>4, <1>6, Untouched DEF InkInv
  <2> QED BY <2>13, <1>5 DEF InkInv
<1> QED BY <1>3, <1>7, <1>8, <1>9

-----------------------------------------------------------------------------
(* The steps of the reactor.                                               *)

\* What is polled goes from the channel into the reply.
LEMMA Taken ==
    ASSUME NEW r \in Requests, NEW n \in Nat, n <= Len(chan[r]),
           chan \in [Requests -> Seq(StreamEvent)], Told(r),
           chan' = [chan EXCEPT ![r] = SubSeq(@, n + 1, Len(@))], worker' = worker,
           \A i \in 1..n : chan[r][i].type # "Err",
           NEW before \in Seq(Nat), before = IF Replied(r) THEN reply ELSE <<>>,
           NEW more \in Seq(Nat), more = InkOf(SubSeq(chan[r], 1, n)),
           (IF Replied(r)' THEN reply' ELSE <<>>) = before \o more
    PROVE  Told(r)'
<1>1. PICK c \in Seq(StreamEvent) : c = chan[r]
    OBVIOUS
<1>0. n \in 0..Len(c)
    BY <1>1
<1>2. PICK first \in Seq(StreamEvent) : first = SubSeq(c, 1, n)
  <2>1. SubSeq(c, 1, n) \in Seq(StreamEvent)
    BY <1>0, CutInTwo
  <2> QED BY <2>1
<1>3. PICK rest \in Seq(StreamEvent) : rest = SubSeq(c, n + 1, Len(c))
  <2>1. SubSeq(c, n + 1, Len(c)) \in Seq(StreamEvent)
    BY <1>0, CutInTwo
  <2> QED BY <2>1
<1>4. first \o rest = c
  <2>1. SubSeq(c, 1, n) \o SubSeq(c, n + 1, Len(c)) = c
    BY ONLY c \in Seq(StreamEvent), n \in 0..Len(c), CutInTwo, Zenon
  <2> QED BY <2>1, <1>2, <1>3
<1>5. chan'[r] = rest /\ worker'[r] = worker[r]
    BY <1>1, <1>3
<1>6. PICK ink1 \in Seq(Nat) : ink1 = InkOf(rest)
    BY InkOfType
<1>7. InkOf(c) = more \o ink1
  <2>1. Joins(InkOf(first), InkOf(rest), InkOf(first \o rest))
    BY InkOfJoin
  <2> QED BY <2>1, <1>1, <1>2, <1>4, <1>6 DEF Joins
<1>8. (before \o more) \o ink1 = before \o (more \o ink1)
    BY ONLY before \in Seq(Nat), more \in Seq(Nat), ink1 \in Seq(Nat), Regroup
<1>9. Brought(r)' = Brought(r)
  <2>1. Brought(r) = before \o (more \o ink1)
    BY <1>1, <1>7 DEF Brought
  <2>2. Brought(r)' = (before \o more) \o ink1
    BY <1>5, <1>6 DEF Brought
  <2> QED BY <2>1, <2>2, <1>8
<1>10. Alive(r)' <=> Alive(r)
    BY <1>5 DEF Alive
<1>11. HasError(chan[r]) => HasError(chan'[r])
  <2> SUFFICES ASSUME NEW i \in 1..Len(c), c[i].type = "Err" PROVE HasError(rest)
    BY <1>1, <1>5 DEF HasError
  <2>1. i \notin 1..n /\ i - n \in 1..(Len(c) - n) /\ (i - n) + n = i
    BY <1>1
  <2>2. Len(rest) = Len(c) - n /\ \A j \in 1..Len(rest) : rest[j] = c[j + n]
    BY <1>1, <1>3, SubSeqProperties
  <2> QED BY <2>1, <2>2 DEF HasError
<1>12. CASE Alive(r)
    BY <1>5, <1>9, <1>10, <1>12 DEF Told
<1>13. CASE ~Alive(r)
  <2>1. Concludes(worker[r], chan[r], Brought(r))
    BY <1>13 DEF Told
  <2>2. Concludes(worker'[r], chan'[r], Brought(r)')
    BY <2>1, <1>5, <1>9, <1>11 DEF Concludes
  <2> QED BY <2>2, <1>10, <1>13 DEF Told
<1> QED BY <1>12, <1>13

\* A request that has just been made has brought nothing.
LEMMA TellsNothing ==
    ASSUME NEW w, w.answer = <<>>, w.parser = NewParser
    PROVE  Tells(w, <<>>)
<1>1. /\ w.parser.sentinel = 0 /\ w.parser.delivered = 0
    BY DEF NewParser
<1>2. PICK said \in Seq(Piece) : said = w.answer /\ Len(said) = 0
    BY EmptySeq
<1>3. SpansAreWhole(said)
    BY <1>2 DEF SpansAreWhole
<1>4. Marks(w.parser, said) /\ Effective(w.parser, said) = 0
    BY <1>1, <1>2 DEF Marks, Effective
<1>5. Cleared(said, 0) = <<>>
    BY PositionsStart DEF Cleared
<1>6. Delivers(w.parser, said, <<>>)
    BY <1>1, <1>4, <1>5 DEF Delivers
<1>7. Closed(said, 0)
    BY DEF Closed
<1> QED BY <1>1, <1>2, <1>3, <1>6, <1>7 DEF Tells, Between

\* A new request has brought nothing, or an error that takes the page.
LEMMA AskInk ==
    ASSUME IInv, InkInv, NEW lane \in Lanes, NEW r, r = used + 1, Ask(r, lane),
           page # "replying", page' # "replying"
    PROVE  InkInv'
<1>1. TurnTypes /\ Fresh /\ TurnInv
    BY DEF IInv, TurnInv
<1>2. r \in Requests /\ r \notin held /\ held' = held \cup {r}
    BY <1>1, AskKeeps
<1>3. chan[r] = <<>>
    BY <1>1, <1>2 DEF Fresh, TurnTypes, Requests
<1>4. \A s : ~Replied(s) /\ ~Replied(s)'
    BY DEF Replied
<1>5. \A s \in held : worker'[s] = worker[s] /\ chan'[s] = chan[s]
    BY <1>1, <1>2 DEF Ask, TurnTypes
<1>6. \A s \in held : Honest(s)'
    BY <1>4, <1>5, Untouched DEF InkInv
<1>7. Honest(r)'
  <2>1. CASE gate[lane]
    <3>1. worker'[r] = NewWorker(lane, "ended") /\ chan'[r] = <<Plain("Err")>>
      BY <2>1, <1>1, <1>2 DEF Ask, TurnTypes
    <3>2. Takes(chan'[r])
      BY <3>1 DEF Takes, Plain
    <3>3. Unspoilt(worker'[r])
      BY <3>1 DEF Unspoilt, NewWorker
    <3> QED BY <3>2, <3>3, <1>4 DEF Honest
  <2>2. CASE ~gate[lane]
    <3>1. PICK stage \in {"connect", "page"} : worker'[r] = NewWorker(lane, stage)
      BY <2>2, <1>1, <1>2 DEF Ask, TurnTypes
    <3>2. chan'[r] = <<>>
      BY <2>2, <1>3 DEF Ask
    <3>3. Unspoilt(worker'[r]) /\ Alive(r)'
      BY <3>1 DEF Unspoilt, NewWorker, Alive
    <3>4. Tells(worker'[r], <<>>)
      BY <3>1, TellsNothing DEF NewWorker
    <3>5. Brought(r)' = <<>>
      <4>1. <<>> \in Seq(StreamEvent) /\ <<>> \in Seq(Nat)
        BY EmptySeq
      <4>2. InkOf(<<>>) = <<>> /\ <<>> \o <<>> = <<>>
        BY <4>1, InkOfType, ConcatEmptySeq
      <4> QED BY <4>2, <3>2, <1>4 DEF Brought
    <3> QED BY <3>3, <3>4, <3>5 DEF Honest, Told
  <2> QED BY <2>1, <2>2
<1> QED BY <1>2, <1>6, <1>7 DEF InkInv

\* Nothing is taken from a request on a page that is no reply.
LEMMA QuietInk ==
    ASSUME InkInv, held' = held, worker' = worker, chan' = chan,
           page # "replying", page' # "replying"
    PROVE  InkInv'
<1>1. \A s : ~Replied(s) /\ ~Replied(s)'
    BY DEF Replied
<1> QED BY <1>1, Untouched DEF InkInv

\* The pen drops what was asked in advance.
LEMMA PenInk == ASSUME IInv, IInv', InkInv, TruthInv, Pen PROVE InkInv' /\ TruthInv'
<1>1. page = "listening" /\ page' = "listening" /\ turn = NoReq /\ turn' = turn /\ spec' = NoReq
      /\ remembered' = remembered
    BY DEF Pen, IInv, Places
<1> QED BY <1>1, NobodyIsTold, NothingRemembered

\* The page is asked about in advance.
LEMMA PreaskInk == ASSUME IInv, InkInv, TruthInv, Preask PROVE InkInv' /\ TruthInv'
<1>1. page = "listening" /\ page' = "listening" /\ remembered' = remembered
    BY DEF Preask
<1>2. TruthInv'
    BY <1>1, NothingRemembered
<1>3. CASE gate["speculative"]
    BY <1>1, <1>2, <1>3, QuietInk DEF Preask, turnVars
<1>4. CASE ~gate["speculative"]
  <2>1. PICK r : r = used + 1
    OBVIOUS
  <2>2. Ask(r, "speculative") /\ "speculative" \in Lanes
    BY <1>4, <2>1 DEF Preask, Lanes
  <2> QED BY <1>1, <1>2, <2>1, <2>2, AskInk
<1> QED BY <1>3, <1>4

\* A turn begins with the request made in advance, or a new one.
LEMMA CommitInk == ASSUME IInv, InkInv, TruthInv, Commit PROVE InkInv' /\ TruthInv'
<1>1. page = "listening" /\ page' = "thinking" /\ remembered' = remembered
    BY DEF Commit, Begin
<1>2. TruthInv'
    BY <1>1, NothingRemembered
<1>3. CASE spec # NoReq
    BY <1>1, <1>2, <1>3, QuietInk DEF Commit, turnVars
<1>4. CASE spec = NoReq
  <2>1. PICK r : r = used + 1
    OBVIOUS
  <2>2. Ask(r, "interactive") /\ "interactive" \in Lanes
    BY <1>4, <2>1 DEF Commit, Lanes
  <2> QED BY <1>1, <1>2, <2>1, <2>2, AskInk
<1> QED BY <1>3, <1>4

\* A scheduled turn begins.
LEMMA HeartbeatInk == ASSUME IInv, InkInv, TruthInv, Heartbeat PROVE InkInv' /\ TruthInv'
<1>1. page = "listening" /\ page' = "thinking" /\ remembered' = remembered
    BY DEF Heartbeat, Begin
<1>2. PICK r : r = used + 1
    OBVIOUS
<1>3. Ask(r, "scheduled") /\ "scheduled" \in Lanes
    BY <1>2 DEF Heartbeat, Lanes
<1> QED BY <1>1, <1>2, <1>3, AskInk, NothingRemembered

\* The first event is polled, and is no directive and no error.
LEMMA PolledInk ==
    ASSUME IInv, InkInv, page = "thinking", chan[turn] # <<>>,
           NEW e \in StreamEvent, e = Head(chan[turn]), e.type \in {"Ink", "Transcript"},
           chan' = [chan EXCEPT ![turn] = Tail(@)], worker' = worker, held' = held, turn' = turn,
           (IF page' = "replying" THEN reply' ELSE <<>>) = e.text
    PROVE  InkInv'
<1>1. PICK r \in Requests : r = turn
    BY DEF IInv, Places
<1>2. chan \in [Requests -> Seq(StreamEvent)] /\ held = {r}
    BY <1>1, SomeRequest DEF IInv, TurnInv, TurnTypes, Places
<1>3. PICK c \in Seq(StreamEvent) : c = chan[r] /\ c # <<>>
    BY <1>1, <1>2
<1>4. Len(c) \in Nat /\ 1 <= Len(c) /\ e = c[1] /\ Tail(c) = SubSeq(c, 2, Len(c))
    BY <1>1, <1>3, HeadTailProperties, TailIsSubSeq
<1>5. SubSeq(c, 1, 1) = Append(<<>>, e)
  <2>1. PICK k \in Nat : k = 0
    OBVIOUS
  <2>2. SubSeq(c, 1, k + 1) = Append(SubSeq(c, 1, k), c[k + 1])
    BY <2>1, <1>4, OneMore
  <2>3. k + 1 = 1 /\ SubSeq(c, 1, 0) = <<>>
    BY <2>1
  <2> QED BY <2>1, <2>2, <2>3, <1>4
<1>6. PICK nothing \in Seq(Nat) : nothing = <<>>
    BY EmptySeq
<1>7. PICK more \in Seq(Nat) : more = e.text /\ more = InkOf(SubSeq(c, 1, 1))
  <2>1. <<>> \in Seq(StreamEvent) /\ InkOf(<<>>) = <<>>
    BY EmptySeq, InkOfType
  <2>2. InkOf(Append(<<>>, e)) = <<>> \o e.text /\ e.text \in Seq(Nat)
    BY <2>1, InkOfAppend DEF StreamEvent, Event
  <2>3. <<>> \o e.text = e.text
    BY <2>2, ConcatEmptySeq
  <2> QED BY <2>2, <2>3, <1>5
<1>8. Honest(r) /\ ~Replied(r) /\ ~Takes(chan[r])
    BY <1>1, <1>2, <1>3, <1>4 DEF InkInv, Replied, Takes
<1>9. Told(r) /\ Unspoilt(worker'[r])
    BY <1>8 DEF Honest
<1>10. PICK n \in Nat : n = 1
    OBVIOUS
<1>11. Told(r)'
  <2>1. chan' = [chan EXCEPT ![r] = SubSeq(@, n + 1, Len(@))]
    <3>1. Tail(chan[r]) = SubSeq(chan[r], n + 1, Len(chan[r]))
      BY <1>3, <1>4, <1>10
    <3> QED BY <3>1, <1>1, <1>2
  <2>2. \A i \in 1..n : chan[r][i].type # "Err"
    BY <1>3, <1>4, <1>10
  <2>3. nothing = IF Replied(r) THEN reply ELSE <<>>
    BY <1>6, <1>8
  <2>4. more = InkOf(SubSeq(chan[r], 1, n)) /\ n <= Len(chan[r])
    BY <1>3, <1>4, <1>7, <1>10
  <2>5. nothing \o more = more
    BY <1>6, ConcatEmptySeq
  <2>6. (IF Replied(r)' THEN reply' ELSE <<>>) = nothing \o more
    BY <2>5, <1>1, <1>7 DEF Replied
  <2> QED BY <2>1, <2>2, <2>3, <2>4, <2>6, <1>2, <1>9, Taken
<1> QED BY <1>2, <1>9, <1>11 DEF InkInv, Honest

\* The first event: only text and a transcription leave the request held.
LEMMA FirstEventInk ==
    ASSUME IInv, IInv', InkInv, TruthInv, FirstEvent
    PROVE  InkInv' /\ TruthInv'
<1>1. PICK e : e = Head(chan[turn])
    OBVIOUS
<1>2. /\ page = "thinking" /\ chan[turn] # <<>> /\ turn # NoReq /\ reply = <<>> /\ failed = FALSE
      /\ spec = NoReq /\ spec' = spec /\ truth' = truth /\ remembered' = remembered
      /\ FirstText(e) \/ FirstTranscript(e) \/ FirstError(e) \/ FirstCommand(e) \/ FirstDirective(e)
    BY <1>1 DEF FirstEvent, IInv, Places, PageTypes
<1>3. e \in StreamEvent
  <2>1. PICK r \in Requests : r = turn
    BY <1>2 DEF IInv, Places
  <2>2. chan[r] \in Seq(StreamEvent) /\ chan[r] # <<>>
    BY <1>2, <2>1 DEF IInv, TurnInv, TurnTypes
  <2> QED BY <2>1, <2>2, <1>1, HeadTailProperties
<1>4. remembered = <<>>
    BY <1>2 DEF TruthInv
<1>5. \A t \in Seq(Nat) : <<>> \o t = t
    BY ConcatEmptySeq
<1>6. CASE FirstText(e)
  <2>1. /\ e.type = "Ink" /\ chan' = [chan EXCEPT ![turn] = Tail(@)]
        /\ page' = "replying" /\ worker' = worker /\ held' = held /\ turn' = turn
    BY <1>6 DEF FirstText, Replying
  <2>2. reply' = e.text
    BY <1>2, <1>3, <1>5, <1>6 DEF FirstText, StreamEvent, Event
  <2>3. (IF page' = "replying" THEN reply' ELSE <<>>) = e.text
    BY <2>1, <2>2
  <2>4. InkInv'
    BY <2>1, <2>3, <1>1, <1>2, <1>3, PolledInk
  <2> QED BY <2>1, <2>4, <1>2, NothingRemembered
<1>7. CASE FirstTranscript(e)
  <2>1. /\ e.type = "Transcript" /\ chan' = [chan EXCEPT ![turn] = Tail(@)]
        /\ page' = page /\ worker' = worker /\ held' = held /\ turn' = turn
    BY <1>7 DEF FirstTranscript
  <2>2. (IF page' = "replying" THEN reply' ELSE <<>>) = e.text
    BY <2>1, <1>2, <1>3 DEF StreamEvent
  <2>3. InkInv'
    BY <2>1, <2>2, <1>1, <1>2, <1>3, PolledInk
  <2> QED BY <2>1, <2>3, <1>2, NothingRemembered
<1>8. ASSUME LetGo PROVE InkInv'
    BY <1>2, <1>8, NobodyIsTold DEF LetGo
<1>9. CASE FirstError(e)
    BY <1>2, <1>4, <1>8, <1>9 DEF FirstError, TruthInv
<1>10. CASE FirstCommand(e)
  <2>1. LetGo /\ reply' = <<LocalReply>>
    <3>1. <<LocalReply>> \in Seq(Nat)
      BY DEF LocalReply
    <3> QED BY <3>1, <1>2, <1>5, <1>10 DEF FirstCommand
  <2> QED BY <2>1, <1>2, <1>4, <1>8 DEF TruthInv, WholeAnswer
<1>11. CASE FirstDirective(e)
    BY <1>2, <1>4, <1>8, <1>11 DEF FirstDirective, TruthInv
<1> QED BY <1>2, <1>6, <1>7, <1>9, <1>10, <1>11

\* The request is given up before anything came.
LEMMA FirstTimesOutInk ==
    ASSUME IInv, IInv', InkInv, TruthInv, FirstTimesOut
    PROVE  InkInv' /\ TruthInv'
<1>1. /\ page = "thinking" /\ reply = <<>> /\ reply' = reply /\ spec = NoReq /\ spec' = spec
      /\ turn' = NoReq /\ remembered' = remembered
    BY DEF FirstTimesOut, LetGo, IInv, Places
<1>2. remembered = <<>>
    BY <1>1 DEF TruthInv
<1> QED BY <1>1, <1>2, NobodyIsTold DEF TruthInv

\* The page is left and its reply with it.
LEMMA AbandonInk ==
    ASSUME IInv, IInv', InkInv, TruthInv, Abandon
    PROVE  InkInv' /\ TruthInv'
<1>1. /\ page # "listening" /\ page' = "listening" /\ remembered' = <<>> /\ spec' = spec
      /\ spec = NoReq /\ turn' = NoReq
    BY DEF Abandon, LetGo, IInv, Places
<1> QED BY <1>1, NobodyIsTold DEF TruthInv

\* A frame only draws, or completes the reply.
LEMMA FramesEnd ==
    ASSUME NEW p, NEW isFull, NEW open, NEW isFailed, NEW text, Frame(p, isFull, open, isFailed, text)
    PROVE  UNCHANGED <<page, remembered>> \/ Complete(isFailed, text)
BY DEF Frame

\* A reply that is completed is persisted when it is whole.
LEMMA CompleteTells ==
    ASSUME NEW isFailed, NEW text, page = "replying", remembered = <<>>, turn' = NoReq,
           failed' = isFailed, reply' = text,
           ~isFailed /\ text # <<>> => WholeAnswer(text)',
           (UNCHANGED <<page, remembered>>) \/ Complete(isFailed, text)
    PROVE  TruthInv'
<1>1. CASE UNCHANGED <<page, remembered>>
    BY <1>1 DEF TruthInv, WholeAnswer
<1>2. CASE Complete(isFailed, text)
    BY <1>2 DEF Complete, Persists, TruthInv, WholeAnswer
<1> QED BY <1>1, <1>2

\* A frame without a stream.
LEMMA TickReplyInk ==
    ASSUME IInv, IInv', InkInv, TruthInv, TickReply
    PROVE  InkInv' /\ TruthInv'
<1>1. /\ page = "replying" /\ turn = NoReq /\ Frame(plan, full, FALSE, failed, reply)
      /\ spec' = spec /\ turn' = turn /\ reply' = reply /\ failed' = failed /\ truth' = truth
      /\ spec = NoReq
    BY DEF TickReply, IInv, Places
<1>2. remembered = <<>> /\ (~failed /\ reply # <<>> => WholeAnswer(reply))
    BY <1>1 DEF TruthInv
<1>3. UNCHANGED <<page, remembered>> \/ Complete(failed, reply)
    BY <1>1 DEF Frame
<1>4. TruthInv'
    BY <1>1, <1>2, <1>3, CompleteTells DEF WholeAnswer
<1> QED BY <1>1, <1>4, NobodyIsTold

\* A batch that ends neither with an error nor with the reader has no error,
\* and at the boundary it is all there is.
LEMMA QuietBatch ==
    ASSUME chan[turn] \in Seq(StreamEvent), ~EndsAt(Drained, "Err"), ~EndsAt(Drained, "Reader")
    PROVE  /\ \A i \in 1..Drained : chan[turn][i].type # "Err"
           /\ Boundary(Drained) => Drained = Len(chan[turn]) /\ ~Alive(turn)
<1>1. PICK c \in Seq(StreamEvent) : c = chan[turn]
    OBVIOUS
<1> DEFINE n    == Least(DrainBudget, Len(c))
           ends == {i \in 1..n : c[i].type \in {"Err", "Reader"}}
<1>2. n \in Nat /\ n <= Len(c) /\ Len(c) \in Nat
    BY PathAssumption DEF Least
<1>3. Drained = IF ends = {} THEN n ELSE FirstOf(ends)
    BY <1>1 DEF Drained
<1>4. ends \in SUBSET Nat /\ (\A i \in ends : i > 0 /\ c[i].type \in {"Err", "Reader"})
      /\ (ends = {} => \A i \in 1..n : c[i].type # "Err")
    BY <1>2
<1> HIDE DEF n, ends
<1>5. ends = {}
  <2> SUFFICES ASSUME ends # {} PROVE FALSE
    OBVIOUS
  <2>1. FirstOf(ends) \in ends
    BY <1>4, FirstOfType
  <2> QED BY <2>1, <1>1, <1>3, <1>4 DEF EndsAt
<1>6. \A i \in 1..Drained : c[i].type # "Err"
    BY <1>3, <1>4, <1>5
<1> QED BY <1>1, <1>6 DEF Boundary

\* What is left of a stream that has ended is the rest of its answer.
LEMMA AllTold ==
    ASSUME NEW r \in Requests, chan[r] \in Seq(StreamEvent), Told(r), ~Alive(r), Replied(r),
           \A i \in 1..Len(chan[r]) : chan[r][i].type # "Err"
    PROVE  worker[r].outcome = "done" /\ reply \o InkOf(chan[r]) = Shown(worker[r].answer)
<1>1. ~HasError(chan[r])
    BY DEF HasError
<1> QED BY <1>1 DEF Told, Concludes, Brought

\* A tick while the stream is held: the batch goes into the reply, and at the
\* boundary the reply is what the stream had brought.
LEMMA TickStreamInk ==
    ASSUME IInv, IInv', InkInv, TruthInv, TickStream
    PROVE  InkInv' /\ TruthInv'
<1>1. /\ page = "replying" /\ turn # NoReq /\ spec = NoReq /\ spec' = spec
      /\ plan = Streaming(reply) /\ full = FALSE /\ reply \in Seq(Nat)
      /\ lost \in BOOLEAN /\ remembered = <<>>
    BY DEF TickStream, IInv, Places, PlanInv, PageTypes, TruthInv
<1>2. PICK r \in Requests : r = turn
    BY <1>1 DEF IInv, Places
<1>3. /\ chan[turn] \in Seq(StreamEvent) /\ Free(chan[turn])
      /\ chan \in [Requests -> Seq(StreamEvent)] /\ held = {r}
    BY <1>1, <1>2, SomeRequest DEF IInv, TurnInv, TurnTypes, Begun, Places
<1>4. Replied(r) /\ Told(r) /\ Unspoilt(worker[r])
    BY <1>1, <1>2, <1>3 DEF InkInv, Honest, Replied
<1>5. PICK n \in 0..Len(chan[turn]) : n = Drained /\ ~EndsAt(n, "Reader")
    BY <1>3, DrainedBatch
<1>6. PICK more \in Seq(Nat) : /\ more = InkOf(SubSeq(chan[turn], 1, n))
                               /\ Consumed(n) = Kept(reply \o more)
  <2>1. /\ InkOf(SubSeq(chan[turn], 1, n)) \in Seq(Nat)
        /\ Consumed(n) = Kept(reply \o InkOf(SubSeq(chan[turn], 1, n)))
    BY <1>1, <1>3, ConsumedIsKept
  <2> QED BY <2>1
<1>7. PICK text \in Seq(Nat) : text = reply \o more
    BY <1>1, ConcatProperties
<1>8. Consumed(n).reply = text /\ Consumed(n).plan = Streaming(text) /\ Consumed(n).full = FALSE
    BY <1>6, <1>7 DEF Kept
<1>9. /\ reply' = text /\ failed' = (failed \/ EndsAt(n, "Err"))
      /\ IF Boundary(n)
         THEN /\ LetGo
              /\ truth' = [shown   |-> Shown(worker[turn].answer),
                           outcome |-> worker[turn].outcome]
              /\ Frame(Recenter(Streaming(text), text),
                       FALSE /\ ~CanRecenter(Streaming(text), text), FALSE, failed', text)
         ELSE /\ chan' = [chan EXCEPT ![turn] = SubSeq(@, n + 1, Len(@))]
              /\ UNCHANGED <<used, gate, worker, held, turn, truth>>
              /\ \/ UNCHANGED <<page, remembered>>
                 \/ Frame(Streaming(text), FALSE, TRUE, failed', text)
    BY <1>5, <1>8 DEF TickStream
<1>10. PICK wrong : wrong = failed'
    OBVIOUS
<1>11. ~EndsAt(n, "Err") => /\ \A i \in 1..n : chan[turn][i].type # "Err"
                            /\ Boundary(n) => n = Len(chan[turn]) /\ ~Alive(turn)
    BY <1>3, <1>5, QuietBatch
<1>12. CASE Boundary(n)
  <2>1. turn' = NoReq
    BY <1>9, <1>12 DEF LetGo
  <2>2. ASSUME ~wrong PROVE WholeAnswer(text)'
    <3>1. ~EndsAt(n, "Err")
      BY <2>2, <1>9, <1>10
    <3>2. n = Len(chan[turn]) /\ ~Alive(turn) /\ \A i \in 1..n : chan[turn][i].type # "Err"
      BY <3>1, <1>11, <1>12
    <3>3. worker[r].outcome = "done" /\ reply \o InkOf(chan[r]) = Shown(worker[r].answer)
      BY <3>2, <1>2, <1>3, <1>4, AllTold
    <3>4. SubSeq(chan[turn], 1, n) = chan[turn]
      BY <3>2, <1>3, SubSeqFull
    <3>5. text = Shown(worker[r].answer)
      BY <3>3, <3>4, <1>2, <1>6, <1>7
    <3>6. truth'.outcome = "done" /\ truth'.shown = text
      BY <3>3, <3>5, <1>2, <1>9, <1>12
    <3> QED BY <3>6 DEF WholeAnswer
  <2>3. (UNCHANGED <<page, remembered>>) \/ Complete(wrong, text)
    <3>1. PICK p, isFull : Frame(p, isFull, FALSE, wrong, text)
      BY <1>9, <1>10, <1>12
    <3> QED BY <3>1, FramesEnd
  <2>4. TruthInv'
    BY <2>1, <2>2, <2>3, <1>1, <1>9, <1>10, CompleteTells
  <2> QED BY <2>1, <2>4, <1>1, NobodyIsTold
<1>13. CASE ~Boundary(n)
  <2>1. UNCHANGED <<page, remembered>>
    <3>1. CASE Frame(Streaming(text), FALSE, TRUE, wrong, text)
      BY <3>1, <1>1, FrameWaits
    <3> QED BY <3>1, <1>9, <1>10, <1>13
  <2>2. /\ chan' = [chan EXCEPT ![r] = SubSeq(@, n + 1, Len(@))]
        /\ worker' = worker /\ held' = held /\ turn' = turn
    BY <1>2, <1>9, <1>13
  <2>3. ~EndsAt(n, "Err")
    BY <1>13 DEF Boundary
  <2>4. Told(r)'
    <3>1. n \in Nat /\ n <= Len(chan[r]) /\ \A i \in 1..n : chan[r][i].type # "Err"
      BY <2>3, <1>2, <1>3, <1>11
    <3>2. PICK before \in Seq(Nat) : before = IF Replied(r) THEN reply ELSE <<>>
      BY <1>1, <1>4
    <3>3. more = InkOf(SubSeq(chan[r], 1, n))
      BY <1>2, <1>6
    <3>4. Replied(r)'
      BY <2>1, <2>2, <1>1, <1>2 DEF Replied
    <3>5. (IF Replied(r)' THEN reply' ELSE <<>>) = before \o more
      BY <3>2, <3>4, <1>4, <1>7, <1>9
    <3> QED BY <3>1, <3>2, <3>3, <3>5, <2>2, <1>3, <1>4, Taken
  <2>5. InkInv'
    BY <2>2, <2>4, <1>3, <1>4 DEF InkInv, Honest
  <2>6. TruthInv'
    BY <2>1, <2>2, <1>1, NothingRemembered
  <2> QED BY <2>5, <2>6
<1> QED BY <1>12, <1>13

-----------------------------------------------------------------------------
(* The invariant, and what follows from it.                                *)

\* Nothing is held and nothing persisted when the program starts.
LEMMA InitInk == ASSUME Init PROVE InkInv /\ TruthInv
BY DEF Init, TurnInit, InkInv, TruthInv

\* Nothing has moved.
LEMMA StutterInk ==
    ASSUME IInv, InkInv, TruthInv, UNCHANGED vars
    PROVE  InkInv' /\ TruthInv'
<1>1. /\ page' = page /\ turn' = turn /\ reply' = reply /\ failed' = failed /\ truth' = truth
      /\ remembered' = remembered /\ worker' = worker /\ chan' = chan /\ held' = held
    BY DEF vars, turnVars, pageVars
<1>2. \A s : Replied(s)' <=> Replied(s)
    BY <1>1 DEF Replied
<1>3. InkInv'
    BY <1>1, <1>2, Untouched DEF InkInv
<1>4. TruthInv'
    BY <1>1 DEF TruthInv, WholeAnswer
<1> QED BY <1>3, <1>4

\* The invariants of the path and of its ink together.
AInv == IInv /\ InkInv /\ TruthInv

\* Every step keeps them.
LEMMA InkStepKeeps == ASSUME ~SplitSpans, AInv, [Next]_vars PROVE AInv'
<1>1. IInv /\ InkInv /\ TruthInv /\ IInv'
    BY StepKeeps DEF AInv
<1>2. InkInv' /\ TruthInv'
    BY <1>1, PenInk, PreaskInk, CommitInk, HeartbeatInk, FirstEventInk, FirstTimesOutInk,
       TickStreamInk, TickReplyInk, AbandonInk, WorkInk, StutterInk DEF Next
<1> QED BY <1>1, <1>2 DEF AInv

\* They always hold while no sentence ends inside a directive.
LEMMA InkInductive == ASSUME ~SplitSpans PROVE Spec => []AInv
<1>1. Init => AInv
    BY InitInv, InitInk DEF AInv
<1>2. AInv /\ [Next]_vars => AInv'
    BY InkStepKeeps
<1> QED BY <1>1, <1>2, PTL DEF Spec

\* What was taken into the reply and what is still in the channel is the
\* beginning of what the writer should see, whatever the frames and batches
\* were (StreamParser::advance, consume_first_event, consume_reply_event).
THEOREM InkIsAlwaysAPrefix == ASSUME ~SplitSpans PROVE Spec => []InkIsAPrefix
<1>1. AInv => InkIsAPrefix
  <2> SUFFICES ASSUME AInv, turn # NoReq, Coming(turn) # <<>>,
                      page = "replying" \/ Head(chan[turn]).type = "Ink"
               PROVE  Prefix(reply \o Coming(turn), Shown(worker[turn].answer))
    BY DEF InkIsAPrefix
  <2>1. PICK r \in Requests : r = turn /\ r \in held
    BY DEF AInv, IInv, Places
  <2>2. chan[r] \in Seq(StreamEvent) /\ worker[r] \in Worker /\ InkOf(<<>>) = <<>>
    BY EmptySeq, InkOfType DEF AInv, IInv, TurnInv, TurnTypes
  <2>3. Honest(r)
    BY <2>1 DEF AInv, InkInv
  <2>4. Told(r)
    <3>1. chan[r] # <<>>
      BY <2>1, <2>2 DEF Coming
    <3>2. ~(~Replied(r) /\ Takes(chan[r]))
      BY <3>1, <2>1, <2>2 DEF Replied, Takes
    <3> QED BY <3>2, <2>3 DEF Honest
  <2>5. PICK brought \in Seq(Nat) : brought = Brought(r) /\ brought = reply \o Coming(turn)
    <3>1. reply \in Seq(Nat) /\ (~Replied(r) => reply = <<>>)
      BY <2>1 DEF AInv, IInv, PageTypes, Places, Replied
    <3>2. InkOf(chan[r]) \in Seq(Nat)
      BY <2>2, InkOfType
    <3>3. Brought(r) = reply \o Coming(turn)
      BY <3>1, <2>1 DEF Brought, Coming
    <3>4. reply \o InkOf(chan[r]) \in Seq(Nat)
      BY <3>1, <3>2, ConcatProperties
    <3> QED BY <3>3, <3>4, <2>1 DEF Coming
  <2>6. worker[r].answer \in Seq(Piece) /\ worker[r].parser \in Parser
    BY <2>2, WorkerShapes
  <2>7. Prefix(brought, Shown(worker[r].answer))
    <3>1. CASE Alive(r)
      BY <3>1, <2>4, <2>5, <2>6, DeliveredIsABeginning DEF Told, Tells
    <3>2. CASE ~Alive(r)
      <4>1. Prefix(Shown(worker[r].answer), Shown(worker[r].answer))
        BY <2>6, ShownType, Beginning
      <4> QED BY <4>1, <3>2, <2>4, <2>5 DEF Told, Concludes
    <3> QED BY <3>1, <3>2
  <2> QED BY <2>1, <2>5, <2>7
<1> QED BY <1>1, InkInductive, PTL

\* What is persisted is the whole visible answer of a request that ended
\* well, or a local command's (complete_reply, the stream's boundary).
THEOREM WholeAnswersAreAlwaysRemembered ==
    ASSUME ~SplitSpans PROVE Spec => []WholeAnswersAreRemembered
<1>1. AInv => WholeAnswersAreRemembered
    BY DEF AInv, TruthInv, WholeAnswer, WholeAnswersAreRemembered
<1> QED BY <1>1, InkInductive, PTL
=============================================================================
