---------------------------- MODULE AnswerProofs ----------------------------
(***************************************************************************)
(* Answers, for every bound: the variables keep their types, a lane's      *)
(* permit is taken exactly while one worker lives in the lane, a directive *)
(* never comes after text, and what a complete reply drew is its text or a *)
(* beginning of it with the mark.                                          *)
(*                                                                         *)
(* IInv says what is behind that: nobody unknown has events, a channel     *)
(* fills only once the head of the answer was looked at (EventsInOrder),   *)
(* the page holds the receivers that its state stands for (Places), and a  *)
(* reply's plan is kept off the paper while its text arrives, is laid out  *)
(* as one block, or is laid out in full (PlanInv).                         *)
(*                                                                         *)
(* What recursive functions compute is proved from the least number of a   *)
(* set of counterexamples (Induction).                                     *)
(***************************************************************************)
EXTENDS AnswerPath, SequenceTheorems, WellFoundedInduction, TLAPS

\* A set of natural numbers with 0 and every successor is all of them.
LEMMA Induction ==
    ASSUME NEW P, 0 \in P, \A n \in Nat : n \in P => n + 1 \in P
    PROVE  \A n \in Nat : n \in P
<1> DEFINE T == Nat \ P
<1> SUFFICES ASSUME T # {} PROVE FALSE
    OBVIOUS
<1>1. PICK m \in T : \A n \in T : ~(<<n, m>> \in OpToRel(<, Nat))
    BY NatLessThanWellFounded, WFMin
<1>2. \A n \in T : ~(n < m)
    BY <1>1, Zenon DEF OpToRel
<1>3. m # 0 /\ m - 1 \in Nat /\ m - 1 < m /\ (m - 1) + 1 = m
    OBVIOUS
<1>4. m - 1 \in P
    BY <1>2, <1>3
<1> QED BY <1>3, <1>4

\* What a recursive function over a..b is: a value for the first place, and
\* the next one from the one before.
Unfolds(f, S, a, b, first, step) ==
    /\ f \in [a..b -> S] /\ f[a] = first
    /\ \A i \in (a + 1)..b : f[i] = step[i][f[i - 1]]

\* There is one.
LEMMA Unfolding ==
    ASSUME NEW S, NEW a \in Nat, NEW b \in Nat, a <= b, NEW first \in S,
           NEW step \in [(a + 1)..b -> [S -> S]]
    PROVE  \E f : Unfolds(f, S, a, b, first, step)
<1> DEFINE P == {n \in Nat : a + n <= b => \E f : Unfolds(f, S, a, a + n, first, step)}
<1>1. 0 \in P
  <2>1. Unfolds([i \in a..a |-> first], S, a, a, first, step)
    BY DEF Unfolds
  <2>2. a + 0 = a
    OBVIOUS
  <2> QED BY <2>1, <2>2
<1>2. ASSUME NEW n \in Nat, n \in P PROVE n + 1 \in P
  <2> SUFFICES ASSUME a + (n + 1) <= b
               PROVE  \E f : Unfolds(f, S, a, a + (n + 1), first, step)
    OBVIOUS
  <2>1. PICK f : Unfolds(f, S, a, a + n, first, step)
    BY <1>2
  <2> DEFINE k == a + (n + 1)
             g == [i \in a..k |-> IF i = k THEN step[k][f[k - 1]] ELSE f[i]]
  <2>2. k \in (a + 1)..b /\ k - 1 \in a..(a + n) /\ f[k - 1] \in S
    BY <2>1 DEF Unfolds
  <2>3. step[k][f[k - 1]] \in S
    BY <2>2
  <2>4. g \in [a..k -> S] /\ g[a] = first
    BY <2>1, <2>3 DEF Unfolds
  <2>5. ASSUME NEW i \in (a + 1)..k PROVE g[i] = step[i][g[i - 1]]
    <3>1. CASE i = k
      BY <3>1, <2>2
    <3>2. CASE i # k
      BY <3>2, <2>1 DEF Unfolds
    <3> QED BY <3>1, <3>2
  <2> QED BY <2>4, <2>5 DEF Unfolds
<1>3. b - a \in Nat /\ a + (b - a) = b
    OBVIOUS
<1> HIDE DEF P
<1>4. b - a \in P
    BY <1>1, <1>2, <1>3, Induction
<1> QED BY <1>3, <1>4 DEF P

PositionStep(a, b, S) ==
    [i \in (a + 1)..b |-> [s \in Seq(Nat) |-> IF i \in S THEN Append(s, i) ELSE s]]

\* Positions, unfolded once.
LEMMA PositionsUnfold ==
    ASSUME NEW a \in Nat, NEW c \in Nat, a <= c, NEW S, NEW f,
           Unfolds(f, Seq(Nat), a, c, <<>>, PositionStep(a, c, S)),
           NEW b \in a..c
    PROVE  Positions(a, b, S) = f[b] /\ f[b] \in Seq(Nat)
<1> DEFINE Body(s, i) == IF i = a THEN <<>>
                         ELSE IF i \in S THEN Append(s[i-1], i) ELSE s[i-1]
           g == [i \in a..b |-> f[i]]
           h == CHOOSE s : s = [i \in a..b |-> Body(s, i)]
           P == {n \in Nat : a + n <= b => h[a + n] = f[a + n]}
<1>1. ASSUME NEW i \in (a + 1)..c
      PROVE  f[i - 1] \in Seq(Nat) /\ f[i] = IF i \in S THEN Append(f[i-1], i) ELSE f[i-1]
  <2>1. i - 1 \in a..c /\ f[i - 1] \in Seq(Nat)
    BY <1>1 DEF Unfolds
  <2>2. f[i] = PositionStep(a, c, S)[i][f[i - 1]]
    BY <1>1 DEF Unfolds
  <2> QED BY <2>1, <2>2 DEF PositionStep
<1>2. g = [i \in a..b |-> Body(g, i)]
  <2>1. ASSUME NEW i \in a..b PROVE g[i] = Body(g, i)
    <3>1. CASE i = a
      BY <3>1 DEF Unfolds
    <3>2. CASE i # a
      <4>1. i \in (a + 1)..c /\ i - 1 \in a..b
        BY <3>2
      <4> QED BY <3>2, <4>1, <1>1
    <3> QED BY <3>1, <3>2
  <2> QED BY <2>1
<1>3. h = [i \in a..b |-> Body(h, i)]
    BY <1>2, Zenon
<1>4. Positions(a, b, S) = h[b]
    BY DEF Positions
<1> HIDE DEF h
<1>5. 0 \in P
    BY <1>3 DEF Unfolds
<1>6. ASSUME NEW n \in Nat, n \in P PROVE n + 1 \in P
  <2> SUFFICES ASSUME a + (n + 1) <= b PROVE h[a + (n + 1)] = f[a + (n + 1)]
    OBVIOUS
  <2>1. h[a + n] = f[a + n]
    BY <1>6
  <2>2. a + (n + 1) \in (a + 1)..c /\ a + (n + 1) \in a..b /\ (a + (n + 1)) - 1 = a + n
    OBVIOUS
  <2>3. h[a + (n + 1)] = Body(h, a + (n + 1))
    BY <2>2, <1>3
  <2> QED BY <2>1, <2>2, <2>3, <1>1
<1> HIDE DEF P
<1>7. b - a \in P
    BY <1>5, <1>6, Induction
<1>8. h[b] = f[b]
    BY <1>7 DEF P
<1> QED BY <1>4, <1>8 DEF Unfolds

\* A fragment without pieces.
LEMMA PositionsStart ==
    ASSUME NEW a \in Nat, NEW S
    PROVE  Positions(a, a, S) = <<>>
<1>1. PICK f : Unfolds(f, Seq(Nat), a, a, <<>>, PositionStep(a, a, S))
  <2>1. PositionStep(a, a, S) \in [(a + 1)..a -> [Seq(Nat) -> Seq(Nat)]]
    BY DEF PositionStep
  <2>2. <<>> \in Seq(Nat) /\ a <= a
    BY EmptySeq
  <2> QED BY <2>1, <2>2, Unfolding
<1>2. a \in a..a /\ f[a] = <<>>
    BY <1>1 DEF Unfolds
<1> QED BY <1>1, <1>2, PositionsUnfold

\* A fragment that is one piece longer.
LEMMA PositionsNext ==
    ASSUME NEW a \in Nat, NEW b \in Nat, a <= b, NEW S
    PROVE  /\ Positions(a, b, S) \in Seq(Nat)
           /\ Positions(a, b + 1, S) = IF b + 1 \in S THEN Append(Positions(a, b, S), b + 1)
                                       ELSE Positions(a, b, S)
<1> DEFINE c == b + 1
<1>1. PICK f : Unfolds(f, Seq(Nat), a, c, <<>>, PositionStep(a, c, S))
  <2>1. PositionStep(a, c, S) \in [(a + 1)..c -> [Seq(Nat) -> Seq(Nat)]]
    BY DEF PositionStep
  <2>2. <<>> \in Seq(Nat)
    BY EmptySeq
  <2> HIDE DEF c
  <2>3. c \in Nat /\ a <= c
    BY DEF c
  <2> QED BY <2>1, <2>2, <2>3, Unfolding
<1>2. b \in a..c /\ c \in a..c
    OBVIOUS
<1>3. Positions(a, b, S) = f[b] /\ f[b] \in Seq(Nat) /\ Positions(a, c, S) = f[c]
    BY <1>1, <1>2, PositionsUnfold
<1>4. f[c] = PositionStep(a, c, S)[c][f[b]]
    BY <1>1, <1>2 DEF Unfolds
<1> QED BY <1>3, <1>4 DEF PositionStep

\* A fragment's positions are a sequence of numbers.
LEMMA PositionsType ==
    ASSUME NEW a \in Nat, NEW b \in Nat, a <= b, NEW S
    PROVE  Positions(a, b, S) \in Seq(Nat)
BY PositionsNext

\* A set of numbers has a least one.
LEMMA FirstOfType ==
    ASSUME NEW T \in SUBSET Nat, T # {}
    PROVE  FirstOf(T) \in T /\ \A j \in T : FirstOf(T) <= j
<1>1. PICK m \in T : \A n \in T : ~(<<n, m>> \in OpToRel(<, Nat))
    BY NatLessThanWellFounded, WFMin
<1>2. \A n \in T : ~(n < m)
    BY <1>1, Zenon DEF OpToRel
<1>3. \A n \in T : m <= n
    BY <1>2
<1> QED BY <1>3, Zenon DEF FirstOf

\* A bounded set of numbers has a largest one.
LEMMA LastOfType ==
    ASSUME NEW T \in SUBSET Nat, T # {}, NEW limit \in Nat, \A n \in T : n <= limit
    PROVE  LastOf(T) \in T /\ \A j \in T : j <= LastOf(T)
<1> DEFINE D == {limit - n : n \in T}
<1>1. D \in SUBSET Nat /\ D # {}
  <2>1. \A n \in T : limit - n \in Nat
    OBVIOUS
  <2> QED BY <2>1
<1>2. FirstOf(D) \in D /\ \A j \in D : FirstOf(D) <= j
    BY <1>1, FirstOfType
<1>3. PICK m \in T : FirstOf(D) = limit - m
    BY <1>2
<1>4. \A n \in T : limit - m <= limit - n
    BY <1>2, <1>3
<1>5. \A n \in T : n <= m
    BY <1>4
<1> QED BY <1>5, Zenon DEF LastOf

-----------------------------------------------------------------------------
(* The parser.                                                             *)

Parser == [delivered : Nat, sentinel : Nat, routed : BOOLEAN, emitted : BOOLEAN]

\* What arrives in a channel: only an Ink event carries text, and it does.
StreamEvent == {e \in Event : e.type = "Ink" <=> e.text # <<>>}

\* The events that take the page instead of a reply.
Directive == {"Panel", "Reader", "LocalCommand"}
Free(events)      == \A i \in 1..Len(events) : events[i].type \notin Directive
AfterHead(events) == \A i \in 2..Len(events) : events[i].type \notin Directive

\* The events that are built are events of a stream.
LEMMA EventShapes ==
    /\ \A t \in Seq(Nat) : t # <<>> => Ink(t) \in StreamEvent /\ Ink(t).type = "Ink"
    /\ \A k \in Route \cup {"Err", "Transcript", "LocalCommand"} :
           Plain(k) \in StreamEvent /\ Plain(k).type = k
<1>1. <<>> \in Seq(Nat)
    BY EmptySeq
<1> QED BY <1>1 DEF Ink, Plain, StreamEvent, Event, Route

\* Where the answer ends for the writer.
LEMMA EffectiveType ==
    ASSUME NEW p \in Parser, NEW said \in Seq(Piece)
    PROVE  Sentinel(p, said) \in Nat /\ Effective(p, said) \in Nat
<1> DEFINE marks == {i \in 1..Len(said) : said[i] = "mark"}
<1>1. marks \in SUBSET Nat /\ Len(said) \in Nat
    OBVIOUS
<1>2. marks # {} => FirstOf(marks) \in marks
    BY <1>1, FirstOfType
<1>3. Sentinel(p, said) \in Nat
    BY <1>2 DEF Sentinel, Parser
<1>4. Effective(p, said) \in Nat
    BY DEF Effective, Parser
<1> QED BY <1>3, <1>4

\* A cut lies in the fragment, after a stop.
LEMMA CutType ==
    ASSUME NEW said \in Seq(Piece), NEW from \in Nat, NEW to \in Nat
    PROVE  LET cut == SentenceCut(said, from, to)
           IN  cut \in Nat /\ from <= cut /\ (cut # from => cut < to /\ said[cut] = "stop")
<1> DEFINE ends == {i \in (from + 2)..(to - 1) : said[i] = "stop"}
<1>1. ends \in SUBSET Nat /\ \A n \in ends : n <= to
    OBVIOUS
<1>2. ends # {} => LastOf(ends) \in ends
    BY <1>1, LastOfType
<1> QED BY <1>2 DEF SentenceCut

Parsed(s) == s.p \in Parser /\ s.out \in Seq(StreamEvent)

\* Emit changes what was delivered, and puts out one Ink event or none.
LEMMA EmitOutcome ==
    ASSUME NEW s, s = [p |-> s.p, out |-> s.out], Parsed(s), NEW said \in Seq(Piece), NEW to \in Nat
    PROVE  LET t == Emit(s, said, to)
           IN  /\ t = [p |-> t.p, out |-> t.out] /\ Parsed(t) /\ t.p.routed = s.p.routed
               /\ t.p.sentinel = s.p.sentinel
               /\ \/ t.out = s.out
                  \/ \E c \in Seq(Nat) : c # <<>> /\ t.out = Append(s.out, Ink(c))
<1> DEFINE chunk == StripDirectives(said, s.p.delivered, to)
<1>1. CASE to <= s.p.delivered
    BY <1>1 DEF Emit
<1>2. CASE ~(to <= s.p.delivered)
  <2>1. s.p.delivered \in Nat /\ s.p.delivered <= to
    BY <1>2 DEF Parsed, Parser
  <2>2. chunk \in Seq(Nat)
    BY <2>1, PositionsType DEF StripDirectives
  <2> DEFINE q == [s.p EXCEPT !.delivered = to, !.emitted = @ \/ chunk # <<>>]
             t == Emit(s, said, to)
  <2>3. t = [p |-> q, out |-> IF chunk = <<>> THEN s.out ELSE Append(s.out, Ink(chunk))]
    BY <1>2 DEF Emit
  <2> HIDE DEF chunk, t
  <2>4. chunk # <<>> => Append(s.out, Ink(chunk)) \in Seq(StreamEvent)
    BY <2>2, EventShapes, AppendProperties DEF Parsed
  <2>5. q \in Parser /\ q.routed = s.p.routed /\ q.sentinel = s.p.sentinel
    BY DEF Parsed, Parser
  <2> HIDE DEF q
  <2>6. t = [p |-> t.p, out |-> t.out] /\ Parsed(t)
    BY <2>3, <2>4, <2>5 DEF Parsed
  <2>7. t.p.routed = s.p.routed /\ t.p.sentinel = s.p.sentinel
    BY <2>3, <2>5
  <2>8. t.out = s.out \/ (chunk # <<>> /\ t.out = Append(s.out, Ink(chunk)))
    BY <2>3
  <2> QED BY <2>2, <2>6, <2>7, <2>8 DEF t
<1> QED BY <1>1, <1>2

\* The directive at the head is reported once, and alone.
LEMMA RouteOutcome ==
    ASSUME NEW p \in Parser, NEW said \in Seq(Piece), NEW done \in BOOLEAN, NEW route \in Route
    PROVE  LET h == RouteFirst(p, said, done, route)
           IN  /\ Parsed(h) /\ h.wait \in BOOLEAN /\ h.p.sentinel = p.sentinel
               /\ h.wait => h.p = p /\ ~p.routed /\ (h.out # <<>> => done /\ h.out = <<Plain("Err")>>)
               /\ ~h.wait => h.p.routed /\ (h.out # <<>> => ~p.routed /\ h.out = <<Plain(route)>>)
<1> DEFINE h == RouteFirst(p, said, done, route)
           to == Effective(p, said)
           empty == p.delivered >= to
           opened == ~empty /\ said[p.delivered + 1] = "open"
           closed == \E c \in (p.delivered + 1)..to : said[c] = "close"
           goes == p.routed \/ (empty /\ done) \/ (~empty /\ ~opened)
<1>1. h = IF goes THEN [p |-> [p EXCEPT !.routed = TRUE], out |-> <<>>, wait |-> FALSE]
          ELSE IF opened /\ closed
          THEN [p |-> [p EXCEPT !.routed = TRUE, !.emitted = TRUE, !.delivered = to],
                out |-> <<Plain(route)>>, wait |-> FALSE]
          ELSE [p |-> p, out |-> IF opened /\ done THEN <<Plain("Err")>> ELSE <<>>, wait |-> TRUE]
    BY DEF RouteFirst, AlreadyRouted
<1>2. to \in Nat
    BY EffectiveType
<1>3. \A k \in Route : Plain(k) \in StreamEvent
    BY EventShapes
<1>4. <<>> \in Seq(StreamEvent) /\ <<Plain(route)>> \in Seq(StreamEvent)
      /\ <<Plain("Err")>> \in Seq(StreamEvent)
    BY <1>3, EmptySeq DEF Route
<1> HIDE DEF h, to, empty, opened, closed, goes
<1>5. CASE goes
  <2> DEFINE q == [p EXCEPT !.routed = TRUE]
  <2>1. q \in Parser /\ q.routed /\ q.sentinel = p.sentinel
    BY DEF Parser
  <2> HIDE DEF q
  <2>2. h.p = q /\ h.out = <<>> /\ h.wait = FALSE
    BY <1>1, <1>5 DEF q
  <2> QED BY <1>4, <2>1, <2>2 DEF Parsed, h
<1>6. CASE ~goes /\ opened /\ closed
  <2> DEFINE q == [p EXCEPT !.routed = TRUE, !.emitted = TRUE, !.delivered = to]
  <2>1. q \in Parser /\ q.routed /\ q.sentinel = p.sentinel
    BY <1>2 DEF Parser
  <2> HIDE DEF q
  <2>2. h.p = q /\ h.out = <<Plain(route)>> /\ h.wait = FALSE
    BY <1>1, <1>6 DEF q
  <2>3. ~p.routed
    BY <1>6 DEF goes
  <2> QED BY <1>4, <2>1, <2>2, <2>3 DEF Parsed, h
<1>7. CASE ~goes /\ ~(opened /\ closed)
    BY <1>1, <1>4, <1>7 DEF Parsed, Parser, h, goes
<1> QED BY <1>5, <1>6, <1>7

\* More events without directives change nothing about the order.
LEMMA QuietTail ==
    ASSUME NEW s \in Seq(StreamEvent), NEW t \in Seq(StreamEvent), Free(t)
    PROVE  /\ s \o t \in Seq(StreamEvent)
           /\ Free(s) => Free(s \o t)
           /\ AfterHead(s) => AfterHead(s \o t)
<1>1. s \o t \in Seq(StreamEvent) /\ Len(s \o t) = Len(s) + Len(t)
    BY ConcatProperties
<1>2. ASSUME NEW i \in 1..Len(s \o t)
      PROVE  (s \o t)[i] = IF i <= Len(s) THEN s[i] ELSE t[i - Len(s)]
    BY <1>1, <1>2, ConcatProperties
<1>3. Len(s) \in Nat /\ Len(t) \in Nat
    OBVIOUS
<1> DEFINE u == s \o t
<1> HIDE DEF u
<1>4. \A i \in 1..Len(u) : i <= Len(s) \/ i - Len(s) \in 1..Len(t)
    BY <1>1, <1>3 DEF u
<1>5. \A i \in 1..Len(u) : i > Len(s) => u[i].type \notin Directive
    BY <1>2, <1>3, <1>4 DEF u, Free
<1> QED BY <1>1, <1>2, <1>3, <1>5 DEF u, Free, AfterHead

\* Nor does one more event that is no directive.
LEMMA Appended ==
    ASSUME NEW s \in Seq(StreamEvent), NEW e \in StreamEvent, e.type \notin Directive
    PROVE  /\ Append(s, e) \in Seq(StreamEvent)
           /\ Free(s) => Free(Append(s, e))
           /\ AfterHead(s) => AfterHead(Append(s, e))
BY DEF Free, AfterHead

\* What one advance may put out.
LEMMA AdvanceOutcome ==
    ASSUME NEW p0 \in Parser, NEW said \in Seq(Piece), NEW done \in BOOLEAN, NEW route \in Route
    PROVE  LET fed == Advance(p0, said, done, route)
           IN  /\ Parsed(fed) /\ AfterHead(fed.out)
               /\ p0.routed => fed.p.routed /\ Free(fed.out)
               /\ ~fed.p.routed /\ ~done => fed.out = <<>>
<1> DEFINE p    == [p0 EXCEPT !.sentinel = Sentinel(p0, said)]
           to   == Effective(p, said)
           head == RouteFirst(p, said, done, route)
           s0   == [p |-> head.p, out |-> head.out]
           s1   == Emit(s0, said, SentenceCut(said, head.p.delivered, to))
           s2   == IF p.sentinel # 0 \/ done THEN Emit(s1, said, to) ELSE s1
           fed  == Advance(p0, said, done, route)
<1> SUFFICES /\ Parsed(fed) /\ AfterHead(fed.out)
             /\ p0.routed => fed.p.routed /\ Free(fed.out)
             /\ ~fed.p.routed /\ ~done => fed.out = <<>>
    OBVIOUS
<1>1. fed = IF head.wait THEN s0
            ELSE [p |-> s2.p, out |-> IF done THEN Closing(s2, said) ELSE s2.out]
    BY DEF Advance
<1>2. p \in Parser /\ p.routed = p0.routed
    BY EffectiveType DEF Parser
<1> HIDE DEF p
<1>3. to \in Nat
    BY <1>2, EffectiveType
<1>4. /\ Parsed(head) /\ head.wait \in BOOLEAN
      /\ head.wait => head.p = p /\ ~p.routed /\ (head.out # <<>> => done /\ head.out = <<Plain("Err")>>)
      /\ ~head.wait => head.p.routed /\ (head.out # <<>> => ~p.routed /\ head.out = <<Plain(route)>>)
    BY <1>2, RouteOutcome
<1> HIDE DEF head, to
<1>5. \A e : AfterHead(<<e>>) /\ AfterHead(<<>>) /\ Free(<<>>)
    BY DEF AfterHead, Free
<1>6. Parsed(s0) /\ AfterHead(s0.out) /\ (p0.routed => s0.out = <<>> /\ Free(s0.out))
  <2>1. head.wait \/ head.p.routed
    BY <1>4
  <2>2. CASE head.out = <<>>
    BY <2>2, <1>4, <1>5 DEF Parsed
  <2>3. CASE head.out # <<>>
    <3>1. ~p0.routed /\ \E e : head.out = <<e>>
      BY <2>3, <1>2, <1>4
    <3> QED BY <3>1, <1>4, <1>5 DEF Parsed
  <2> QED BY <2>2, <2>3
<1>7. Parsed(s1) /\ AfterHead(s1.out) /\ s1.p.routed = head.p.routed
      /\ (p0.routed => Free(s1.out)) /\ s1 = [p |-> s1.p, out |-> s1.out]
  <2> DEFINE cut == SentenceCut(said, head.p.delivered, to)
  <2>1. head.p.delivered \in Nat
    BY <1>4 DEF Parsed, Parser
  <2>2. cut \in Nat
    BY <2>1, <1>3, CutType
  <2> HIDE DEF cut
  <2>3. s0 = [p |-> s0.p, out |-> s0.out] /\ s0.p = head.p
    OBVIOUS
  <2> HIDE DEF s0
  <2>4. /\ s1 = [p |-> s1.p, out |-> s1.out] /\ Parsed(s1) /\ s1.p.routed = s0.p.routed
        /\ s1.out = s0.out \/ \E c \in Seq(Nat) : c # <<>> /\ s1.out = Append(s0.out, Ink(c))
    BY <2>2, <2>3, <1>6, EmitOutcome DEF cut
  <2> HIDE DEF s1
  <2>5. s0.out \in Seq(StreamEvent)
    BY <1>6 DEF Parsed
  <2> QED BY <2>3, <2>4, <2>5, <1>6, Appended, EventShapes DEF Directive
<1>8. Parsed(s2) /\ AfterHead(s2.out) /\ s2.p.routed = head.p.routed /\ (p0.routed => Free(s2.out))
  <2> HIDE DEF s1
  <2>1. CASE p.sentinel # 0 \/ done
    <3>1. s2 = Emit(s1, said, to)
      BY <2>1
    <3> HIDE DEF s2
    <3>2. /\ Parsed(s2) /\ s2.p.routed = s1.p.routed
          /\ s2.out = s1.out \/ \E c \in Seq(Nat) : c # <<>> /\ s2.out = Append(s1.out, Ink(c))
      BY <3>1, <1>3, <1>7, EmitOutcome
    <3>3. s1.out \in Seq(StreamEvent)
      BY <1>7 DEF Parsed
    <3> QED BY <3>2, <3>3, <1>7, Appended, EventShapes DEF Directive
  <2>2. CASE ~(p.sentinel # 0 \/ done)
    BY <2>2, <1>7
  <2> QED BY <2>1, <2>2
<1>9. /\ Closing(s2, said) \in Seq(StreamEvent) /\ AfterHead(Closing(s2, said))
      /\ p0.routed => Free(Closing(s2, said))
  <2> HIDE DEF s2
  <2> DEFINE hidden == IF s2.p.sentinel # 0 /\ s2.p.sentinel < Len(said)
                       THEN <<Plain("Transcript")>> ELSE <<>>
             complaint == IF s2.p.emitted THEN <<>> ELSE <<Plain("Err")>>
  <2>1. Closing(s2, said) = s2.out \o hidden \o complaint
    BY DEF Closing
  <2>2. /\ hidden \in Seq(StreamEvent) /\ Free(hidden)
        /\ complaint \in Seq(StreamEvent) /\ Free(complaint)
    <3>1. <<>> \in Seq(StreamEvent)
      BY EmptySeq
    <3>2. ASSUME NEW k \in {"Transcript", "Err"}
          PROVE  <<Plain(k)>> \in Seq(StreamEvent) /\ Free(<<Plain(k)>>)
      BY <3>2, EventShapes DEF Free, Directive
    <3> QED BY <3>1, <3>2, <1>5
  <2> HIDE DEF hidden, complaint
  <2>3. s2.out \in Seq(StreamEvent)
    BY <1>8 DEF Parsed
  <2>4. /\ s2.out \o hidden \in Seq(StreamEvent) /\ AfterHead(s2.out \o hidden)
        /\ p0.routed => Free(s2.out \o hidden)
    BY <2>2, <2>3, <1>8, QuietTail
  <2> QED BY <2>1, <2>2, <2>4, <1>8, QuietTail
<1>10. CASE head.wait
  <2>1. fed.p = p /\ fed.out = head.out
    BY <1>1, <1>4, <1>10
  <2>2. ~p0.routed /\ (head.out # <<>> => done)
    BY <1>2, <1>4, <1>10
  <2> HIDE DEF fed
  <2>3. s0.p = head.p /\ s0.out = head.out
    OBVIOUS
  <2> HIDE DEF s0
  <2> QED BY <2>1, <2>2, <2>3, <1>2, <1>6, <1>4, <1>10 DEF Parsed
<1>11. CASE ~head.wait
  <2>1. fed.p = s2.p /\ fed.out = IF done THEN Closing(s2, said) ELSE s2.out
    BY <1>1, <1>11
  <2>2. head.p.routed
    BY <1>4, <1>11
  <2> HIDE DEF fed, s2
  <2> QED BY <2>1, <2>2, <1>8, <1>9 DEF Parsed
<1> QED BY <1>4, <1>10, <1>11

-----------------------------------------------------------------------------
(* The inductive invariant.                                                *)

PlanType == [job : [text : Seq(Nat), running : BOOLEAN],
             queued : Seq(Nat), buffering : BOOLEAN, strokes : Seq(Nat), drawn : Seq(Nat),
             logged : BOOLEAN, truncated : BOOLEAN, low : BOOLEAN]

TurnTypes == /\ used \in 0..MaxReq /\ gate \in [Lanes -> BOOLEAN]
             /\ worker \in [Requests -> Worker] /\ held \subseteq Requests
             /\ chan \in [Requests -> Seq(StreamEvent)]

\* A request that was not made yet has no worker; who has no receiver has no
\* events.
Fresh == /\ \A r \in Requests : r > used => worker[r].stage = "none" /\ r \notin held
         /\ \A r \in Requests : r \notin held => chan[r] = <<>>

\* A directive is the first event of its channel, before anything is parsed.
EventsInOrder ==
    /\ \A r \in Requests : AfterHead(chan[r])
    /\ \A r \in held : Alive(r) /\ ~worker[r].parser.routed => chan[r] = <<>>
    /\ \A r \in Requests : worker[r].stage \notin {"stream", "ended"} => worker[r].parser = NewParser

TurnInv == TurnTypes /\ Fresh /\ EventsInOrder /\ LanesAreExclusive

\* Which states of the page hold which request.
PageTypes == /\ page \in {"listening", "thinking", "replying", "visible"}
             /\ {ink, attempted, failed, full, lost} \subseteq BOOLEAN
             /\ reply \in Seq(Nat) /\ plan \in PlanType /\ remembered \in Seq(Nat)
             /\ truth \in [shown : Seq(Nat), outcome : {"none", "done", "error", "cancelled"}]
Places == /\ {spec, turn} \subseteq Requests \cup {NoReq} /\ held = {spec, turn} \ {NoReq}
          /\ spec # NoReq => page = "listening" /\ ink /\ attempted
          /\ turn # NoReq => page \in {"thinking", "replying"}
          /\ page = "thinking" => turn # NoReq /\ reply = <<>> /\ ~failed

\* A reply has begun only when the head of the answer was looked at.
Begun == page = "replying" /\ turn # NoReq =>
             /\ Free(chan[turn])
             /\ Alive(turn) => worker[turn].parser.routed

\* Nothing is queued or being laid out.
Settled(p) == p.job = NoJob /\ p.queued = <<>> /\ ~p.buffering

\* What is drawn and what is still to be drawn are the text, or its
\* beginning and the mark for the rest.
Laid(p, text) ==
    /\ Settled(p)
    /\ \/ ~p.truncated /\ p.drawn \o p.strokes = text
       \/ /\ p.truncated
          /\ \E k \in 0..(Len(text) - 1) : p.drawn \o p.strokes = Append(SubSeq(text, 1, k), Ellipsis)

\* What a plan may be while its text is written.
Shaped(p, text, gone) ==
    /\ p \in PlanType
    /\ \/ p = Streaming(text)
       \/ p = Immediate(text)
       \/ Laid(p, text)
       \/ gone /\ Settled(p) /\ p.strokes = <<>>

\* The plan writes the reply, and keeps it off the paper while it arrives.
Text == IF reply = <<>> THEN <<Excuse>> ELSE reply
PlanInv ==
    /\ page = "replying" /\ turn # NoReq => plan = Streaming(reply) /\ full = FALSE /\ reply # <<>>
    /\ page \in {"replying", "visible"} => Shaped(plan, Text, lost)
    /\ page = "visible" => Finished(plan, FALSE)

IInv == TurnInv /\ PageTypes /\ Places /\ Begun /\ PlanInv

-----------------------------------------------------------------------------
(* What a worker's step does.                                              *)

\* Its worker becomes w and its receiver, if there is one, gets some events.
Course(r, w, events) ==
    /\ w \in Worker /\ w.lane = worker[r].lane /\ w.stage # "none"
    /\ worker' = [worker EXCEPT ![r] = w]
    /\ events \in Seq(StreamEvent) /\ Post(r, events)
    /\ gate' = IF w.stage = "ended" THEN [gate EXCEPT ![w.lane] = FALSE] ELSE gate
    /\ UNCHANGED <<used, held>>

\* Directives come alone, and nothing before the head was looked at.
Orderly(r, w, events) ==
    /\ AfterHead(events)
    /\ worker[r].parser.routed => Free(events)
    /\ w.stage \notin {"stream", "ended"} => w.parser = NewParser
    /\ w.stage # "ended" /\ ~w.parser.routed => events = <<>> /\ ~worker[r].parser.routed

\* The changes to a worker leave a worker, with the other fields as they were.
LEMMA WorkerShapes ==
    ASSUME NEW w \in Worker
    PROVE  /\ w.parser \in Parser /\ w.answer \in Seq(Piece) /\ w.lane \in Lanes
           /\ \A o \in {"none", "done", "error", "cancelled"} :
                 LET v == Terminal(w, o)
                 IN  /\ v \in Worker /\ v.lane = w.lane /\ v.stage = w.stage
                     /\ v.parser = w.parser /\ v.answer = w.answer /\ v.cancelled = w.cancelled
           /\ Unseen(w) \in Worker /\ Unseen(w).lane = w.lane /\ Unseen(w).stage = w.stage
           /\ Unseen(w).parser = NewParser
           /\ \A s \in Stages :
                 LET v == [w EXCEPT !.stage = s]
                 IN  /\ v \in Worker /\ v.lane = w.lane /\ v.stage = s
                     /\ v.parser = w.parser /\ v.answer = w.answer
                     /\ v.outcome = w.outcome /\ v.cancelled = w.cancelled
<1>1. NewParser \in Parser /\ <<>> \in Seq(Piece)
    BY EmptySeq DEF NewParser, Parser
<1>2. w.parser \in Parser /\ w.answer \in Seq(Piece) /\ w.lane \in Lanes
    BY DEF Worker, Parser
<1>3. ASSUME NEW o \in {"none", "done", "error", "cancelled"}
      PROVE  LET v == Terminal(w, o)
             IN  /\ v \in Worker /\ v.lane = w.lane /\ v.stage = w.stage
                 /\ v.parser = w.parser /\ v.answer = w.answer /\ v.cancelled = w.cancelled
    BY DEF Worker, Terminal
<1>4. /\ Unseen(w) \in Worker /\ Unseen(w).lane = w.lane /\ Unseen(w).stage = w.stage
      /\ Unseen(w).parser = NewParser
    BY <1>1 DEF Worker, Unseen, Parser
<1>5. ASSUME NEW s \in Stages
      PROVE  LET v == [w EXCEPT !.stage = s]
             IN  /\ v \in Worker /\ v.lane = w.lane /\ v.stage = s
                 /\ v.parser = w.parser /\ v.answer = w.answer
                 /\ v.outcome = w.outcome /\ v.cancelled = w.cancelled
    BY DEF Worker
<1> QED BY <1>2, <1>3, <1>4, <1>5

\* A step is a course of its worker,
LEMMA StepCourse ==
    ASSUME NEW r \in Requests, NEW w \in Worker, NEW events \in Seq(StreamEvent),
           w.lane = worker[r].lane, w.stage \notin {"none", "ended"}, Step(r, w, events)
    PROVE  Course(r, w, events)
BY DEF Step, Course

\* The worker that End leaves.
Ended(r, w) == [(IF r \in held THEN w ELSE Unseen(w)) EXCEPT !.stage = "ended"]

\* and so is an end.
LEMMA EndCourse ==
    ASSUME NEW r \in Requests, NEW w \in Worker, NEW events \in Seq(StreamEvent),
           w.lane = worker[r].lane, End(r, w, events),
           AfterHead(events), worker[r].parser.routed => Free(events)
    PROVE  Course(r, Ended(r, w), events) /\ Orderly(r, Ended(r, w), events)
<1>1. "ended" \in Stages
    BY DEF Stages
<1>2. Ended(r, w) \in Worker /\ Ended(r, w).lane = w.lane /\ Ended(r, w).stage = "ended"
    BY <1>1, WorkerShapes DEF Ended
<1>3. worker' = [worker EXCEPT ![r] = Ended(r, w)] /\ Post(r, events)
      /\ gate' = [gate EXCEPT ![w.lane] = FALSE] /\ UNCHANGED <<used, held>>
    BY DEF End, Ended
<1> QED BY <1>2, <1>3 DEF Course, Orderly

\* A worker that gives up reports an error, or nothing.
GivesUp(r) == SendError(r) \/ SendTurnError(r) \/ RecognizeFails(r) \/ End(r, worker[r], <<>>)

Does(r) == \E w, events : Course(r, w, events) /\ Orderly(r, w, events)

\* One event alone is in order, and nothing at all is.
LEMMA OneEvent ==
    /\ <<>> \in Seq(StreamEvent) /\ Free(<<>>) /\ AfterHead(<<>>)
    /\ \A k \in Route \cup {"Err", "Transcript", "LocalCommand"} :
           <<Plain(k)>> \in Seq(StreamEvent) /\ AfterHead(<<Plain(k)>>)
    /\ Free(<<Plain("Err")>>) /\ Free(<<Plain("Transcript")>>)
<1>1. <<>> \in Seq(StreamEvent) /\ Free(<<>>) /\ AfterHead(<<>>)
    BY EmptySeq DEF Free, AfterHead
<1>2. ASSUME NEW k \in Route \cup {"Err", "Transcript", "LocalCommand"}
      PROVE  <<Plain(k)>> \in Seq(StreamEvent) /\ AfterHead(<<Plain(k)>>)
    BY <1>2, EventShapes DEF AfterHead
<1>3. ASSUME NEW k \in {"Err", "Transcript"} PROVE Free(<<Plain(k)>>)
    BY <1>3, EventShapes DEF Free, Directive
<1> QED BY <1>1, <1>2, <1>3

\* Whoever gives up does no more than that.
LEMMA GivingUp ==
    ASSUME TurnTypes, NEW r \in Requests, GivesUp(r)
    PROVE  Does(r)
<1>1. worker[r] \in Worker
    BY DEF TurnTypes
<1>2. \A o \in {"none", "done", "error", "cancelled"} :
          Terminal(worker[r], o) \in Worker /\ Terminal(worker[r], o).lane = worker[r].lane
    BY <1>1, WorkerShapes
<1>3. \E w \in Worker, events \in {<<>>, <<Plain("Err")>>} :
          w.lane = worker[r].lane /\ End(r, w, events)
    BY <1>1, <1>2 DEF GivesUp, RecognizeFails, SendError, SendTurnError
<1>4. PICK w \in Worker, events \in {<<>>, <<Plain("Err")>>} :
          w.lane = worker[r].lane /\ End(r, w, events)
    BY <1>3
<1>5. events \in Seq(StreamEvent) /\ AfterHead(events) /\ Free(events)
    BY OneEvent
<1> QED BY <1>4, <1>5, EndCourse DEF Does

\* A worker that goes on to its next stage has nothing to report.
LEMMA GoingOn ==
    ASSUME TurnTypes, EventsInOrder, NEW r \in Requests, NEW stage \in Stages \ {"none", "ended"},
           worker[r].stage \notin {"stream", "ended"},
           Step(r, [worker[r] EXCEPT !.stage = stage], <<>>)
    PROVE  Does(r)
<1> DEFINE w == [worker[r] EXCEPT !.stage = stage]
<1>1. worker[r] \in Worker
    BY DEF TurnTypes
<1>2. w \in Worker /\ w.lane = worker[r].lane /\ w.stage = stage /\ w.parser = worker[r].parser
    BY <1>1, WorkerShapes
<1>3. worker[r].parser = NewParser /\ ~NewParser.routed
    BY DEF EventsInOrder, NewParser
<1>4. Step(r, w, <<>>)
    OBVIOUS
<1> HIDE DEF w
<1>5. Course(r, w, <<>>)
    BY <1>2, <1>4, OneEvent, StepCourse
<1>6. Orderly(r, w, <<>>)
    BY <1>2, <1>3, OneEvent DEF Orderly
<1> QED BY <1>5, <1>6 DEF Does

\* A local route answers without the network.
LEMMA Recognizing ==
    ASSUME TurnTypes, EventsInOrder, NEW r \in Requests, Recognized(r)
    PROVE  Does(r)
<1>1. worker[r] \in Worker /\ worker[r].stage = "poll"
    BY DEF TurnTypes, Recognized
<1>2. ~worker[r].parser.routed
    BY <1>1 DEF EventsInOrder, NewParser
<1> DEFINE v == Terminal(worker[r], "done")
           u == [v EXCEPT !.answer = <<"word">>]
           said == <<Ink(<<1>>), Plain("Transcript")>>
<1>3. v \in Worker /\ v.lane = worker[r].lane
    BY <1>1, WorkerShapes
<1>4. u \in Worker /\ u.lane = worker[r].lane
  <2>1. <<"word">> \in Seq(Piece)
    BY DEF Piece
  <2> QED BY <2>1, <1>3 DEF Worker
<1>5. said \in Seq(StreamEvent) /\ AfterHead(said)
  <2>1. <<1>> \in Seq(Nat) /\ <<1>> # <<>>
    OBVIOUS
  <2>2. Ink(<<1>>) \in StreamEvent /\ Plain("Transcript") \in StreamEvent
        /\ Plain("Transcript").type = "Transcript"
    BY <2>1, EventShapes
  <2> QED BY <2>2 DEF AfterHead, Directive
<1> HIDE DEF v, u, said
<1>6. CASE HandOver(r)
    BY <1>6, <1>1, GoingOn DEF HandOver, Stages
<1>7. ASSUME NEW k \in {"Panel", "Reader", "LocalCommand"}, End(r, v, <<Plain(k)>>)
      PROVE  Does(r)
  <2>1. <<Plain(k)>> \in Seq(StreamEvent) /\ AfterHead(<<Plain(k)>>)
    BY <1>7, OneEvent DEF Route
  <2> QED BY <2>1, <1>2, <1>3, <1>7, EndCourse DEF Does
<1>8. CASE End(r, u, said)
    BY <1>8, <1>2, <1>4, <1>5, EndCourse DEF Does
<1> QED BY <1>6, <1>7, <1>8 DEF Recognized, v, u, said

\* What a text_delta carries is pieces.
LEMMA TextTypes ==
    ASSUME NEW r \in Requests, NEW text \in Texts(r)
    PROVE  text \in Seq(Piece)
<1>1. CASE r \in LongAnswers
  <2>1. PICK n \in 1..MaxDelta : text \in [1..n -> Piece]
    BY <1>1 DEF Texts
  <2>2. n \in Nat
    BY OracleAssumption
  <2> QED BY <2>1, <2>2
<1>2. CASE r \notin LongAnswers
  <2>1. text = <<"word">>
    BY <1>2 DEF Texts
  <2>2. <<"word">> \in Seq(Piece)
    BY DEF Piece
  <2> QED BY <2>1, <2>2
<1> QED BY <1>1, <1>2

\* on_text, for a receiver that exists.
LEMMA Texting ==
    ASSUME TurnTypes, EventsInOrder, NEW r \in Requests, worker[r].stage = "stream", OnText(r)
    PROVE  Does(r)
<1>1. worker[r] \in Worker /\ worker[r].parser \in Parser /\ worker[r].answer \in Seq(Piece)
    BY WorkerShapes DEF TurnTypes
<1>2. PICK text \in Texts(r), route \in Route :
          LET said == worker[r].answer \o text
              fed  == Advance(worker[r].parser, said, FALSE, route)
          IN  IF Len(said) > TextLimit
              THEN SendTurnError(r)
              ELSE Step(r, [worker[r] EXCEPT !.answer = said, !.parser = fed.p], fed.out)
    BY DEF OnText
<1> DEFINE said == worker[r].answer \o text
           fed  == Advance(worker[r].parser, said, FALSE, route)
           w    == [worker[r] EXCEPT !.answer = said, !.parser = fed.p]
<1>3. said \in Seq(Piece)
    BY <1>1, TextTypes, ConcatProperties
<1> HIDE DEF said
<1>4. /\ fed.p \in Parser /\ fed.out \in Seq(StreamEvent) /\ AfterHead(fed.out)
      /\ worker[r].parser.routed => fed.p.routed /\ Free(fed.out)
      /\ ~fed.p.routed => fed.out = <<>>
    BY <1>1, <1>3, AdvanceOutcome DEF Parsed
<1> HIDE DEF fed
<1>5. w \in Worker /\ w.lane = worker[r].lane /\ w.stage = "stream" /\ w.parser = fed.p
    BY <1>1, <1>3, <1>4 DEF Worker, Parser
<1> HIDE DEF w
<1>6. CASE SendTurnError(r)
    BY <1>6, GivingUp DEF GivesUp
<1>7. CASE Step(r, w, fed.out)
  <2>1. Course(r, w, fed.out)
    BY <1>4, <1>5, <1>7, StepCourse
  <2>2. Orderly(r, w, fed.out)
    BY <1>4, <1>5 DEF Orderly
  <2> QED BY <2>1, <2>2 DEF Does
<1> QED BY <1>2, <1>6, <1>7 DEF said, fed, w

\* TurnStream::complete.
LEMMA Completing ==
    ASSUME TurnTypes, EventsInOrder, NEW r \in Requests, OnComplete(r)
    PROVE  Does(r)
<1>1. worker[r] \in Worker /\ worker[r].parser \in Parser /\ worker[r].answer \in Seq(Piece)
    BY WorkerShapes DEF TurnTypes
<1>2. PICK route \in Route :
          LET fed     == Advance(worker[r].parser, worker[r].answer, TRUE, route)
              blank   == worker[r].answer = <<>>
              outcome == IF blank THEN "error" ELSE "done"
              again   == blank /\ worker[r].outcome = "none"
          IN  End(r, Terminal([worker[r] EXCEPT !.parser = fed.p], outcome),
                  fed.out \o (IF again THEN <<Plain("Err")>> ELSE <<>>))
    BY DEF OnComplete
<1> DEFINE fed == Advance(worker[r].parser, worker[r].answer, TRUE, route)
           outcome == IF worker[r].answer = <<>> THEN "error" ELSE "done"
           v == [worker[r] EXCEPT !.parser = fed.p]
           w == Terminal(v, outcome)
           more == IF worker[r].answer = <<>> /\ worker[r].outcome = "none"
                   THEN <<Plain("Err")>> ELSE <<>>
           events == fed.out \o more
<1>3. /\ fed.p \in Parser /\ fed.out \in Seq(StreamEvent) /\ AfterHead(fed.out)
      /\ worker[r].parser.routed => Free(fed.out)
    BY <1>1, AdvanceOutcome DEF Parsed
<1> HIDE DEF fed
<1>4. v \in Worker /\ v.lane = worker[r].lane
    BY <1>1, <1>3 DEF Worker, Parser
<1> HIDE DEF v
<1>5. w \in Worker /\ w.lane = worker[r].lane
    BY <1>4, WorkerShapes
<1>6. more \in Seq(StreamEvent) /\ Free(more)
    BY OneEvent DEF Route
<1> HIDE DEF more
<1>7. events \in Seq(StreamEvent) /\ AfterHead(events) /\ (worker[r].parser.routed => Free(events))
    BY <1>3, <1>6, QuietTail
<1>8. End(r, w, events)
    BY <1>2 DEF fed, v, more
<1> HIDE DEF w, events
<1> QED BY <1>5, <1>7, <1>8, EndCourse DEF Does

\* A daemon's frame.
LEMMA Reading ==
    ASSUME TurnTypes, EventsInOrder, NEW r \in Requests, ReadFrame(r)
    PROVE  UNCHANGED turnVars \/ Does(r)
<1>1. worker[r] \in Worker /\ worker[r].stage = "stream"
    BY DEF TurnTypes, ReadFrame
<1>2. PICK kind \in FrameKinds, name \in TurnIds \cup {NoTurn} : HandleEvent(r, kind, name)
    BY DEF ReadFrame
<1>3. CASE SendTurnError(r)
    BY <1>3, GivingUp DEF GivesUp
<1>4. CASE OnText(r)
    BY <1>1, <1>4, Texting
<1>5. CASE OnComplete(r)
    BY <1>5, Completing
<1>6. CASE Step(r, [worker[r] EXCEPT !.turn = name], <<>>)
  <2> DEFINE w == [worker[r] EXCEPT !.turn = name]
  <2>1. w \in Worker /\ w.lane = worker[r].lane /\ w.stage = "stream" /\ w.parser = worker[r].parser
    BY <1>1 DEF Worker
  <2>2. Step(r, w, <<>>)
    BY <1>6
  <2> HIDE DEF w
  <2>3. Course(r, w, <<>>)
    BY <2>1, <2>2, OneEvent, StepCourse
  <2>4. Orderly(r, w, <<>>)
    BY <2>1, OneEvent DEF Orderly
  <2> QED BY <2>3, <2>4 DEF Does
<1>7. \/ SendTurnError(r) \/ OnText(r) \/ OnComplete(r) \/ UNCHANGED turnVars
      \/ Step(r, [worker[r] EXCEPT !.turn = name], <<>>)
  <2>1. CASE kind \in {"text_delta", "complete", "tool_call"} /\ ~MatchesTurn(r, name)
    BY <2>1, <1>2 DEF HandleEvent
  <2>2. CASE ~(kind \in {"text_delta", "complete", "tool_call"} /\ ~MatchesTurn(r, name))
    <3>1. CASE kind = "accepted"
      BY <3>1, <2>2, <1>2 DEF HandleEvent
    <3>2. CASE kind = "text_delta"
      BY <3>2, <2>2, <1>2 DEF HandleEvent, OnTextUnseen
    <3>3. CASE kind = "complete"
      BY <3>3, <2>2, <1>2 DEF HandleEvent
    <3>4. CASE kind = "tool_call"
      BY <3>4, <2>2, <1>2 DEF HandleEvent
    <3>5. CASE kind \in {"error", "garbage"}
      BY <3>5, <2>2, <1>2 DEF HandleEvent
    <3> QED BY <3>1, <3>2, <3>3, <3>4, <3>5 DEF FrameKinds
  <2> QED BY <2>1, <2>2
<1> QED BY <1>3, <1>4, <1>5, <1>6, <1>7

\* Every step of a worker is the course of one that lives.
LEMMA WorkerCourse ==
    ASSUME TurnTypes, EventsInOrder, NEW r \in Requests, WorkerStep(r)
    PROVE  Alive(r) /\ (UNCHANGED turnVars \/ Does(r))
<1>1. CASE LoadPage(r)
    BY <1>1, GoingOn, GivingUp DEF LoadPage, GivesUp, Alive, Stages
<1>2. CASE Submit(r)
    BY <1>2, GoingOn, GivingUp DEF Submit, GivesUp, Alive, Stages
<1>3. CASE PollFails(r)
    BY <1>3, GivingUp DEF PollFails, GivesUp, Alive
<1>4. CASE Recognized(r)
    BY <1>4, Recognizing DEF Recognized, Alive
<1>5. CASE Connect(r)
    BY <1>5, GoingOn, GivingUp DEF Connect, GivesUp, Alive, Stages
<1>6. CASE SendStart(r)
    BY <1>6, GoingOn, GivingUp DEF SendStart, GivesUp, Alive, Stages
<1>7. CASE CancelSeen(r)
    BY <1>7, GivingUp DEF CancelSeen, GivesUp, Alive
<1>8. CASE ReadFrame(r)
    BY <1>8, Reading DEF ReadFrame, Alive
<1> QED BY <1>1, <1>2, <1>3, <1>4, <1>5, <1>6, <1>7, <1>8 DEF WorkerStep

-----------------------------------------------------------------------------
(* What keeps the requests in order.                                       *)

Lives(r, l) == Alive(r) /\ worker[r].lane = l
Exclusive == /\ \A l \in Lanes : gate[l] <=> \E r \in Requests : Lives(r, l)
             /\ \A l \in Lanes : \A r, s \in Requests : Lives(r, l) /\ Lives(s, l) => r = s

\* LanesAreExclusive without its sets of workers.
LEMMA ExclusiveMeans ==
    (Exclusive <=> LanesAreExclusive) /\ (Exclusive <=> LanesAreExclusive)'
<1>1. Exclusive <=> LanesAreExclusive
    BY DEF Exclusive, LanesAreExclusive, Lives
<1>2. (Exclusive <=> LanesAreExclusive)'
    BY DEF Exclusive, LanesAreExclusive, Lives, Alive
<1> QED BY <1>1, <1>2

\* What a living worker does keeps the requests in order.
LEMMA DoesKeeps ==
    ASSUME TurnInv, NEW r \in Requests, Alive(r), Does(r)
    PROVE  TurnInv'
<1>1. PICK w, events : Course(r, w, events) /\ Orderly(r, w, events)
    BY DEF Does
<1>2. /\ w \in Worker /\ w.lane = worker[r].lane /\ w.stage # "none" /\ w.lane \in Lanes
      /\ worker' = [worker EXCEPT ![r] = w] /\ events \in Seq(StreamEvent) /\ Post(r, events)
      /\ gate' = IF w.stage = "ended" THEN [gate EXCEPT ![w.lane] = FALSE] ELSE gate
      /\ used' = used /\ held' = held
    BY <1>1, WorkerShapes DEF Course
<1>3. TurnTypes /\ Fresh /\ EventsInOrder /\ Exclusive
    BY ExclusiveMeans DEF TurnInv
<1>4. /\ r \in held => chan' = [chan EXCEPT ![r] = chan[r] \o events]
      /\ r \notin held => chan' = chan
    BY <1>2, <1>3 DEF Post, TurnTypes
<1>5. chan[r] \in Seq(StreamEvent) /\ chan[r] \o events \in Seq(StreamEvent) /\ worker[r] \in Worker
    BY <1>2, <1>3, ConcatProperties DEF TurnTypes
<1>6. TurnTypes'
    BY <1>2, <1>3, <1>4, <1>5 DEF TurnTypes
<1>7. Fresh'
  <2>1. r <= used
    BY <1>3 DEF Fresh, Alive, TurnTypes, Requests
  <2>2. \A s \in Requests : s > used => s # r
    BY <2>1, <1>3 DEF TurnTypes, Requests
  <2>3. \A s \in Requests : s # r => worker'[s] = worker[s] /\ chan'[s] = chan[s]
    BY <1>2, <1>3, <1>4 DEF TurnTypes
  <2>4. r \notin held => chan' = chan
    BY <1>4
  <2> QED BY <2>2, <2>3, <2>4, <1>2, <1>3 DEF Fresh
<1>8. AfterHead(chan'[r])
  <2>1. CASE r \notin held
    BY <2>1, <1>3, <1>4 DEF EventsInOrder
  <2>2. CASE r \in held /\ worker[r].parser.routed
    <3>1. Free(events) /\ AfterHead(chan[r])
      BY <2>2, <1>1, <1>3 DEF Orderly, EventsInOrder
    <3> QED BY <3>1, <2>2, <1>2, <1>4, <1>5, <1>3, QuietTail DEF TurnTypes
  <2>3. CASE r \in held /\ ~worker[r].parser.routed
    <3>1. chan[r] = <<>> /\ AfterHead(events)
      BY <2>3, <1>1, <1>3 DEF Orderly, EventsInOrder
    <3>2. chan[r] \o events = events
      BY <3>1, <1>2, ConcatEmptySeq
    <3> QED BY <3>1, <3>2, <2>3, <1>3, <1>4 DEF TurnTypes
  <2> QED BY <2>1, <2>2, <2>3
<1>9. ASSUME r \in held, Alive(r)', ~worker'[r].parser.routed
      PROVE  chan'[r] = <<>>
  <2>1. worker'[r] = w
    BY <1>2, <1>3 DEF TurnTypes
  <2>2. w.stage # "ended" /\ ~w.parser.routed
    BY <1>9, <2>1 DEF Alive
  <2>3. events = <<>> /\ ~worker[r].parser.routed
    BY <2>2, <1>1 DEF Orderly
  <2>4. chan[r] = <<>>
    BY <2>3, <1>9, <1>3 DEF EventsInOrder
  <2>5. chan[r] \o events = <<>>
    BY <2>3, <2>4, <1>2, ConcatEmptySeq
  <2> QED BY <2>5, <1>9, <1>3, <1>4 DEF TurnTypes
<1>10. EventsInOrder'
  <2>1. ASSUME NEW s \in Requests, s # r
        PROVE  worker'[s] = worker[s] /\ chan'[s] = chan[s]
    BY <2>1, <1>2, <1>3, <1>4 DEF TurnTypes
  <2>2. worker'[r].stage \notin {"stream", "ended"} => worker'[r].parser = NewParser
    BY <1>1, <1>2, <1>3 DEF Orderly, TurnTypes
  <2>3. \A s \in Requests : AfterHead(chan'[s])
    BY <2>1, <1>3, <1>8 DEF EventsInOrder
  <2>4. \A s \in Requests : worker'[s].stage \notin {"stream", "ended"} => worker'[s].parser = NewParser
    BY <2>1, <2>2, <1>3 DEF EventsInOrder
  <2>5. ASSUME NEW s \in held', Alive(s)', ~worker'[s].parser.routed PROVE chan'[s] = <<>>
    <3>1. CASE s = r
      BY <3>1, <2>5, <1>2, <1>9
    <3>2. CASE s # r
      BY <3>2, <2>1, <2>5, <1>2, <1>3 DEF EventsInOrder, Alive, TurnTypes
    <3> QED BY <3>1, <3>2
  <2> QED BY <2>3, <2>4, <2>5 DEF EventsInOrder
<1>11. Exclusive'
  <2>1. ASSUME NEW s \in Requests, s # r, NEW l \in Lanes PROVE Lives(s, l)' <=> Lives(s, l)
    BY <2>1, <1>2, <1>3 DEF TurnTypes, Lives, Alive
  <2>2. CASE w.stage # "ended"
    <3>1. \A l \in Lanes : Lives(r, l)' <=> Lives(r, l)
      BY <2>2, <1>2, <1>3 DEF TurnTypes, Lives, Alive
    <3>2. gate' = gate
      BY <2>2, <1>2
    <3> QED BY <3>1, <3>2, <2>1, <1>3 DEF Exclusive
  <2>3. CASE w.stage = "ended"
    <3>1. \A l \in Lanes : ~Lives(r, l)'
      BY <2>3, <1>2, <1>3 DEF TurnTypes, Lives, Alive
    <3>2. /\ gate'[w.lane] = FALSE
          /\ \A l \in Lanes : l # w.lane => gate'[l] = gate[l] /\ ~Lives(r, l)
      BY <2>3, <1>2, <1>3 DEF TurnTypes, Lives
    <3>3. \A s \in Requests : Lives(s, w.lane) => s = r
      BY <1>2, <1>3 DEF Exclusive, Lives
    <3> QED BY <3>1, <3>2, <3>3, <2>1, <1>2, <1>3 DEF Exclusive
  <2> QED BY <2>2, <2>3
<1> QED BY <1>6, <1>7, <1>10, <1>11, ExclusiveMeans DEF TurnInv

\* A new request takes a free lane, or ends at once.
LEMMA AskKeeps ==
    ASSUME TurnInv, NEW lane \in Lanes, NEW r, r = used + 1, Ask(r, lane)
    PROVE  TurnInv' /\ r \in Requests /\ r \notin held /\ held' = held \cup {r}
<1> DEFINE w == NewWorker(lane, IF gate[lane] THEN "ended"
                                ELSE IF lane = "scheduled" THEN "connect" ELSE "page")
<1>1. TurnTypes /\ Fresh /\ EventsInOrder /\ Exclusive
    BY ExclusiveMeans DEF TurnInv
<1>2. r \in Requests /\ r > used /\ used' = r /\ held' = held \cup {r}
    BY <1>1, OracleAssumption DEF Ask, TurnTypes, Requests
<1>3. /\ w \in Worker /\ w.lane = lane /\ w.parser = NewParser /\ ~w.parser.routed
      /\ w.stage # "none" /\ w.stage # "stream"
      /\ w.stage = "ended" <=> gate[lane]
  <2>1. NewParser \in Parser /\ <<>> \in Seq(Piece)
    BY EmptySeq DEF NewParser, Parser
  <2> QED BY <2>1 DEF NewWorker, Worker, Parser, Stages, NewParser
<1>4. /\ worker' = [worker EXCEPT ![r] = w]
      /\ gate' = [gate EXCEPT ![lane] = TRUE]
      /\ gate[lane] => chan' = [chan EXCEPT ![r] = <<Plain("Err")>>]
      /\ ~gate[lane] => chan' = chan
    BY <1>1 DEF Ask, TurnTypes
<1>5. worker[r].stage = "none" /\ r \notin held /\ chan[r] = <<>>
    BY <1>1, <1>2 DEF Fresh
<1> HIDE DEF w
<1>6. <<Plain("Err")>> \in Seq(StreamEvent) /\ AfterHead(<<Plain("Err")>>) /\ AfterHead(<<>>)
    BY OneEvent
<1>7. \A s \in Requests : s # r => worker'[s] = worker[s] /\ chan'[s] = chan[s]
    BY <1>1, <1>4 DEF TurnTypes
<1>8. /\ worker'[r] = w /\ AfterHead(chan'[r])
      /\ w.stage # "ended" => chan'[r] = <<>>
    BY <1>1, <1>2, <1>3, <1>4, <1>5, <1>6 DEF TurnTypes
<1>9. TurnTypes'
  <2>1. used' \in 0..MaxReq
    BY <1>2, OracleAssumption DEF Requests
  <2> QED BY <2>1, <1>1, <1>2, <1>3, <1>4, <1>6 DEF TurnTypes
<1>10. Fresh'
  <2>1. \A s \in Requests : s > used' => s # r /\ s > used
    BY <1>1, <1>2 DEF TurnTypes, Requests
  <2> QED BY <2>1, <1>1, <1>2, <1>7 DEF Fresh
<1>11. EventsInOrder'
  <2>1. \A s \in Requests : AfterHead(chan'[s])
    BY <1>1, <1>7, <1>8 DEF EventsInOrder
  <2>2. \A s \in Requests : worker'[s].stage \notin {"stream", "ended"} => worker'[s].parser = NewParser
    BY <1>1, <1>3, <1>7, <1>8 DEF EventsInOrder
  <2>3. ASSUME NEW s \in held', Alive(s)', ~worker'[s].parser.routed PROVE chan'[s] = <<>>
    <3>1. CASE s = r
      BY <3>1, <2>3, <1>8 DEF Alive
    <3>2. CASE s # r
      BY <3>2, <2>3, <1>1, <1>2, <1>7 DEF EventsInOrder, Alive, TurnTypes
    <3> QED BY <3>1, <3>2
  <2> QED BY <2>1, <2>2, <2>3 DEF EventsInOrder
<1>12. Exclusive'
  <2>1. ASSUME NEW s \in Requests, s # r, NEW l \in Lanes PROVE Lives(s, l)' <=> Lives(s, l)
    BY <2>1, <1>7 DEF Lives, Alive
  <2>2. \A l \in Lanes : ~Lives(r, l) /\ (Lives(r, l)' <=> l = lane /\ ~gate[lane])
    BY <1>3, <1>5, <1>8 DEF Lives, Alive
  <2>3. gate'[lane] = TRUE /\ \A l \in Lanes : l # lane => gate'[l] = gate[l]
    BY <1>1, <1>4 DEF TurnTypes
  <2>4. \A l \in Lanes : gate'[l] <=> \E s \in Requests : Lives(s, l)'
    BY <2>1, <2>2, <2>3, <1>1, <1>2 DEF Exclusive
  <2>5. \A l \in Lanes : \A s, t \in Requests : Lives(s, l)' /\ Lives(t, l)' => s = t
    BY <2>1, <2>2, <1>1 DEF Exclusive
  <2> QED BY <2>4, <2>5 DEF Exclusive
<1> QED BY <1>2, <1>5, <1>9, <1>10, <1>11, <1>12, ExclusiveMeans DEF TurnInv

\* A receiver that goes leaves the worker in its lane.
LEMMA DropKeeps ==
    ASSUME TurnInv, NEW r \in Requests, DropTurn(r)
    PROVE  TurnInv'
<1> DEFINE w == Unseen([Terminal(worker[r], "cancelled") EXCEPT !.cancelled = TRUE])
<1>1. TurnTypes /\ Fresh /\ EventsInOrder /\ Exclusive
    BY ExclusiveMeans DEF TurnInv
<1>2. w \in Worker /\ w.lane = worker[r].lane /\ w.stage = worker[r].stage /\ w.parser = NewParser
  <2>1. worker[r] \in Worker
    BY <1>1 DEF TurnTypes
  <2> DEFINE u == Terminal(worker[r], "cancelled")
             v == [u EXCEPT !.cancelled = TRUE]
  <2>2. u \in Worker /\ u.lane = worker[r].lane /\ u.stage = worker[r].stage
    BY <2>1, WorkerShapes
  <2> HIDE DEF u
  <2>3. v \in Worker /\ v.lane = u.lane /\ v.stage = u.stage
    BY <2>2 DEF Worker
  <2> HIDE DEF v
  <2>4. Unseen(v) \in Worker /\ Unseen(v).lane = v.lane /\ Unseen(v).stage = v.stage
        /\ Unseen(v).parser = NewParser
    BY <2>3, WorkerShapes
  <2> QED BY <2>2, <2>3, <2>4 DEF u, v
<1>3. /\ held' = held \ {r} /\ chan' = [chan EXCEPT ![r] = <<>>]
      /\ worker' = [worker EXCEPT ![r] = w] /\ used' = used /\ gate' = gate
    BY <1>1 DEF DropTurn, TurnTypes
<1> HIDE DEF w
<1>4. \A s \in Requests : s # r => worker'[s] = worker[s] /\ chan'[s] = chan[s]
    BY <1>1, <1>3 DEF TurnTypes
<1>5. worker'[r] = w /\ chan'[r] = <<>> /\ AfterHead(<<>>) /\ <<>> \in Seq(StreamEvent)
    BY <1>1, <1>3, OneEvent DEF TurnTypes
<1>6. TurnTypes'
    BY <1>1, <1>2, <1>3, <1>5 DEF TurnTypes
<1>7. Fresh'
    BY <1>1, <1>2, <1>3, <1>4, <1>5 DEF Fresh
<1>8. EventsInOrder'
  <2>1. \A s \in Requests : AfterHead(chan'[s])
    BY <1>1, <1>4, <1>5 DEF EventsInOrder
  <2>2. \A s \in Requests : worker'[s].stage \notin {"stream", "ended"} => worker'[s].parser = NewParser
    BY <1>1, <1>2, <1>4, <1>5 DEF EventsInOrder
  <2>3. \A s \in held' : Alive(s)' /\ ~worker'[s].parser.routed => chan'[s] = <<>>
    BY <1>1, <1>3, <1>4 DEF EventsInOrder, Alive, TurnTypes
  <2> QED BY <2>1, <2>2, <2>3 DEF EventsInOrder
<1>9. Exclusive'
  <2>1. ASSUME NEW s \in Requests, NEW l \in Lanes PROVE Lives(s, l)' <=> Lives(s, l)
    BY <1>2, <1>4, <1>5 DEF Lives, Alive
  <2> QED BY <2>1, <1>1, <1>3 DEF Exclusive
<1> QED BY <1>6, <1>7, <1>8, <1>9, ExclusiveMeans DEF TurnInv

\* The receiver polls its first events.
LEMMA TakeKeeps ==
    ASSUME TurnInv, NEW r \in Requests, NEW n \in Nat, n <= Len(chan[r]),
           chan' = [chan EXCEPT ![r] = SubSeq(@, n + 1, Len(@))], UNCHANGED <<used, gate, worker, held>>
    PROVE  TurnInv' /\ (n > 0 => Free(chan'[r])) /\ (Free(chan[r]) => Free(chan'[r]))
<1>1. TurnTypes /\ Fresh /\ EventsInOrder /\ Exclusive
    BY ExclusiveMeans DEF TurnInv
<1> DEFINE rest == SubSeq(chan[r], n + 1, Len(chan[r]))
<1>2. chan[r] \in Seq(StreamEvent) /\ chan' = [chan EXCEPT ![r] = rest]
    BY <1>1 DEF TurnTypes
<1>3. /\ rest \in Seq(StreamEvent) /\ Len(rest) = Len(chan[r]) - n
      /\ \A i \in 1..Len(rest) : rest[i] = chan[r][i + n]
    BY <1>2, SubSeqProperties
<1> HIDE DEF rest
<1>4. AfterHead(chan[r]) /\ Len(chan[r]) \in Nat
    BY <1>1, <1>2 DEF EventsInOrder
<1>5. AfterHead(rest) /\ (n > 0 => Free(rest)) /\ (Free(chan[r]) => Free(rest))
  <2>1. \A i \in 1..Len(rest) : i + n \in 1..Len(chan[r]) /\ (i > 1 \/ n > 0 => i + n \in 2..Len(chan[r]))
    BY <1>3, <1>4
  <2>2. AfterHead(rest)
    <3>1. ASSUME NEW i \in 2..Len(rest) PROVE rest[i].type \notin Directive
      <4>1. i \in 1..Len(rest) /\ i > 1
        BY <1>3, <1>4
      <4>2. rest[i] = chan[r][i + n] /\ i + n \in 2..Len(chan[r])
        BY <4>1, <2>1, <1>3
      <4> QED BY <4>2, <1>4 DEF AfterHead
    <3> QED BY <3>1 DEF AfterHead
  <2>3. n > 0 => Free(rest)
    BY <2>1, <1>3, <1>4 DEF AfterHead, Free
  <2>4. Free(chan[r]) => Free(rest)
    BY <2>1, <1>3, <1>4 DEF Free
  <2> QED BY <2>2, <2>3, <2>4
<1>6. chan[r] = <<>> => rest = <<>>
    BY <1>2, <1>3
<1>7. \A s \in Requests : chan'[s] = IF s = r THEN rest ELSE chan[s]
    BY <1>1, <1>2 DEF TurnTypes
<1>8. TurnTypes'
    BY <1>1, <1>2, <1>3 DEF TurnTypes
<1>9. Fresh'
    BY <1>1, <1>6, <1>7 DEF Fresh
<1>10. EventsInOrder'
    BY <1>1, <1>5, <1>6, <1>7 DEF EventsInOrder, Alive, TurnTypes
<1>11. Exclusive'
    BY <1>1 DEF Exclusive, Lives, Alive
<1> QED BY <1>5, <1>7, <1>8, <1>9, <1>10, <1>11, ExclusiveMeans DEF TurnInv

-----------------------------------------------------------------------------
(* The plan of a reply.                                                    *)

\* Plans are equal when their fields are.
LEMMA SamePlan ==
    ASSUME NEW p \in PlanType, NEW q \in PlanType,
           p.job = q.job, p.queued = q.queued, p.buffering = q.buffering, p.strokes = q.strokes,
           p.drawn = q.drawn, p.logged = q.logged, p.truncated = q.truncated, p.low = q.low
    PROVE  p = q
<1>1. ASSUME NEW x \in PlanType
      PROVE  x = [job |-> x.job, queued |-> x.queued, buffering |-> x.buffering,
                  strokes |-> x.strokes, drawn |-> x.drawn, logged |-> x.logged,
                  truncated |-> x.truncated, low |-> x.low]
    BY <1>1 DEF PlanType
<1> QED BY <1>1

\* Pieces may be joined in any grouping.
LEMMA Regroup ==
    ASSUME NEW x \in Seq(Nat), NEW y \in Seq(Nat), NEW z \in Seq(Nat)
    PROVE  (x \o y) \o z = x \o (y \o z)
BY ConcatAssociative, SMTT(30)

\* A sequence cut in two.
LEMMA CutInTwo ==
    ASSUME NEW S, NEW s \in Seq(S), NEW k \in 0..Len(s)
    PROVE  /\ SubSeq(s, 1, k) \in Seq(S) /\ SubSeq(s, k + 1, Len(s)) \in Seq(S)
           /\ SubSeq(s, 1, k) \o SubSeq(s, k + 1, Len(s)) = s
<1>1. Len(s) \in Nat /\ k \in Nat /\ k <= Len(s) /\ \A i \in 1..Len(s) : s[i] \in S
    OBVIOUS
<1>2. SubSeq(s, 1, k) \in Seq(S)
    BY <1>1, SubSeqProperties
<1>3. SubSeq(s, k + 1, Len(s)) \in Seq(S)
  <2>1. \A i \in (k + 1)..Len(s) : s[i] \in S
    BY <1>1
  <2> QED BY <1>1, <2>1, SubSeqProperties
<1>4. 1 \in 1..(Len(s) + 1) /\ k \in (1 - 1)..Len(s) /\ Len(s) \in k..Len(s)
    BY <1>1
<1>5. SubSeq(s, 1, k) \o SubSeq(s, k + 1, Len(s)) = SubSeq(s, 1, Len(s))
    BY <1>4, ConcatAdjacentSubSeq
<1>6. SubSeq(s, 1, Len(s)) = s
    BY SubSeqFull
<1> QED BY <1>2, <1>3, <1>5, <1>6

\* The plans that a reply begins with.
LEMMA PlanShapes ==
    ASSUME NEW text \in Seq(Nat)
    PROVE  Streaming(text) \in PlanType /\ Immediate(text) \in PlanType /\ NoPlan \in PlanType
<1>1. <<>> \in Seq(Nat)
    BY EmptySeq
<1>2. \A t \in Seq(Nat) : Job(t) \in [text : Seq(Nat), running : BOOLEAN]
    BY DEF Job
<1>3. NoJob \in [text : Seq(Nat), running : BOOLEAN]
    BY <1>1 DEF NoJob
<1> QED BY <1>1, <1>2, <1>3 DEF Streaming, Immediate, NoPlan, Plan, PlanType

\* What a worker that lays out the text may return.
LEMMA LayoutShape ==
    ASSUME NEW text \in Seq(Nat), text # <<>>, NEW r \in Layouts(text)
    PROVE  /\ r.strokes \in Seq(Nat) /\ r.truncated \in BOOLEAN /\ r.low \in BOOLEAN
           /\ \/ ~r.truncated /\ r.strokes = text
              \/ r.truncated /\ \E k \in 0..(Len(text) - 1) :
                                    r.strokes = Append(SubSeq(text, 1, k), Ellipsis)
<1>1. CASE r \in [strokes : {text}, truncated : {FALSE}, low : BOOLEAN]
    BY <1>1
<1>2. CASE r \in [strokes : {Append(SubSeq(text, 1, k), Ellipsis) : k \in 0..(Len(text) - 1)},
                  truncated : {TRUE}, low : {TRUE}]
  <2>1. PICK k \in 0..(Len(text) - 1) : r.strokes = Append(SubSeq(text, 1, k), Ellipsis)
    BY <1>2
  <2>2. r.truncated = TRUE /\ r.low = TRUE
    BY <1>2
  <2>3. SubSeq(text, 1, k) \in Seq(Nat)
    BY SubSeqProperties
  <2>4. r.strokes \in Seq(Nat)
    BY <2>1, <2>3, AppendProperties DEF Ellipsis
  <2> QED BY <2>1, <2>2, <2>4
<1> QED BY <1>1, <1>2 DEF Layouts

\* Polling the layout of the whole text leaves it running, laid out or lost.
LEMMA PollShape ==
    ASSUME NEW text \in Seq(Nat), text # <<>>, NEW q \in Polled(Immediate(text), LayoutFails)
    PROVE  \/ q = Immediate(text)
           \/ q \in PlanType /\ Laid(q, text)
           \/ q \in PlanType /\ Settled(q) /\ q.strokes = <<>> /\ q.job # Job(text)
<1> DEFINE p == Immediate(text)
<1>1. p = [job |-> Job(text), queued |-> <<>>, buffering |-> FALSE, strokes |-> <<>>, drawn |-> <<>>,
           logged |-> FALSE, truncated |-> FALSE, low |-> FALSE]
      /\ Job(text).running /\ p.job.running
    BY DEF Immediate, Plan, Job
<1>2. NoJob \in [text : Seq(Nat), running : BOOLEAN] /\ NoJob # Job(text) /\ <<>> \in Seq(Nat)
    BY EmptySeq DEF NoJob, Job
<1>3. ASSUME NEW r \in Layouts(text), q = Ready(p, r)
      PROVE  q \in PlanType /\ Laid(q, text)
  <2>1. /\ r.strokes \in Seq(Nat) /\ r.truncated \in BOOLEAN /\ r.low \in BOOLEAN
        /\ \/ ~r.truncated /\ r.strokes = text
           \/ r.truncated /\ \E k \in 0..(Len(text) - 1) :
                                 r.strokes = Append(SubSeq(text, 1, k), Ellipsis)
    BY LayoutShape
  <2>2. <<>> \o r.strokes = r.strokes
    BY <2>1, ConcatEmptySeq
  <2> DEFINE u == [p EXCEPT !.job = NoJob, !.strokes = @ \o r.strokes,
                            !.truncated = @ \/ r.truncated, !.low = r.low]
  <2>3. p \in PlanType
    BY PlanShapes
  <2> HIDE DEF p
  <2>4. u \in PlanType
    <3>1. p.strokes \o r.strokes = r.strokes /\ (p.truncated \/ r.truncated) \in BOOLEAN
      BY <1>1, <2>1, <2>2
    <3> QED BY <3>1, <2>1, <2>3, <1>2 DEF PlanType
  <2>5. u.job = NoJob /\ u.queued = <<>> /\ u.buffering = FALSE /\ u.drawn = <<>>
    BY <2>3, <1>1 DEF PlanType
  <2>6. u.strokes = r.strokes /\ (u.truncated <=> r.truncated)
    BY <2>1, <2>2, <2>3, <1>1 DEF PlanType
  <2>7. q = AfterJob(u)
    BY <1>3, <1>1 DEF Ready
  <2> HIDE DEF u
  <2>8. [u EXCEPT !.queued = <<>>] = u
    BY <2>4, <2>5 DEF PlanType
  <2>9. q = u
    BY <2>5, <2>7, <2>8 DEF AfterJob
  <2>10. Laid(u, text)
    BY <2>1, <2>2, <2>5, <2>6 DEF Laid, Settled
  <2> QED BY <2>4, <2>9, <2>10
<1>4. ASSUME q = Failed(p)
      PROVE  q \in PlanType /\ Settled(q) /\ q.strokes = <<>> /\ q.job # Job(text)
  <2>1. p \in PlanType
    BY PlanShapes
  <2> DEFINE u == [p EXCEPT !.job = NoJob]
  <2> HIDE DEF p
  <2>2. u \in PlanType
    BY <2>1, <1>1, <1>2 DEF PlanType
  <2>3. u.job = NoJob /\ u.queued = <<>> /\ u.buffering = FALSE /\ u.strokes = <<>>
        /\ u.truncated = FALSE
    BY <2>1, <1>1 DEF PlanType
  <2>4. q = AfterJob(u)
    BY <1>4 DEF Failed
  <2> HIDE DEF u
  <2>5. q = u
    BY <2>3, <2>4 DEF AfterJob
  <2> QED BY <1>2, <2>2, <2>3, <2>5 DEF Settled
<1>5. q = p \/ (\E r \in Layouts(text) : q = Ready(p, r)) \/ q = Failed(p)
  <2>1. p.job.text = text
    BY <1>1 DEF Job
  <2> HIDE DEF p
  <2>2. Polled(p, LayoutFails) = {p} \cup {Ready(p, r) : r \in Layouts(text)}
                                   \cup (IF LayoutFails THEN {Failed(p)} ELSE {})
    BY <1>1, <2>1 DEF Polled
  <2> QED BY <2>2 DEF p
<1> QED BY <1>3, <1>4, <1>5

\* Drawing moves strokes to the paper and changes nothing else.
LEMMA DrawShape ==
    ASSUME NEW q \in PlanType, NEW k \in FrameSizes(q)
    PROVE  LET d == Draw(q, k)
           IN  /\ d \in PlanType /\ d.job = q.job /\ d.queued = q.queued
               /\ d.buffering = q.buffering /\ d.truncated = q.truncated
               /\ d.drawn \o d.strokes = q.drawn \o q.strokes
               /\ q.strokes = <<>> => d = q
<1> DEFINE d == Draw(q, k)
<1>1. q.strokes \in Seq(Nat) /\ q.drawn \in Seq(Nat)
    BY DEF PlanType
<1>2. PICK s \in Seq(Nat), paper \in Seq(Nat) : s = q.strokes /\ paper = q.drawn
    BY <1>1
<1>3. k \in 0..Len(s) /\ (s = <<>> => k = 0)
    BY <1>2 DEF FrameSizes
<1>4. PICK head \in Seq(Nat), rest \in Seq(Nat) :
          head = SubSeq(s, 1, k) /\ rest = SubSeq(s, k + 1, Len(s)) /\ head \o rest = s
  <2>1. /\ SubSeq(s, 1, k) \in Seq(Nat) /\ SubSeq(s, k + 1, Len(s)) \in Seq(Nat)
        /\ SubSeq(s, 1, k) \o SubSeq(s, k + 1, Len(s)) = s
    BY <1>3, CutInTwo
  <2> QED BY <2>1
<1>5. d = [q EXCEPT !.drawn = @ \o head, !.strokes = rest, !.logged = @ \/ k > 0]
    BY <1>2, <1>4 DEF Draw
<1> HIDE DEF d
<1>6. q.drawn \o head \in Seq(Nat)
    BY <1>1, ConcatProperties
<1>7. /\ d \in PlanType /\ d.job = q.job /\ d.queued = q.queued
      /\ d.buffering = q.buffering /\ d.truncated = q.truncated /\ d.low = q.low
    BY <1>5, <1>6 DEF PlanType
<1>8. d.drawn = q.drawn \o head /\ d.strokes = rest /\ (d.logged <=> q.logged \/ k > 0)
    BY <1>5 DEF PlanType
<1>9. (q.drawn \o head) \o rest = q.drawn \o s
  <2>1. (paper \o head) \o rest = paper \o (head \o rest)
    BY Regroup
  <2> QED BY <2>1, <1>2, <1>4
<1>10. ASSUME s = <<>> PROVE d = q
  <2>1. head = <<>> /\ rest = <<>> /\ k = 0
    BY <1>3, <1>4, <1>10, ConcatEqualIffEmpty
  <2>2. q.drawn \o head = q.drawn
    BY <2>1, <1>1, ConcatEmptySeq
  <2>3. d.logged = q.logged
    BY <2>1, <1>7, <1>8 DEF PlanType
  <2>4. d.drawn = q.drawn /\ d.strokes = q.strokes
    BY <2>1, <2>2, <1>2, <1>8, <1>10
  <2> QED BY <2>3, <2>4, <1>7, SamePlan
<1> QED BY <1>2, <1>7, <1>8, <1>9, <1>10 DEF d

\* One frame of a reply that is complete.
LEMMA FrameKeepsShape ==
    ASSUME NEW text \in Seq(Nat), text # <<>>, NEW p, NEW isFull \in BOOLEAN, lost \in BOOLEAN,
           Shaped(p, text, lost),
           NEW isFailed, NEW said, Frame(p, isFull, FALSE, isFailed, said)
    PROVE  /\ Shaped(plan', text, lost') /\ full' \in BOOLEAN /\ lost' \in BOOLEAN
           /\ \/ UNCHANGED <<page, remembered>>
              \/ Complete(isFailed, said) /\ Finished(plan', FALSE)
<1> DEFINE i == StartInitial(p, FALSE)
<1>1. /\ i \in PlanType
      /\ i = Immediate(text) \/ Laid(i, text) \/ (lost /\ Settled(i) /\ i.strokes = <<>>)
  <2>1. Streaming(text) \in PlanType /\ Immediate(text) \in PlanType
    BY PlanShapes
  <2>2. CASE p = Streaming(text)
    <3>1. p = [job |-> NoJob, queued |-> text, buffering |-> TRUE, strokes |-> <<>>, drawn |-> <<>>,
               logged |-> FALSE, truncated |-> FALSE, low |-> FALSE]
      BY <2>2 DEF Streaming, Plan
    <3>2. i = [p EXCEPT !.buffering = FALSE, !.queued = <<>>, !.job = Job(text)]
      BY <3>1 DEF StartInitial
    <3>3. i = Immediate(text)
      BY <3>1, <3>2 DEF Immediate, Plan
    <3> QED BY <2>1, <3>3
  <2>3. CASE p # Streaming(text)
    <3>0. Immediate(text).buffering = FALSE
      BY DEF Immediate, Plan
    <3>1. ~p.buffering
      BY <2>3, <3>0 DEF Shaped, Laid, Settled
    <3>2. i = p
      BY <3>1 DEF StartInitial
    <3> QED BY <2>3, <3>2 DEF Shaped
  <2> QED BY <2>2, <2>3
<1>2. PICK q \in Polled(i, LayoutFails) :
          /\ full' = (isFull \/ q.truncated)
          /\ lost' = (lost \/ (q.job # i.job /\ q.strokes = p.strokes))
          /\ \/ plan' = q /\ UNCHANGED <<page, remembered>>
             \/ \E k \in FrameSizes(q) :
                   /\ plan' = Draw(q, k)
                   /\ IF Finished(Draw(q, k), FALSE) THEN Complete(isFailed, said)
                      ELSE UNCHANGED <<page, remembered>>
    BY DEF Frame
<1> HIDE DEF i
<1>3. /\ q \in PlanType /\ lost' \in BOOLEAN
      /\ q = Immediate(text) \/ Laid(q, text) \/ (lost' /\ Settled(q) /\ q.strokes = <<>>)
  <2>1. CASE i = Immediate(text)
    <3>1. \/ q = Immediate(text)
          \/ q \in PlanType /\ Laid(q, text)
          \/ q \in PlanType /\ Settled(q) /\ q.strokes = <<>> /\ q.job # Job(text)
      BY <2>1, <1>2, PollShape
    <3>2. i.job = Job(text)
      BY <2>1 DEF Immediate, Plan
    <3>3. p.strokes = <<>>
      <4>1. p = Streaming(text) \/ p = Immediate(text)
        BY <2>1 DEF Shaped, i, StartInitial, Laid, Settled, Immediate, Plan, NoJob, Job
      <4> QED BY <4>1 DEF Streaming, Immediate, Plan
    <3> QED BY <3>1, <3>2, <3>3, <1>2, PlanShapes
  <2>2. CASE i # Immediate(text)
    <3>0. i.job = NoJob /\ ~NoJob.running
      BY <2>2, <1>1 DEF Laid, Settled, NoJob
    <3>1. q = i
      BY <3>0, <1>2 DEF Polled
    <3> QED BY <2>2, <3>1, <1>1, <1>2
  <2> QED BY <2>1, <2>2
<1>4. full' \in BOOLEAN
    BY <1>2, <1>3 DEF PlanType
<1>5. CASE plan' = q /\ UNCHANGED <<page, remembered>>
    BY <1>3, <1>4, <1>5 DEF Shaped
<1>6. ASSUME NEW k \in FrameSizes(q), plan' = Draw(q, k),
             IF Finished(Draw(q, k), FALSE) THEN Complete(isFailed, said)
             ELSE UNCHANGED <<page, remembered>>
      PROVE  /\ Shaped(plan', text, lost')
             /\ \/ UNCHANGED <<page, remembered>>
                \/ Complete(isFailed, said) /\ Finished(plan', FALSE)
  <2> DEFINE d == Draw(q, k)
  <2>1. /\ d \in PlanType /\ d.job = q.job /\ d.queued = q.queued
        /\ d.buffering = q.buffering /\ d.truncated = q.truncated
        /\ d.drawn \o d.strokes = q.drawn \o q.strokes
        /\ q.strokes = <<>> => d = q
    BY <1>3, <1>6, DrawShape
  <2> HIDE DEF d
  <2>2. CASE q = Immediate(text)
    <3>1. d = q
      BY <2>1, <2>2 DEF Immediate, Plan
    <3> QED BY <3>1, <2>1, <2>2, <1>6 DEF Shaped, d
  <2>3. CASE Laid(q, text)
    <3>1. Laid(d, text)
      BY <2>1, <2>3 DEF Laid, Settled
    <3> QED BY <3>1, <2>1, <1>6 DEF Shaped, d
  <2>4. CASE lost' /\ Settled(q) /\ q.strokes = <<>>
    BY <2>4, <2>1, <1>6 DEF Shaped, d
  <2> QED BY <2>2, <2>3, <2>4, <1>3
<1> QED BY <1>2, <1>3, <1>4, <1>5, <1>6

-----------------------------------------------------------------------------
(* What a batch of events adds to the reply.                               *)

InkStep(events) == [i \in 1..Len(events) |-> [s \in Seq(Nat) |-> s \o events[i].text]]

\* The ink of some events, unfolded once.
LEMMA InkUnfolds ==
    ASSUME NEW events \in Seq(StreamEvent)
    PROVE  \E f : /\ f \in [0..Len(events) -> Seq(Nat)] /\ f[0] = <<>>
                  /\ \A i \in 1..Len(events) : f[i] = f[i - 1] \o events[i].text
<1>1. Len(events) \in Nat /\ \A i \in 1..Len(events) : events[i].text \in Seq(Nat)
    BY DEF StreamEvent, Event
<1>2. \A s, t \in Seq(Nat) : s \o t \in Seq(Nat)
    BY ConcatProperties
<1>3. InkStep(events) \in [1..Len(events) -> [Seq(Nat) -> Seq(Nat)]]
    BY <1>1, <1>2 DEF InkStep
<1>4. <<>> \in Seq(Nat) /\ 0 <= Len(events) /\ 0 + 1 = 1
    BY <1>1, EmptySeq
<1> DEFINE n == Len(events)
<1> HIDE DEF n
<1>5. n \in Nat /\ 0 <= n /\ InkStep(events) \in [(0 + 1)..n -> [Seq(Nat) -> Seq(Nat)]]
    BY <1>1, <1>3, <1>4 DEF n
<1>6. PICK f : Unfolds(f, Seq(Nat), 0, n, <<>>, InkStep(events))
    BY <1>4, <1>5, Unfolding
<1>7. f \in [0..n -> Seq(Nat)] /\ f[0] = <<>> /\ \A i \in 1..n : f[i] = InkStep(events)[i][f[i - 1]]
    BY <1>4, <1>6 DEF Unfolds
<1>8. ASSUME NEW i \in 1..n PROVE f[i] = f[i - 1] \o events[i].text
  <2>1. i - 1 \in 0..n /\ f[i - 1] \in Seq(Nat)
    BY <1>5, <1>7
  <2> QED BY <2>1, <1>7 DEF InkStep, n
<1> QED BY <1>7, <1>8 DEF n

\* The ink of the first events is the value at their place.
LEMMA InkOfStart ==
    ASSUME NEW c \in Seq(StreamEvent), NEW f, f \in [0..Len(c) -> Seq(Nat)], f[0] = <<>>,
           \A i \in 1..Len(c) : f[i] = f[i - 1] \o c[i].text,
           NEW d \in Seq(StreamEvent), Len(d) <= Len(c), \A i \in 1..Len(d) : d[i] = c[i]
    PROVE  InkOf(d) = f[Len(d)] /\ InkOf(d) \in Seq(Nat)
<1> DEFINE n == Len(d)
           Body(s, i) == IF i = 0 THEN <<>> ELSE s[i-1] \o d[i].text
           g == [i \in 0..n |-> f[i]]
           h == CHOOSE s : s = [i \in 0..n |-> Body(s, i)]
           P == {i \in Nat : i <= n => h[i] = f[i]}
<1>0. n \in Nat /\ Len(c) \in Nat /\ n <= Len(c)
    OBVIOUS
<1> HIDE DEF n
<1>1. g = [i \in 0..n |-> Body(g, i)]
  <2>1. ASSUME NEW i \in 0..n PROVE g[i] = Body(g, i)
    <3>1. CASE i = 0
      BY <3>1
    <3>2. CASE i # 0
      <4>1. i \in 1..n /\ i \in 1..Len(c) /\ i - 1 \in 0..n
        BY <3>2, <1>0
      <4>2. d[i] = c[i]
        BY <4>1 DEF n
      <4> QED BY <3>2, <4>1, <4>2
    <3> QED BY <3>1, <3>2
  <2> QED BY <2>1
<1>2. h = [i \in 0..n |-> Body(h, i)]
    BY <1>1, Zenon
<1>3. InkOf(d) = h[n]
    BY DEF InkOf, n
<1> HIDE DEF h
<1>4. 0 \in P
    BY <1>0, <1>2
<1>5. ASSUME NEW i \in Nat, i \in P PROVE i + 1 \in P
  <2> SUFFICES ASSUME i + 1 <= n PROVE h[i + 1] = f[i + 1]
    OBVIOUS
  <2>1. h[i] = f[i]
    BY <1>0, <1>5
  <2>2. i + 1 \in 0..n /\ i + 1 \in 1..n /\ i + 1 \in 1..Len(c) /\ (i + 1) - 1 = i /\ i + 1 # 0
    BY <1>0
  <2>3. h[i + 1] = h[i] \o d[i + 1].text
    BY <2>2, <1>2
  <2>4. d[i + 1] = c[i + 1]
    BY <2>2 DEF n
  <2> QED BY <2>1, <2>2, <2>3, <2>4
<1> HIDE DEF P
<1>6. n \in P
    BY <1>0, <1>4, <1>5, Induction
<1>7. h[n] = f[n] /\ f[n] \in Seq(Nat)
    BY <1>0, <1>6 DEF P
<1> QED BY <1>3, <1>7 DEF n

\* Ink comes event by event.
LEMMA InkOfType ==
    ASSUME NEW c \in Seq(StreamEvent)
    PROVE  InkOf(c) \in Seq(Nat) /\ InkOf(<<>>) = <<>>
<1>1. PICK f : /\ f \in [0..Len(c) -> Seq(Nat)] /\ f[0] = <<>>
               /\ \A i \in 1..Len(c) : f[i] = f[i - 1] \o c[i].text
    BY InkUnfolds
<1>2. Len(c) \in Nat /\ Len(c) <= Len(c) /\ \A i \in 1..Len(c) : c[i] = c[i]
    OBVIOUS
<1>3. InkOf(c) \in Seq(Nat)
    BY <1>1, <1>2, InkOfStart
<1>4. <<>> \in Seq(StreamEvent) /\ Len(<<>>) = 0
    BY EmptySeq
<1>5. Len(<<>>) <= Len(c) /\ \A i \in 1..Len(<<>>) : <<>>[i] = c[i]
    BY <1>2, <1>4
<1>6. InkOf(<<>>) = f[Len(<<>>)]
    BY <1>1, <1>4, <1>5, InkOfStart
<1> QED BY <1>1, <1>3, <1>4, <1>6

\* The ink of one event more.
LEMMA InkOfAppend ==
    ASSUME NEW c \in Seq(StreamEvent), NEW e \in StreamEvent
    PROVE  InkOf(Append(c, e)) = InkOf(c) \o e.text
<1> DEFINE b == Append(c, e)
<1>1. /\ b \in Seq(StreamEvent) /\ Len(b) = Len(c) + 1 /\ b[Len(c) + 1] = e
      /\ \A i \in 1..Len(c) : b[i] = c[i]
    BY AppendProperties
<1> HIDE DEF b
<1>2. PICK f : /\ f \in [0..Len(b) -> Seq(Nat)] /\ f[0] = <<>>
               /\ \A i \in 1..Len(b) : f[i] = f[i - 1] \o b[i].text
    BY <1>1, InkUnfolds
<1>3. Len(c) \in Nat /\ Len(c) <= Len(b) /\ Len(b) <= Len(b) /\ Len(c) + 1 \in 1..Len(b)
      /\ (Len(c) + 1) - 1 = Len(c)
    BY <1>1
<1>4. \A i \in 1..Len(c) : c[i] = b[i]
    BY <1>1
<1>5. InkOf(c) = f[Len(c)]
    BY <1>1, <1>2, <1>3, <1>4, InkOfStart
<1>6. InkOf(b) = f[Len(b)]
    BY <1>1, <1>2, <1>3, InkOfStart
<1>7. f[Len(c) + 1] = f[(Len(c) + 1) - 1] \o b[Len(c) + 1].text
    BY <1>2, <1>3
<1> QED BY <1>1, <1>3, <1>5, <1>6, <1>7 DEF b

\* A reply that is kept off the paper.
Kept(t) == [full |-> FALSE, plan |-> Streaming(t), reply |-> t]

\* While the reply is kept off the paper, consume_reply_event only takes text up.
LEMMA ConsumeKept ==
    ASSUME NEW t \in Seq(Nat), NEW e \in StreamEvent, e.type \notin Directive
    PROVE  Consume(Kept(t), e) = Kept(t \o e.text)
<1>1. e.text \in Seq(Nat) /\ TextOf(e) = e.text
    BY EmptySeq DEF StreamEvent, Event, Route, TextOf, Directive
<1>2. CASE e.text = <<>>
    BY <1>1, <1>2, ConcatEmptySeq DEF Consume
<1>3. CASE e.text # <<>>
  <2>1. /\ Streaming(t).buffering = TRUE /\ Streaming(t).low = FALSE
        /\ [Streaming(t) EXCEPT !.queued = @ \o e.text] = Streaming(t \o e.text)
    <3>1. PICK u \in Seq(Nat) : u = t \o e.text
      BY <1>1, ConcatProperties
    <3>2. Streaming(t) = [job |-> NoJob, queued |-> t, buffering |-> TRUE, strokes |-> <<>>,
                          drawn |-> <<>>, logged |-> FALSE, truncated |-> FALSE, low |-> FALSE]
      BY DEF Streaming, Plan
    <3>3. Streaming(u) = [job |-> NoJob, queued |-> u, buffering |-> TRUE, strokes |-> <<>>,
                          drawn |-> <<>>, logged |-> FALSE, truncated |-> FALSE, low |-> FALSE]
      BY DEF Streaming, Plan
    <3> DEFINE v == [Streaming(t) EXCEPT !.queued = u]
    <3>4. v = Streaming(u)
      <4>1. Streaming(t) \in PlanType /\ Streaming(u) \in PlanType
        BY PlanShapes
      <4>2. /\ v.job = NoJob /\ v.queued = u /\ v.buffering = TRUE /\ v.strokes = <<>>
            /\ v.drawn = <<>> /\ v.logged = FALSE /\ v.truncated = FALSE /\ v.low = FALSE
        BY <3>2
      <4>3. v \in PlanType
        BY <4>1 DEF PlanType
      <4> HIDE DEF v
      <4> QED BY <4>1, <4>2, <4>3, <3>3, SamePlan
    <3>5. Streaming(t).queued = t /\ Streaming(t).buffering = TRUE /\ Streaming(t).low = FALSE
      BY <3>2
    <3> QED BY <3>1, <3>4, <3>5
  <2>2. AppendReply(Streaming(t), e.text) = Streaming(t \o e.text)
    BY <1>3, <2>1 DEF AppendReply
  <2>3. AppendText([full |-> FALSE, plan |-> Streaming(t)], e.text)
            = [full |-> FALSE, plan |-> Streaming(t \o e.text)]
    BY <2>1, <2>2 DEF AppendText
  <2>4. Kept(t).full = FALSE /\ Kept(t).plan = Streaming(t) /\ Kept(t).reply = t
    BY DEF Kept
  <2>5. Consume(Kept(t), e) = [full |-> FALSE, plan |-> Streaming(t \o e.text),
                               reply |-> t \o e.text]
    <3> DEFINE a == AppendText([full |-> Kept(t).full, plan |-> Kept(t).plan], TextOf(e))
    <3>1. a = [full |-> FALSE, plan |-> Streaming(t \o e.text)]
      BY <1>1, <2>3, <2>4
    <3>2. TextOf(e) # <<>> /\ Kept(t).reply \o TextOf(e) = t \o e.text
      BY <1>1, <1>3, <2>4
    <3>3. Consume(Kept(t), e) = [full |-> a.full, plan |-> a.plan,
                                 reply |-> Kept(t).reply \o TextOf(e)]
      BY <3>2 DEF Consume
    <3> HIDE DEF a
    <3> QED BY <3>1, <3>2, <3>3
  <2> QED BY <2>5 DEF Kept
<1> QED BY <1>2, <1>3

\* So the batch of a tick only adds its ink to the reply and to the plan.
LEMMA ConsumedIsKept ==
    ASSUME chan[turn] \in Seq(StreamEvent), Free(chan[turn]), reply \in Seq(Nat),
           plan = Streaming(reply), full = FALSE, NEW n \in 0..Len(chan[turn])
    PROVE  /\ InkOf(SubSeq(chan[turn], 1, n)) \in Seq(Nat)
           /\ Consumed(n) = Kept(reply \o InkOf(SubSeq(chan[turn], 1, n)))
<1>1. PICK c \in Seq(StreamEvent) : c = chan[turn]
    OBVIOUS
<1>2. PICK said \in Seq(Nat) : said = reply
    OBVIOUS
<1>3. PICK f : /\ f \in [0..Len(c) -> Seq(Nat)] /\ f[0] = <<>>
               /\ \A i \in 1..Len(c) : f[i] = f[i - 1] \o c[i].text
    BY InkUnfolds
<1>4. n \in Nat /\ Len(c) \in Nat /\ n <= Len(c)
    BY <1>1
<1> DEFINE d == SubSeq(c, 1, n)
<1>5. InkOf(d) = f[n] /\ f[n] \in Seq(Nat)
  <2>1. d \in Seq(StreamEvent) /\ Len(d) = n /\ \A i \in 1..Len(d) : d[i] = c[i]
    BY <1>4, SubSeqProperties
  <2> HIDE DEF d
  <2>2. Len(d) <= Len(c)
    BY <2>1, <1>4
  <2>3. InkOf(d) = f[Len(d)] /\ InkOf(d) \in Seq(Nat)
    BY <2>1, <2>2, <1>3, InkOfStart
  <2> QED BY <2>1, <2>3
<1> HIDE DEF d
<1> DEFINE Body(s, i) == IF i = 0 THEN [full |-> full, plan |-> plan, reply |-> reply]
                         ELSE Consume(s[i-1], chan[turn][i])
           g == [i \in 0..n |-> Kept(said \o f[i])]
           h == CHOOSE s : s = [i \in 0..n |-> Body(s, i)]
           P == {i \in Nat : i <= n => h[i] = Kept(said \o f[i])}
<1>6. ASSUME NEW i \in 1..n
      PROVE  Consume(Kept(said \o f[i - 1]), chan[turn][i]) = Kept(said \o f[i])
  <2>1. i \in 1..Len(c) /\ i - 1 \in 0..Len(c)
    BY <1>4
  <2>2. f[i - 1] \in Seq(Nat) /\ c[i] \in StreamEvent /\ c[i].type \notin Directive
    <3>1. f[i - 1] \in Seq(Nat)
      BY <2>1, <1>3
    <3>2. c[i] \in StreamEvent
      BY <2>1, <1>1
    <3>3. c[i].type \notin Directive
      BY <2>1, <1>1 DEF Free
    <3> QED BY <3>1, <3>2, <3>3
  <2>3. c[i].text \in Seq(Nat) /\ said \o f[i - 1] \in Seq(Nat)
    BY <2>2, ConcatProperties DEF StreamEvent, Event
  <2>4. Consume(Kept(said \o f[i - 1]), c[i]) = Kept((said \o f[i - 1]) \o c[i].text)
    BY <2>2, <2>3, ConsumeKept
  <2>5. (said \o f[i - 1]) \o c[i].text = said \o (f[i - 1] \o c[i].text)
    BY <2>2, <2>3, Regroup
  <2>6. f[i] = f[i - 1] \o c[i].text
    BY <2>1, <1>3
  <2> QED BY <2>4, <2>5, <2>6, <1>1
<1>7. [full |-> full, plan |-> plan, reply |-> reply] = Kept(said \o f[0])
  <2>1. said \o f[0] = reply
    BY <1>2, <1>3, ConcatEmptySeq
  <2> QED BY <2>1 DEF Kept
<1>8. g = [i \in 0..n |-> Body(g, i)]
  <2>1. ASSUME NEW i \in 0..n PROVE g[i] = Body(g, i)
    <3>1. CASE i = 0
      BY <3>1, <1>7
    <3>2. CASE i # 0
      <4>1. i \in 1..n /\ i - 1 \in 0..n
        BY <3>2, <1>4
      <4> QED BY <3>2, <4>1, <1>6
    <3> QED BY <3>1, <3>2
  <2> QED BY <2>1
<1>9. h = [i \in 0..n |-> Body(h, i)]
    BY <1>8, Zenon
<1>10. Consumed(n) = h[n]
    BY DEF Consumed
<1> HIDE DEF h
<1>11. 0 \in P
    BY <1>4, <1>7, <1>9
<1>12. ASSUME NEW i \in Nat, i \in P PROVE i + 1 \in P
  <2> SUFFICES ASSUME i + 1 <= n PROVE h[i + 1] = Kept(said \o f[i + 1])
    OBVIOUS
  <2>1. h[i] = Kept(said \o f[i])
    BY <1>4, <1>12
  <2>2. i + 1 \in 0..n /\ i + 1 \in 1..n /\ (i + 1) - 1 = i /\ i + 1 # 0
    BY <1>4
  <2>3. h[i + 1] = Consume(h[i], chan[turn][i + 1])
    BY <2>2, <1>9
  <2> QED BY <2>1, <2>2, <2>3, <1>6
<1> HIDE DEF P
<1>13. n \in P
    BY <1>4, <1>11, <1>12, Induction
<1>14. h[n] = Kept(said \o f[n])
    BY <1>4, <1>13 DEF P
<1> QED BY <1>1, <1>2, <1>5, <1>10, <1>14 DEF d

-----------------------------------------------------------------------------
(* What keeps the page in order.                                           *)

\* No request has the name of none.
LEMMA SomeRequest == \A r \in Requests : r # NoReq
BY OracleAssumption DEF Requests, NoReq

\* A page that is no reply says nothing of a plan.
LEMMA NotAReply ==
    ASSUME page' \notin {"replying", "visible"}
    PROVE  Begun' /\ PlanInv'
BY DEF Begun, PlanInv

\* A page on which nothing is asked.
LEMMA PenKeeps == ASSUME IInv, Pen PROVE IInv'
<1>1. page' = "listening" /\ turn' = turn /\ turn = NoReq /\ reply' = reply /\ failed' = failed
      /\ plan' = plan /\ full' = full /\ truth' = truth /\ lost' = lost /\ remembered' = remembered
      /\ ink' = TRUE /\ attempted' = FALSE /\ spec' = NoReq
    BY DEF Pen, IInv, Places
<1>2. TurnInv' /\ held' = {}
  <2>1. CASE spec = NoReq
    <3>1. UNCHANGED turnVars
      BY <2>1 DEF Pen
    <3>2. TurnInv'
      BY <3>1 DEF IInv, TurnInv, TurnTypes, Fresh, EventsInOrder, LanesAreExclusive, Alive, turnVars
    <3> QED BY <2>1, <3>1, <3>2, <1>1 DEF IInv, Places, turnVars
  <2>2. CASE spec # NoReq
    <3>1. PICK r \in Requests : r = spec
      BY <2>2 DEF IInv, Places
    <3>2. DropTurn(r)
      BY <2>2, <3>1 DEF Pen
    <3> QED BY <3>1, <3>2, <1>1, DropKeeps DEF IInv, Places, DropTurn
  <2> QED BY <2>1, <2>2
<1>3. PageTypes'
    BY <1>1 DEF IInv, PageTypes
<1>4. Places'
    BY <1>1, <1>2 DEF IInv, Places
<1> QED BY <1>1, <1>2, <1>3, <1>4, NotAReply DEF IInv

\* The page is asked about before the writer has finished.
LEMMA PreaskKeeps == ASSUME IInv, Preask PROVE IInv'
<1>1. page = "listening" /\ page' = "listening" /\ turn' = turn /\ turn = NoReq /\ reply' = reply
      /\ failed' = failed /\ plan' = plan /\ full' = full /\ truth' = truth /\ lost' = lost
      /\ remembered' = remembered /\ ink' = ink /\ attempted' = TRUE /\ ink
    BY DEF Preask, IInv, Places
<1>2. PageTypes'
    BY <1>1 DEF IInv, PageTypes
<1>3. CASE gate["speculative"]
  <2>1. UNCHANGED <<turnVars, spec>>
    BY <1>3 DEF Preask
  <2>2. TurnInv'
    BY <2>1 DEF IInv, TurnInv, TurnTypes, Fresh, EventsInOrder, LanesAreExclusive, Alive, turnVars
  <2>3. Places'
    BY <2>1, <1>1 DEF IInv, Places, turnVars
  <2> QED BY <1>1, <1>2, <2>2, <2>3, NotAReply DEF IInv
<1>4. CASE ~gate["speculative"]
  <2>1. PICK r : r = used + 1
    OBVIOUS
  <2>2. Ask(r, "speculative") /\ spec' = r
    BY <1>4, <2>1 DEF Preask
  <2>3. TurnInv' /\ r \in Requests /\ held' = held \cup {r}
    BY <2>1, <2>2, AskKeeps DEF Lanes, IInv
  <2>4. spec = NoReq
    BY <1>1 DEF Preask, IInv, Places
  <2>5. Places'
    BY <1>1, <2>2, <2>3, <2>4, SomeRequest DEF IInv, Places
  <2> QED BY <1>1, <1>2, <2>3, <2>5, NotAReply DEF IInv
<1> QED BY <1>3, <1>4

\* A turn begins with the request that was made in advance, or a new one.
LEMMA CommitKeeps == ASSUME IInv, Commit PROVE IInv'
<1>1. page = "listening" /\ turn = NoReq /\ page' = "thinking" /\ reply' = <<>> /\ failed' = FALSE
      /\ plan' = plan /\ full' = full /\ truth' = truth /\ lost' = lost /\ remembered' = remembered
      /\ ink' = FALSE /\ attempted' = FALSE /\ spec' = NoReq
    BY DEF Commit, Begin, IInv, Places
<1>2. PageTypes'
    BY <1>1, EmptySeq DEF IInv, PageTypes
<1>3. CASE spec # NoReq
  <2>1. UNCHANGED turnVars /\ turn' = spec
    BY <1>3 DEF Commit, Begin
  <2>2. TurnInv'
    BY <2>1 DEF IInv, TurnInv, TurnTypes, Fresh, EventsInOrder, LanesAreExclusive, Alive, turnVars
  <2>3. Places'
    BY <2>1, <1>1, <1>3 DEF IInv, Places, turnVars
  <2> QED BY <1>1, <1>2, <2>2, <2>3, NotAReply DEF IInv
<1>4. CASE spec = NoReq
  <2>1. PICK r : r = used + 1
    OBVIOUS
  <2>2. Ask(r, "interactive") /\ turn' = r
    BY <1>4, <2>1 DEF Commit, Begin
  <2>3. TurnInv' /\ r \in Requests /\ held' = held \cup {r}
    BY <2>1, <2>2, AskKeeps DEF Lanes, IInv
  <2>4. Places'
    BY <1>1, <1>4, <2>2, <2>3, SomeRequest DEF IInv, Places
  <2> QED BY <1>1, <1>2, <2>3, <2>4, NotAReply DEF IInv
<1> QED BY <1>3, <1>4

\* A scheduled turn begins.
LEMMA HeartbeatKeeps == ASSUME IInv, Heartbeat PROVE IInv'
<1>1. page = "listening" /\ turn = NoReq /\ page' = "thinking" /\ reply' = <<>> /\ failed' = FALSE
      /\ plan' = plan /\ full' = full /\ truth' = truth /\ lost' = lost /\ remembered' = remembered
      /\ ink' = ink /\ attempted' = attempted /\ spec' = spec /\ spec = NoReq
    BY DEF Heartbeat, Begin, IInv, Places
<1>2. PageTypes'
    BY <1>1, EmptySeq DEF IInv, PageTypes
<1>3. PICK r : r = used + 1
    OBVIOUS
<1>4. Ask(r, "scheduled") /\ turn' = r
    BY <1>3 DEF Heartbeat, Begin
<1>5. TurnInv' /\ r \in Requests /\ held' = held \cup {r}
    BY <1>3, <1>4, AskKeeps DEF Lanes, IInv
<1>6. Places'
    BY <1>1, <1>4, <1>5, SomeRequest DEF IInv, Places
<1> QED BY <1>1, <1>2, <1>5, <1>6, NotAReply DEF IInv

\* The page goes on without its receiver.
LEMMA LettingGo ==
    ASSUME IInv, turn # NoReq, LetGo
    PROVE  TurnInv' /\ turn' = NoReq /\ held' = {} /\ spec = NoReq
<1>1. PICK r \in Requests : r = turn
    BY DEF IInv, Places
<1>2. DropTurn(r) /\ turn' = NoReq /\ held' = held \ {r}
    BY <1>1 DEF LetGo, DropTurn
<1>3. spec = NoReq
    BY DEF IInv, Places
<1>4. held = {r}
    BY <1>1, <1>3 DEF IInv, Places
<1> QED BY <1>2, <1>3, <1>4, DropKeeps DEF IInv

\* The state without a receiver, in any place.
LEMMA NobodyHeld ==
    ASSUME TurnInv', PageTypes', PlanInv', turn' = NoReq, spec' = NoReq, held' = {}, page' # "thinking"
    PROVE  IInv'
<1>1. Places'
    BY DEF Places
<1>2. Begun'
    BY DEF Begun
<1> QED BY <1>1, <1>2 DEF IInv

\* A reply that is known at once.
LEMMA AtOnce ==
    ASSUME NEW text \in Seq(Nat), page' = "replying", turn' = NoReq, plan' = Immediate(text),
           text = Text', lost' \in BOOLEAN
    PROVE  PlanInv'
<1>1. Shaped(plan', text, lost')
    BY PlanShapes DEF Shaped
<1> QED BY <1>1 DEF PlanInv

\* The receiver polls the first event of its channel.
LEMMA Polling ==
    ASSUME IInv, page = "thinking", chan[turn] # <<>>, chan' = [chan EXCEPT ![turn] = Tail(@)],
           UNCHANGED <<used, gate, worker, held>>
    PROVE  /\ TurnInv' /\ turn \in Requests /\ Free(chan'[turn])
           /\ Head(chan[turn]) \in StreamEvent
           /\ Alive(turn) => worker[turn].parser.routed
<1>1. PICK r \in Requests : r = turn
    BY DEF IInv, Places
<1>2. chan[r] \in Seq(StreamEvent) /\ chan[r] # <<>> /\ r \in held
    BY <1>1, SomeRequest DEF IInv, TurnInv, TurnTypes, Places
<1>3. PICK n \in Nat : n = 1
    OBVIOUS
<1>4. /\ Head(chan[r]) \in StreamEvent /\ n <= Len(chan[r])
      /\ Tail(chan[r]) = SubSeq(chan[r], n + 1, Len(chan[r]))
    BY <1>2, <1>3, HeadTailProperties, TailIsSubSeq
<1>5. TurnInv' /\ Free(chan'[r])
  <2>1. chan' = [chan EXCEPT ![r] = SubSeq(@, n + 1, Len(@))]
    BY <1>1, <1>4 DEF IInv, TurnInv, TurnTypes
  <2>2. TurnInv
    BY DEF IInv
  <2>3. TurnInv' /\ (n > 0 => Free(chan'[r]))
    BY <2>1, <2>2, <1>4, TakeKeeps, Zenon
  <2> QED BY <2>3, <1>3
<1>6. Alive(r) => worker[r].parser.routed
    BY <1>2 DEF IInv, TurnInv, EventsInOrder
<1> QED BY <1>1, <1>4, <1>5, <1>6

\* poll_first and consume_first_event: what came decides what the page becomes.
LEMMA FirstEventKeeps == ASSUME IInv, FirstEvent PROVE IInv'
<1> DEFINE e == Head(chan[turn])
<1>1. /\ page = "thinking" /\ chan[turn] # <<>> /\ turn # NoReq /\ reply = <<>> /\ failed = FALSE
      /\ spec = NoReq
      /\ ink' = ink /\ spec' = spec /\ attempted' = attempted /\ truth' = truth
      /\ lost' = lost /\ remembered' = remembered
      /\ FirstText(e) \/ FirstTranscript(e) \/ FirstError(e) \/ FirstCommand(e) \/ FirstDirective(e)
    BY DEF FirstEvent, IInv, Places, PageTypes
<1>2. PICK r \in Requests : r = turn
    BY <1>1 DEF IInv, Places
<1>3. e \in StreamEvent
  <2>1. chan[r] \in Seq(StreamEvent) /\ chan[r] # <<>>
    BY <1>1, <1>2 DEF IInv, TurnInv, TurnTypes
  <2> QED BY <2>1, <1>2, HeadTailProperties
<1> HIDE DEF e
<1>4. \A t \in Seq(Nat) : <<>> \o t = t
    BY ConcatEmptySeq
<1>5. e.text \in Seq(Nat) /\ (e.type = "Ink" => e.text # <<>>)
    BY <1>3 DEF StreamEvent, Event
<1>6. CASE FirstText(e)
  <2>1. /\ e.type = "Ink" /\ chan' = [chan EXCEPT ![turn] = Tail(@)] /\ reply' = e.text
        /\ page' = "replying" /\ plan' = Streaming(e.text) /\ full' = FALSE
        /\ used' = used /\ gate' = gate /\ worker' = worker /\ held' = held
        /\ turn' = turn /\ failed' = failed
    BY <1>1, <1>4, <1>5, <1>6 DEF FirstText, Replying
  <2>2. TurnInv' /\ Free(chan'[turn]) /\ (Alive(turn) => worker[turn].parser.routed)
    BY <1>1, <2>1, Polling
  <2>3. PageTypes'
    BY <1>1, <1>5, <2>1, PlanShapes DEF IInv, PageTypes
  <2>4. Places'
    BY <1>1, <2>1 DEF IInv, Places
  <2>5. Begun'
    BY <2>1, <2>2 DEF Begun, Alive
  <2>6. Shaped(plan', e.text, lost') /\ Text' = e.text
    BY <1>5, <2>1, PlanShapes DEF Shaped, Text
  <2>7. PlanInv'
    BY <1>5, <2>1, <2>6 DEF PlanInv
  <2> QED BY <2>2, <2>3, <2>4, <2>5, <2>7 DEF IInv
<1>7. CASE FirstTranscript(e)
  <2>1. /\ chan' = [chan EXCEPT ![turn] = Tail(@)] /\ reply' = reply
        /\ page' = page /\ plan' = plan /\ full' = full
        /\ used' = used /\ gate' = gate /\ worker' = worker /\ held' = held
        /\ turn' = turn /\ failed' = failed
    BY <1>7 DEF FirstTranscript
  <2>2. TurnInv'
    BY <1>1, <2>1, Polling
  <2>3. PageTypes'
    BY <1>1, <2>1 DEF IInv, PageTypes
  <2>4. Places'
    BY <1>1, <2>1 DEF IInv, Places
  <2> QED BY <1>1, <2>1, <2>2, <2>3, <2>4, NotAReply DEF IInv
<1>8. CASE FirstError(e)
  <2>1. /\ LetGo /\ failed' = TRUE /\ page' = "replying" /\ plan' = Immediate(<<Excuse>>)
        /\ full' = FALSE /\ reply' = <<>>
    BY <1>1, <1>8 DEF FirstError, Replying
  <2>2. TurnInv' /\ turn' = NoReq /\ held' = {}
    BY <1>1, <2>1, LettingGo
  <2>3. <<Excuse>> \in Seq(Nat)
    BY DEF Excuse
  <2>4. PageTypes'
    BY <1>1, <2>1, <2>3, PlanShapes DEF IInv, PageTypes
  <2>5. Text' = <<Excuse>>
    BY <2>1 DEF Text
  <2>6. PlanInv'
    BY <1>1, <2>1, <2>2, <2>3, <2>4, <2>5, AtOnce DEF PageTypes
  <2> QED BY <1>1, <2>1, <2>2, <2>4, <2>6, NobodyHeld
<1>9. CASE FirstCommand(e)
  <2>0. <<LocalReply>> \in Seq(Nat) /\ <<LocalReply>> # <<>>
    BY DEF LocalReply
  <2>1. /\ LetGo /\ failed' = failed /\ page' = "replying" /\ plan' = Immediate(<<LocalReply>>)
        /\ full' = FALSE /\ reply' = <<LocalReply>>
    BY <1>1, <1>4, <1>9, <2>0 DEF FirstCommand, Replying
  <2>2. TurnInv' /\ turn' = NoReq /\ held' = {}
    BY <1>1, <2>1, LettingGo
  <2>4. PageTypes'
    BY <1>1, <2>0, <2>1, PlanShapes DEF IInv, PageTypes
  <2>5. Text' = <<LocalReply>>
    BY <2>0, <2>1 DEF Text
  <2>6. PlanInv'
    BY <1>1, <2>0, <2>1, <2>2, <2>4, <2>5, AtOnce DEF PageTypes
  <2> QED BY <1>1, <2>1, <2>2, <2>4, <2>6, NobodyHeld
<1>10. CASE FirstDirective(e)
  <2>1. /\ LetGo /\ failed' = failed /\ page' = "listening" /\ plan' = plan
        /\ full' = full /\ reply' = reply
    BY <1>1, <1>10 DEF FirstDirective
  <2>2. TurnInv' /\ turn' = NoReq /\ held' = {}
    BY <1>1, <2>1, LettingGo
  <2>3. PageTypes'
    BY <1>1, <2>1 DEF IInv, PageTypes
  <2> QED BY <1>1, <2>1, <2>2, <2>3, NotAReply, NobodyHeld
<1> QED BY <1>1, <1>6, <1>7, <1>8, <1>9, <1>10

\* The oracle has been silent for too long.
LEMMA FirstTimesOutKeeps == ASSUME IInv, FirstTimesOut PROVE IInv'
<1>1. /\ page = "thinking" /\ turn # NoReq /\ reply = <<>> /\ spec = NoReq
      /\ ink' = ink /\ spec' = spec /\ attempted' = attempted /\ truth' = truth
      /\ lost' = lost /\ remembered' = remembered /\ reply' = reply /\ failed' = failed
      /\ LetGo /\ page' = "replying" /\ plan' = Immediate(<<Excuse>>) /\ full' = FALSE
    BY DEF FirstTimesOut, Replying, IInv, Places
<1>2. TurnInv' /\ turn' = NoReq /\ held' = {}
    BY <1>1, LettingGo
<1>3. <<Excuse>> \in Seq(Nat)
    BY DEF Excuse
<1>4. PageTypes'
    BY <1>1, <1>3, PlanShapes DEF IInv, PageTypes
<1>5. Text' = <<Excuse>>
    BY <1>1 DEF Text
<1>6. PlanInv'
    BY <1>1, <1>2, <1>3, <1>4, <1>5, AtOnce DEF PageTypes
<1> QED BY <1>1, <1>2, <1>4, <1>6, NobodyHeld

\* The page is left, with whatever it holds.
LEMMA AbandonKeeps == ASSUME IInv, Abandon PROVE IInv'
<1>1. /\ page # "listening" /\ page' = "listening" /\ plan' = NoPlan /\ full' = FALSE
      /\ truth' = Nothing /\ lost' = FALSE /\ remembered' = <<>> /\ reply' = <<>> /\ failed' = FALSE
      /\ ink' = ink /\ spec' = spec /\ attempted' = attempted /\ spec = NoReq
    BY DEF Abandon, IInv, Places
<1>2. Nothing \in [shown : Seq(Nat), outcome : {"none", "done", "error", "cancelled"}]
    BY EmptySeq DEF Nothing
<1>3. NoPlan \in PlanType /\ <<>> \in Seq(Nat)
    BY EmptySeq, PlanShapes
<1>4. PageTypes'
    BY <1>1, <1>2, <1>3 DEF IInv, PageTypes
<1>5. TurnInv' /\ turn' = NoReq /\ held' = {}
  <2>1. CASE turn = NoReq
    <3>1. UNCHANGED <<turnVars, turn>>
      BY <2>1 DEF Abandon
    <3>2. TurnInv'
      BY <3>1 DEF IInv, TurnInv, TurnTypes, Fresh, EventsInOrder, LanesAreExclusive, Alive, turnVars
    <3> QED BY <2>1, <3>1, <3>2, <1>1 DEF IInv, Places, turnVars
  <2>2. CASE turn # NoReq
    BY <2>2, LettingGo DEF Abandon
  <2> QED BY <2>1, <2>2
<1> QED BY <1>1, <1>4, <1>5, NotAReply, NobodyHeld

\* A frame while the reply is kept off the paper draws nothing.
LEMMA FrameWaits ==
    ASSUME NEW text \in Seq(Nat), lost \in BOOLEAN, NEW isFailed, NEW said,
           Frame(Streaming(text), FALSE, TRUE, isFailed, said)
    PROVE  plan' = Streaming(text) /\ full' = FALSE /\ lost' = lost /\ UNCHANGED <<page, remembered>>
<1> DEFINE p == Streaming(text)
<1>1. /\ p \in PlanType /\ p.job = NoJob /\ ~p.job.running /\ p.strokes = <<>>
      /\ p.truncated = FALSE
  <2>1. p = [job |-> NoJob, queued |-> text, buffering |-> TRUE, strokes |-> <<>>,
             drawn |-> <<>>, logged |-> FALSE, truncated |-> FALSE, low |-> FALSE]
    BY DEF Streaming, Plan
  <2>2. p.job = NoJob /\ p.strokes = <<>> /\ p.truncated = FALSE
    BY <2>1
  <2>3. ~NoJob.running
    BY DEF NoJob
  <2> QED BY <2>2, <2>3, PlanShapes
<1>2. Frame(p, FALSE, TRUE, isFailed, said)
    OBVIOUS
<1> HIDE DEF p
<1>3. StartInitial(p, TRUE) = p /\ Polled(p, LayoutFails) = {p}
    BY <1>1 DEF StartInitial, Polled
<1>4. /\ full' = (FALSE \/ p.truncated)
      /\ lost' = (lost \/ (p.job # p.job /\ p.strokes = p.strokes))
      /\ \/ plan' = p /\ UNCHANGED <<page, remembered>>
         \/ \E k \in FrameSizes(p) :
               /\ plan' = Draw(p, k)
               /\ IF Finished(Draw(p, k), TRUE) THEN Complete(isFailed, said)
                  ELSE UNCHANGED <<page, remembered>>
  <2>1. PICK q \in Polled(StartInitial(p, TRUE), LayoutFails) :
          /\ full' = (FALSE \/ q.truncated)
          /\ lost' = (lost \/ (q.job # StartInitial(p, TRUE).job /\ q.strokes = p.strokes))
          /\ \/ plan' = q /\ UNCHANGED <<page, remembered>>
             \/ \E k \in FrameSizes(q) :
                   /\ plan' = Draw(q, k)
                   /\ IF Finished(Draw(q, k), TRUE) THEN Complete(isFailed, said)
                      ELSE UNCHANGED <<page, remembered>>
    BY <1>2, Zenon DEF Frame
  <2>2. Polled(StartInitial(p, TRUE), LayoutFails) = {p}
    BY <1>3, Zenon
  <2>3. q = p
    BY <2>2
  <2> QED BY <2>1, <2>3, <1>3
<1>5. plan' = p /\ UNCHANGED <<page, remembered>>
  <2>1. \A q : ~Finished(q, TRUE)
    BY DEF Finished
  <2>2. \A k \in FrameSizes(p) : Draw(p, k) = p
    BY <1>1, DrawShape
  <2> QED BY <2>1, <2>2, <1>4
<1> QED BY <1>1, <1>4, <1>5 DEF p

\* The batch that a tick takes.
LEMMA DrainedBatch ==
    ASSUME chan[turn] \in Seq(StreamEvent)
    PROVE  /\ Drained \in 0..Len(chan[turn])
           /\ Free(chan[turn]) => ~EndsAt(Drained, "Reader")
<1>1. PICK c \in Seq(StreamEvent) : c = chan[turn]
    OBVIOUS
<1> DEFINE n    == Least(DrainBudget, Len(c))
           ends == {i \in 1..n : c[i].type \in {"Err", "Reader"}}
<1>2. n \in Nat /\ n <= Len(c) /\ Len(c) \in Nat
    BY PathAssumption DEF Least
<1>3. Drained = IF ends = {} THEN n ELSE FirstOf(ends)
    BY <1>1 DEF Drained
<1>4. ends \in SUBSET Nat /\ \A i \in ends : i <= n
    BY <1>2
<1> HIDE DEF n, ends
<1>5. ends # {} => FirstOf(ends) \in ends
    BY <1>4, FirstOfType
<1>6. Drained \in 0..Len(c)
    BY <1>2, <1>3, <1>4, <1>5
<1>7. ASSUME Free(c), EndsAt(Drained, "Reader") PROVE FALSE
  <2>1. Drained \in 1..Len(c) /\ c[Drained].type = "Reader"
    BY <1>1, <1>2, <1>6, <1>7 DEF EndsAt
  <2> QED BY <2>1, <1>7 DEF Free, Directive
<1> QED BY <1>1, <1>6, <1>7

\* Completing a reply.
LEMMA Remembering ==
    ASSUME NEW text \in Seq(Nat), NEW isFailed, remembered \in Seq(Nat),
           \/ UNCHANGED <<page, remembered>>
           \/ Complete(isFailed, text)
    PROVE  remembered' \in Seq(Nat) /\ page' \in {page, "visible"}
BY DEF Complete, Persists

\* What the writer should see is positions.
LEMMA ShownType ==
    ASSUME NEW said \in Seq(Piece)
    PROVE  Shown(said) \in Seq(Nat)
<1>1. 0 \in Nat /\ Len(said) \in Nat /\ 0 <= Len(said)
    OBVIOUS
<1> QED BY <1>1, PositionsType DEF Shown

\* A tick while the stream is held: at the boundary the whole text is laid out.
LEMMA TickStreamKeeps == ASSUME IInv, TickStream PROVE IInv'
<1>1. /\ page = "replying" /\ turn # NoReq /\ spec = NoReq
      /\ ink' = ink /\ spec' = spec /\ attempted' = attempted
      /\ plan = Streaming(reply) /\ full = FALSE /\ reply # <<>> /\ reply \in Seq(Nat)
      /\ lost \in BOOLEAN /\ failed \in BOOLEAN /\ remembered \in Seq(Nat)
    BY DEF TickStream, IInv, Places, PlanInv, PageTypes
<1>2. PICK r \in Requests : r = turn
    BY <1>1 DEF IInv, Places
<1>3. chan[turn] \in Seq(StreamEvent) /\ Free(chan[turn])
    BY <1>1, <1>2 DEF IInv, TurnInv, TurnTypes, Begun
<1>4. PICK n \in 0..Len(chan[turn]) : n = Drained /\ ~EndsAt(n, "Reader")
    BY <1>3, DrainedBatch
<1>5. PICK text \in Seq(Nat) : text # <<>> /\ Consumed(n) = Kept(text)
  <2>1. /\ InkOf(SubSeq(chan[turn], 1, n)) \in Seq(Nat)
        /\ Consumed(n) = Kept(reply \o InkOf(SubSeq(chan[turn], 1, n)))
    BY <1>1, <1>3, ConsumedIsKept
  <2>2. PICK more \in Seq(Nat) : more = InkOf(SubSeq(chan[turn], 1, n))
    BY <2>1
  <2>3. reply \o more \in Seq(Nat) /\ reply \o more # <<>>
    BY <1>1, ConcatProperties, ConcatEqualIffEmpty
  <2> QED BY <2>1, <2>2, <2>3
<1>6. Kept(text).reply = text /\ Kept(text).plan = Streaming(text) /\ Kept(text).full = FALSE
    BY DEF Kept
<1>7. /\ reply' = text /\ failed' = (failed \/ EndsAt(n, "Err"))
      /\ IF Boundary(n)
         THEN /\ LetGo
              /\ truth' = [shown   |-> Shown(worker[turn].answer),
                           outcome |-> worker[turn].outcome]
              /\ Frame(Recenter(Streaming(text), text),
                       FALSE /\ ~CanRecenter(Streaming(text), text), FALSE, failed', text)
         ELSE /\ chan' = [chan EXCEPT ![turn] = SubSeq(@, n + 1, Len(@))]
              /\ UNCHANGED <<used, gate, worker, held, turn, truth>>
              /\ \/ plan' = Streaming(text) /\ full' = FALSE /\ UNCHANGED <<page, lost, remembered>>
                 \/ Frame(Streaming(text), FALSE, TRUE, failed', text)
    BY <1>4, <1>5, <1>6 DEF TickStream
<1>8. failed' \in BOOLEAN
    BY <1>1, <1>7
<1>9. CASE Boundary(n)
  <2>1. CanRecenter(Streaming(text), text)
    BY <1>5 DEF CanRecenter, Streaming, Plan
  <2>2. Recenter(Streaming(text), text) = Immediate(text)
    BY <2>1 DEF Recenter
  <2>3. LetGo /\ Frame(Immediate(text), FALSE, FALSE, failed', text)
    BY <2>1, <2>2, <1>7, <1>9
  <2>4. TurnInv' /\ turn' = NoReq /\ held' = {}
    BY <1>1, <2>3, LettingGo
  <2>5. Shaped(Immediate(text), text, lost)
    BY PlanShapes DEF Shaped
  <2>6. PICK wrong : wrong = failed'
    OBVIOUS
  <2>7. Frame(Immediate(text), FALSE, FALSE, wrong, text)
    BY <2>3, <2>6
  <2>8. /\ Shaped(plan', text, lost') /\ full' \in BOOLEAN /\ lost' \in BOOLEAN
        /\ UNCHANGED <<page, remembered>> \/ (Complete(wrong, text) /\ Finished(plan', FALSE))
    BY <2>5, <2>7, <1>1, <1>5, FrameKeepsShape
  <2>9. /\ remembered' \in Seq(Nat) /\ page' \in {"replying", "visible"}
        /\ page' = "visible" => Finished(plan', FALSE)
    BY <2>8, <1>1, Remembering DEF Complete
  <2>10. truth' \in [shown : Seq(Nat), outcome : {"none", "done", "error", "cancelled"}]
    <3>1. worker[r] \in Worker
      BY DEF IInv, TurnInv, TurnTypes
    <3>2. worker[r].answer \in Seq(Piece) /\ worker[r].outcome \in {"none", "done", "error", "cancelled"}
      BY <3>1 DEF Worker
    <3> QED BY <3>2, <1>2, <1>7, <1>9, ShownType
  <2>11. PageTypes'
    BY <2>8, <2>9, <2>10, <1>1, <1>7, <1>8 DEF IInv, PageTypes, Shaped
  <2>12. Text' = text
    BY <1>5, <1>7 DEF Text
  <2>13. PlanInv'
    BY <2>4, <2>8, <2>9, <2>12 DEF PlanInv
  <2> QED BY <1>1, <2>4, <2>9, <2>11, <2>13, NobodyHeld
<1>10. CASE ~Boundary(n)
  <2>1. plan' = Streaming(text) /\ full' = FALSE /\ UNCHANGED <<page, lost, remembered>>
    <3>1. PICK wrong : wrong = failed'
      OBVIOUS
    <3>2. CASE Frame(Streaming(text), FALSE, TRUE, wrong, text)
      BY <3>2, <1>1, FrameWaits
    <3> QED BY <3>1, <3>2, <1>7, <1>10
  <2>2. TurnInv' /\ Free(chan'[r])
    <3>1. n \in Nat /\ n <= Len(chan[r]) /\ TurnInv
      BY <1>2, <1>3 DEF IInv
    <3>2. /\ chan' = [chan EXCEPT ![r] = SubSeq(@, n + 1, Len(@))]
          /\ UNCHANGED <<used, gate, worker, held>>
      BY <1>2, <1>7, <1>10
    <3>3. TurnInv' /\ (Free(chan[r]) => Free(chan'[r]))
      BY <3>1, <3>2, TakeKeeps, Zenon
    <3> QED BY <3>3, <1>2, <1>3
  <2>3. turn' = turn /\ held' = held /\ worker' = worker /\ truth' = truth
    BY <1>7, <1>10
  <2>4. PageTypes'
    BY <2>1, <2>3, <1>1, <1>7, <1>8, PlanShapes DEF IInv, PageTypes
  <2>5. Places'
    BY <2>1, <2>3, <1>1 DEF IInv, Places
  <2>6. Begun'
    BY <2>1, <2>2, <2>3, <1>1, <1>2 DEF IInv, Begun, Alive
  <2>7. Shaped(plan', text, lost') /\ Text' = text
    BY <2>1, <1>5, <1>7, PlanShapes DEF Shaped, Text
  <2>8. PlanInv'
    BY <2>1, <2>3, <2>7, <1>1, <1>5, <1>7 DEF PlanInv
  <2> QED BY <2>2, <2>4, <2>5, <2>6, <2>8 DEF IInv
<1> QED BY <1>9, <1>10

\* A tick without a stream: one frame.
LEMMA TickReplyKeeps == ASSUME IInv, TickReply PROVE IInv'
<1>1. /\ page = "replying" /\ turn = NoReq /\ Frame(plan, full, FALSE, failed, reply)
      /\ ink' = ink /\ spec' = spec /\ attempted' = attempted /\ turn' = turn /\ reply' = reply
      /\ failed' = failed /\ truth' = truth /\ spec = NoReq /\ UNCHANGED turnVars
      /\ lost \in BOOLEAN /\ full \in BOOLEAN /\ reply \in Seq(Nat) /\ remembered \in Seq(Nat)
    BY DEF TickReply, IInv, Places, PageTypes
<1>2. TurnInv' /\ held' = {}
  <2>1. TurnInv'
    BY <1>1 DEF IInv, TurnInv, TurnTypes, Fresh, EventsInOrder, LanesAreExclusive, Alive, turnVars
  <2> QED BY <2>1, <1>1 DEF IInv, Places, turnVars
<1>3. PICK text \in Seq(Nat) : text = Text /\ text # <<>>
  <2>1. <<Excuse>> \in Seq(Nat) /\ <<Excuse>> # <<>>
    BY DEF Excuse
  <2> QED BY <2>1, <1>1 DEF Text
<1>4. Shaped(plan, text, lost)
    BY <1>1, <1>3 DEF IInv, PlanInv
<1>5. /\ Shaped(plan', text, lost') /\ full' \in BOOLEAN /\ lost' \in BOOLEAN
      /\ UNCHANGED <<page, remembered>> \/ (Complete(failed, reply) /\ Finished(plan', FALSE))
    BY <1>1, <1>3, <1>4, FrameKeepsShape
<1>6. /\ remembered' \in Seq(Nat) /\ page' \in {"replying", "visible"}
      /\ page' = "visible" => Finished(plan', FALSE)
    BY <1>1, <1>5, Remembering DEF Complete
<1>7. PageTypes'
    BY <1>1, <1>5, <1>6 DEF IInv, PageTypes, Shaped
<1>8. Text' = text
    BY <1>1, <1>3 DEF Text
<1>9. PlanInv'
    BY <1>1, <1>5, <1>6, <1>8 DEF PlanInv
<1> QED BY <1>1, <1>2, <1>6, <1>7, <1>9, NobodyHeld
\* Nothing about requests or the page has moved.
LEMMA StutterKeeps == ASSUME IInv, UNCHANGED vars PROVE IInv'
<1>1. /\ used' = used /\ gate' = gate /\ worker' = worker /\ held' = held /\ chan' = chan
      /\ page' = page /\ ink' = ink /\ spec' = spec /\ attempted' = attempted /\ turn' = turn
      /\ reply' = reply /\ failed' = failed /\ plan' = plan /\ full' = full /\ truth' = truth
      /\ lost' = lost /\ remembered' = remembered
    BY DEF vars, turnVars, pageVars
<1>2. TurnInv'
    BY <1>1 DEF IInv, TurnInv, TurnTypes, Fresh, EventsInOrder, LanesAreExclusive, Alive
<1>3. PageTypes' /\ Places'
    BY <1>1 DEF IInv, PageTypes, Places
<1>4. Begun'
    BY <1>1 DEF IInv, Begun, Alive
<1>5. PlanInv'
    BY <1>1 DEF IInv, PlanInv, Text
<1> QED BY <1>2, <1>3, <1>4, <1>5 DEF IInv

\* A worker's step leaves the page as it is; a turn whose reply has begun gets
\* no directive any more.
LEMMA WorkKeeps == ASSUME IInv, Work PROVE IInv'
<1>1. PICK r \in Requests : WorkerStep(r) /\ UNCHANGED pageVars
    BY DEF Work
<1>2. TurnTypes /\ EventsInOrder /\ TurnInv
    BY DEF IInv, TurnInv
<1>3. Alive(r) /\ (UNCHANGED turnVars \/ Does(r))
    BY <1>1, <1>2, WorkerCourse
<1>4. CASE UNCHANGED turnVars
    BY <1>1, <1>4, StutterKeeps DEF vars
<1>5. CASE Does(r)
  <2>1. TurnInv'
    BY <1>2, <1>3, <1>5, DoesKeeps
  <2>2. /\ page' = page /\ ink' = ink /\ spec' = spec /\ attempted' = attempted /\ turn' = turn
        /\ reply' = reply /\ failed' = failed /\ plan' = plan /\ full' = full /\ truth' = truth
        /\ lost' = lost /\ remembered' = remembered
    BY <1>1 DEF pageVars
  <2>3. PICK w, events : Course(r, w, events) /\ Orderly(r, w, events)
    BY <1>5 DEF Does
  <2>4. /\ worker' = [worker EXCEPT ![r] = w] /\ events \in Seq(StreamEvent) /\ held' = held
        /\ chan' = [chan EXCEPT ![r] = IF r \in held THEN @ \o events ELSE @]
        /\ worker[r].parser.routed => Free(events)
        /\ w.stage # "ended" /\ ~w.parser.routed => ~worker[r].parser.routed
    BY <2>3 DEF Course, Orderly, Post
  <2>5. PageTypes' /\ Places'
    BY <2>2, <2>4 DEF IInv, PageTypes, Places
  <2>6. PlanInv'
    BY <2>2 DEF IInv, PlanInv, Text
  <2>7. Begun'
    <3> SUFFICES ASSUME page = "replying", turn # NoReq
                 PROVE  Free(chan'[turn]) /\ (Alive(turn)' => worker'[turn].parser.routed)
      BY <2>2 DEF Begun, Alive
    <3>1. PICK t \in Requests : t = turn
      BY DEF IInv, Places
    <3>2. Free(chan[t]) /\ (Alive(t) => worker[t].parser.routed)
      BY <3>1 DEF IInv, Begun
    <3>3. CASE t = r
      <4>1. Free(events) /\ worker[r].parser.routed
        BY <3>2, <3>3, <1>3, <2>4
      <4>2. chan[r] \in Seq(StreamEvent)
        BY <1>2 DEF TurnTypes
      <4>3. Free(chan[r] \o events)
        BY <4>1, <4>2, <3>2, <3>3, <2>4, QuietTail
      <4>4. chan'[r] \in {chan[r], chan[r] \o events} /\ worker'[r] = w
        BY <1>2, <2>4 DEF TurnTypes
      <4> QED BY <4>1, <4>3, <4>4, <3>1, <3>2, <3>3, <2>2, <2>4 DEF Alive
    <3>4. CASE t # r
      <4>1. chan'[t] = chan[t] /\ worker'[t] = worker[t]
        BY <3>4, <1>2, <2>4 DEF TurnTypes
      <4> QED BY <4>1, <3>1, <3>2, <2>2 DEF Alive
    <3> QED BY <3>3, <3>4
  <2> QED BY <2>1, <2>5, <2>6, <2>7 DEF IInv
<1> QED BY <1>3, <1>4, <1>5

-----------------------------------------------------------------------------
(* The invariant, and what follows from it.                                *)

\* It holds when the program starts.
LEMMA InitInv == ASSUME Init PROVE IInv
<1>1. /\ used = 0 /\ gate = [l \in Lanes |-> FALSE] /\ held = {}
      /\ worker = [r \in Requests |-> NewWorker("interactive", "none")]
      /\ chan = [r \in Requests |-> <<>>]
      /\ page = "listening" /\ ink = FALSE /\ spec = NoReq /\ attempted = FALSE
      /\ turn = NoReq /\ reply = <<>> /\ failed = FALSE
      /\ plan = NoPlan /\ full = FALSE /\ truth = Nothing /\ lost = FALSE /\ remembered = <<>>
    BY DEF Init, TurnInit
<1>2. <<>> \in Seq(StreamEvent) /\ <<>> \in Seq(Nat) /\ <<>> \in Seq(Piece) /\ AfterHead(<<>>)
    BY EmptySeq, OneEvent
<1>3. LET w == NewWorker("interactive", "none")
      IN  w \in Worker /\ w.stage = "none" /\ w.parser = NewParser
    BY <1>2 DEF NewWorker, Worker, Lanes, Stages, NewParser
<1>4. TurnTypes
    BY <1>1, <1>2, <1>3, OracleAssumption DEF TurnTypes, Requests
<1>5. Fresh /\ EventsInOrder
    BY <1>1, <1>2, <1>3 DEF Fresh, EventsInOrder
<1>6. LanesAreExclusive
  <2>1. \A r \in Requests : ~Alive(r)
    BY <1>1, <1>3 DEF Alive
  <2>2. \A l \in Lanes : gate[l] = FALSE
    BY <1>1
  <2> QED BY <2>1, <2>2 DEF LanesAreExclusive
<1>7. PageTypes /\ Places
  <2>1. NoPlan \in PlanType
    BY <1>2, PlanShapes
  <2>2. Nothing \in [shown : Seq(Nat), outcome : {"none", "done", "error", "cancelled"}]
    BY <1>2 DEF Nothing
  <2> QED BY <1>1, <1>2, <2>1, <2>2 DEF PageTypes, Places
<1>8. Begun /\ PlanInv
    BY <1>1 DEF Begun, PlanInv
<1> QED BY <1>4, <1>5, <1>6, <1>7, <1>8 DEF IInv, TurnInv

\* Every step keeps the invariant.
LEMMA StepKeeps == ASSUME IInv, [Next]_vars PROVE IInv'
BY PenKeeps, PreaskKeeps, CommitKeeps, HeartbeatKeeps, FirstEventKeeps, FirstTimesOutKeeps,
   TickStreamKeeps, TickReplyKeeps, AbandonKeeps, WorkKeeps, StutterKeeps DEF Next

\* The invariant always holds.
LEMMA Inductive == Spec => []IInv
<1>1. Init => IInv
    BY InitInv
<1>2. IInv /\ [Next]_vars => IInv'
    BY StepKeeps
<1> QED BY <1>1, <1>2, PTL DEF Spec
\* Text that did not fit, with its mark at the end.
LEMMA Marked ==
    ASSUME NEW s \in Seq(Nat), NEW e \in Nat, NEW t \in Seq(Nat), t = Append(s, e)
    PROVE  /\ t # <<>> /\ Len(t) = Len(s) + 1 /\ t[Len(s) + 1] = e
           /\ SubSeq(t, 1, Len(s)) = s
<1>1. /\ t # <<>> /\ Len(t) = Len(s) + 1 /\ t[Len(s) + 1] = e
      /\ \A i \in 1..Len(s) : t[i] = s[i]
    BY AppendProperties
<1>2. SubSeq(t, 1, Len(s)) = s
    BY <1>1
<1> QED BY <1>1, <1>2

\* What is drawn when nothing is left to draw.
LEMMA DrawnWhole ==
    ASSUME IInv, page = "visible", ~lost
    PROVE  \/ ~plan.truncated /\ plan.drawn = Text
           \/ /\ plan.truncated /\ plan.drawn # <<>>
              /\ plan.drawn[Len(plan.drawn)] = Ellipsis
              /\ Prefix(SubSeq(plan.drawn, 1, Len(plan.drawn) - 1), Text)
<1>1. Shaped(plan, Text, lost) /\ Finished(plan, FALSE) /\ reply \in Seq(Nat)
    BY DEF IInv, PlanInv, PageTypes
<1>2. PICK text \in Seq(Nat) : text = Text
  <2>1. <<Excuse>> \in Seq(Nat)
    BY DEF Excuse
  <2> QED BY <2>1, <1>1 DEF Text
<1>3. plan.strokes = <<>> /\ ~plan.job.running /\ ~plan.buffering
    BY <1>1 DEF Finished
<1>4. plan # Streaming(text)
    BY <1>3 DEF Streaming, Plan
<1>5. plan # Immediate(text)
    BY <1>3 DEF Immediate, Plan, Job
<1>6. Laid(plan, text) /\ plan \in PlanType
    BY <1>1, <1>2, <1>4, <1>5 DEF Shaped
<1>7. PICK drawn \in Seq(Nat) : drawn = plan.drawn
    BY <1>6 DEF PlanType
<1>8. plan.drawn \o plan.strokes = drawn
    BY <1>3, <1>7, ConcatEmptySeq
<1>9. CASE ~plan.truncated
    BY <1>2, <1>6, <1>7, <1>8, <1>9 DEF Laid
<1>10. CASE plan.truncated
  <2>1. PICK k \in 0..(Len(text) - 1) : drawn = Append(SubSeq(text, 1, k), Ellipsis)
    BY <1>6, <1>8, <1>10 DEF Laid
  <2>2. PICK head \in Seq(Nat) : head = SubSeq(text, 1, k) /\ Len(head) = k /\ k <= Len(text)
    <3>1. k \in Nat /\ k <= Len(text) /\ Len(text) \in Nat /\ \A i \in 1..k : text[i] \in Nat
      OBVIOUS
    <3>2. SubSeq(text, 1, k) \in Seq(Nat) /\ Len(SubSeq(text, 1, k)) = IF 1 <= k THEN k - 1 + 1 ELSE 0
      BY <3>1, SubSeqProperties
    <3>3. (IF 1 <= k THEN k - 1 + 1 ELSE 0) = k
      BY <3>1
    <3> QED BY <3>1, <3>2, <3>3
  <2>3. drawn # <<>> /\ Len(drawn) = k + 1 /\ drawn[k + 1] = Ellipsis
        /\ SubSeq(drawn, 1, k) = head
    <3>1. PICK mark \in Nat : mark = Ellipsis
      BY DEF Ellipsis
    <3>2. drawn = Append(head, mark)
      BY <2>1, <2>2, <3>1
    <3>3. /\ drawn # <<>> /\ Len(drawn) = Len(head) + 1 /\ drawn[Len(head) + 1] = mark
          /\ SubSeq(drawn, 1, Len(head)) = head
      BY <3>2, Marked
    <3> QED BY <2>2, <3>1, <3>3
  <2>5. Prefix(head, text)
    BY <2>2 DEF Prefix
  <2>6. Len(drawn) - 1 = k
    BY <2>3
  <2> QED BY <1>2, <1>7, <1>10, <2>3, <2>5, <2>6
<1> QED BY <1>9, <1>10

\* Every variable has its type, and a receiver exists exactly while the
\* speculative slot or the state holds it (OracleController, state_loop.rs).
THEOREM TypesAreKept == Spec => []TypeOK
<1>1. IInv => TypeOK
  <2> SUFFICES ASSUME IInv PROVE TypeOK
    OBVIOUS
  <2>1. Seq(StreamEvent) \subseteq Seq(Event)
    BY SeqMonotonic DEF StreamEvent
  <2>2. chan \in [Requests -> Seq(Event)]
    BY <2>1 DEF IInv, TurnInv, TurnTypes
  <2> QED BY <2>2 DEF IInv, TurnInv, TurnTypes, PageTypes, Places, PlanType, TypeOK
<1> QED BY <1>1, Inductive, PTL

\* A lane's permit is taken exactly while one worker lives in the lane
\* (AgentWorkers, Permit), across the hand-over to the turn's thread.
THEOREM LanesAreAlwaysExclusive == Spec => []LanesAreExclusive
<1>1. IInv => LanesAreExclusive
    BY DEF IInv, TurnInv
<1> QED BY <1>1, Inductive, PTL

\* No directive is left in the channel of a turn whose reply has begun
\* (route_first with consume_reply_event).
THEOREM DirectivesAlwaysComeFirst == Spec => []DirectivesComeFirst
<1>1. IInv => DirectivesComeFirst
    BY DEF IInv, Begun, Free, Directive, DirectivesComeFirst
<1> QED BY <1>1, Inductive, PTL

\* A complete reply is on paper as a whole, or its beginning and the mark for
\* the rest (recenter_undrawn_reply, poll_reply_layout, ReplyController::tick).
THEOREM DrawnIsAlwaysTheReply == Spec => []DrawnIsTheReply
<1>1. IInv => DrawnIsTheReply
    BY DrawnWhole DEF DrawnIsTheReply, Text
<1> QED BY <1>1, Inductive, PTL
=============================================================================
