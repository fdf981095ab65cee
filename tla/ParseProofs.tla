------------------------------ MODULE ParseProofs ------------------------------
(***************************************************************************)
(* ReplyIsItsSpan, NoLeftRecursion and TheParsersAgree for every grammar   *)
(* whose nodes meet the conditions that MCParse finds true of all grammars *)
(* of the library, and for every input.                                    *)
(***************************************************************************)
EXTENDS ParseAst, TLAPS, WellFoundedInduction

CONSTANTS
  Nullable,   \* those that may match the empty text, at least
  Rank        \* a number for each that goes down with its left calls

-----------------------------------------------------------------------------
(* White space and spans. *)

LEMMA SkipWsStops ==
  ASSUME End \in Nat, NEW p \in 1 .. End
  PROVE  /\ SkipWs(p) \in p .. End
         /\ \A i \in p .. SkipWs(p) - 1 : Blank(i)
         /\ SkipWs(p) = End \/ ~Blank(SkipWs(p))
<1>. DEFINE stops == {q \in p .. End : q = End \/ ~Blank(q)}
            good(q) == /\ \A i \in p .. q - 1 : Blank(i)
                       /\ q = End \/ ~Blank(q)
<1>1. stops \in SUBSET Nat /\ stops # {}
  OBVIOUS
<1>2. PICK q \in stops : \A i \in stops : ~(<<i, q>> \in OpToRel(<, Nat))
  BY <1>1, NatLessThanWellFounded, WFMin
<1>3. \A i \in stops : ~(i < q)
  BY <1>1, <1>2 DEF OpToRel
<1>4. q \in p .. End /\ good(q)
  BY <1>3
<1>. HIDE DEF good, stops
<1>5. SkipWs(p) = CHOOSE r \in p .. End : good(r)
  BY DEF SkipWs, good
<1>6. SkipWs(p) \in p .. End /\ good(SkipWs(p))
  BY <1>4, <1>5
<1>. QED
  BY <1>6 DEF good

LEMMA EmptySpan ==
  ASSUME NEW a \in Nat, NEW b \in Nat, \A i \in a .. b - 1 : Blank(i)
  PROVE  IsSpan(<<>>, a, b)
BY DEF IsSpan

LEMMA SpansInARow ==
  ASSUME NEW a \in Nat, NEW b \in a .. End, NEW c \in b .. End, End \in Nat,
         NEW t \in Seq(Nat), NEW u \in Seq(Nat), IsSpan(t, a, b), IsSpan(u, b, c)
  PROVE  IsSpan(t \o u, a, c)
<1>. DEFINE w == t \o u
<1>1. /\ Len(t) \in Nat /\ Len(u) \in Nat /\ DOMAIN w = 1 .. Len(t) + Len(u)
      /\ DOMAIN t = 1 .. Len(t) /\ DOMAIN u = 1 .. Len(u)
      /\ \A i \in 1 .. Len(t) : w[i] = t[i]
      /\ \A i \in Len(t) + 1 .. Len(t) + Len(u) : w[i] = u[i - Len(t)]
  OBVIOUS
<1>2. /\ \A i \in 1 .. Len(t) : t[i] \in a .. b - 1 /\ ~Blank(t[i])
      /\ \A i \in 1 .. Len(u) : u[i] \in b .. c - 1 /\ ~Blank(u[i])
      /\ \A p \in a .. b - 1 : ~Blank(p) => \E i \in 1 .. Len(t) : t[i] = p
      /\ \A p \in b .. c - 1 : ~Blank(p) => \E i \in 1 .. Len(u) : u[i] = p
  <2>1. /\ \A i \in 1 .. Len(t) : t[i] \in {p \in a .. b - 1 : ~Blank(p)}
        /\ \A i \in 1 .. Len(u) : u[i] \in {p \in b .. c - 1 : ~Blank(p)}
    BY DEF IsSpan
  <2>2. /\ \A p \in a .. b - 1 : ~Blank(p) => p \in {t[i] : i \in DOMAIN t}
        /\ \A p \in b .. c - 1 : ~Blank(p) => p \in {u[i] : i \in DOMAIN u}
    BY DEF IsSpan
  <2>. QED
    BY <2>1, <2>2
<1>. HIDE DEF w
<1>3. ASSUME NEW i \in DOMAIN w, NEW j \in DOMAIN w, i < j PROVE w[i] < w[j]
  <2>1. CASE j <= Len(t)
    BY <1>1, <1>3, <2>1 DEF IsSpan
  <2>2. CASE i > Len(t)
    <3>1. i - Len(t) \in DOMAIN u /\ j - Len(t) \in DOMAIN u /\ i - Len(t) < j - Len(t)
      BY <1>1, <1>3, <2>2
    <3>2. w[i] = u[i - Len(t)] /\ w[j] = u[j - Len(t)]
      <4>1. i \in Len(t) + 1 .. Len(t) + Len(u) /\ j \in Len(t) + 1 .. Len(t) + Len(u)
        BY <1>1, <1>3, <2>2
      <4>. QED
        BY <1>1, <4>1
    <3>3. u[i - Len(t)] < u[j - Len(t)]
      BY <3>1 DEF IsSpan
    <3>. QED
      BY <3>2, <3>3
  <2>3. CASE i <= Len(t) /\ j > Len(t)
    <3>1. i \in 1 .. Len(t) /\ j \in Len(t) + 1 .. Len(t) + Len(u) /\ j - Len(t) \in 1 .. Len(u)
      BY <1>1, <2>3
    <3>2. w[i] \in a .. b - 1 /\ w[j] \in b .. c - 1
      BY <1>1, <1>2, <3>1
    <3>. QED
      BY <3>2
  <2>. QED
    BY <1>1, <2>1, <2>2, <2>3
<1>4. ASSUME NEW p \in {w[i] : i \in DOMAIN w} PROVE p \in {q \in a .. c - 1 : ~Blank(q)}
  <2>1. PICK i \in DOMAIN w : p = w[i]
    BY <1>4
  <2>2. CASE i <= Len(t)
    BY <1>1, <1>2, <2>1, <2>2
  <2>3. CASE i > Len(t)
    BY <1>1, <1>2, <2>1, <2>3
  <2>. QED
    BY <1>1, <2>2, <2>3
<1>5. ASSUME NEW p \in a .. c - 1, ~Blank(p) PROVE p \in {w[i] : i \in DOMAIN w}
  <2>1. CASE p < b
    <3>1. PICK i \in 1 .. Len(t) : t[i] = p
      BY <1>2, <1>5, <2>1
    <3>2. i \in DOMAIN w /\ w[i] = p
      BY <1>1, <3>1
    <3>. QED
      BY <3>2
  <2>2. CASE p >= b
    <3>1. PICK i \in 1 .. Len(u) : u[i] = p
      BY <1>2, <1>5, <2>2
    <3>2. i + Len(t) \in DOMAIN w /\ (i + Len(t)) - Len(t) = i /\ i + Len(t) \in Len(t) + 1 .. Len(t) + Len(u)
      BY <1>1
    <3>3. w[i + Len(t)] = p
      BY <1>1, <3>1, <3>2
    <3>. QED
      BY <3>2, <3>3
  <2>. QED
    BY <2>1, <2>2
<1>6. IsSpan(w, a, c)
  BY <1>3, <1>4, <1>5 DEF IsSpan
<1>. QED
  BY <1>6 DEF w

\* n characters that are not white space, behind white space.
LEMMA SpanOfCharacters ==
  ASSUME NEW a \in Nat, NEW at \in Nat, NEW n \in Nat, a <= at,
         \A i \in a .. at - 1 : Blank(i), \A i \in at .. at + n - 1 : ~Blank(i)
  PROVE  /\ [i \in 1 .. n |-> at + i - 1] \in Seq(Nat)
         /\ IsSpan([i \in 1 .. n |-> at + i - 1], a, at + n)
<1>. DEFINE t == [i \in 1 .. n |-> at + i - 1]
<1>1. \A i \in 1 .. n : t[i] = at + i - 1 /\ t[i] \in Nat
  OBVIOUS
<1>2. t \in Seq(Nat) /\ DOMAIN t = 1 .. n
  BY <1>1
<1>3. ASSUME NEW p \in a .. at + n - 1, ~Blank(p) PROVE p \in {t[i] : i \in 1 .. n}
  <2>1. p >= at /\ p - at + 1 \in 1 .. n
    BY <1>3
  <2>2. t[p - at + 1] = p
    BY <1>1, <2>1
  <2>. QED
    BY <2>1, <2>2
<1>4. \A i \in 1 .. n : t[i] \in a .. at + n - 1 /\ ~Blank(t[i])
  BY <1>1
<1>. HIDE DEF t
<1>5. {t[i] : i \in DOMAIN t} = {p \in a .. at + n - 1 : ~Blank(p)}
  BY <1>2, <1>3, <1>4
<1>6. IsSpan(t, a, at + n)
  BY <1>1, <1>2, <1>5 DEF IsSpan
<1>. QED
  BY <1>2, <1>6 DEF t
-----------------------------------------------------------------------------
(* The invariant. *)

Frames == [node : Nodes, backup : 1 .. End, child : Nat, loop_backup : Nat, text : Seq(Nat)]

Op(c) == Term(c.node).op
InLoop(c) == Op(c) \in {"zero_or_more", "one_or_more"} /\ c.child = 2
AtStart(c) == Op(c) \in {"rule", "or", "zero_or_one"} \/ (Op(c) = "one_or_more" /\ c.child = 1)

\* The node that a frame has called.
Called(c) ==
  CASE Op(c) = "rule" -> Root(Term(c.node).grammar, Term(c.node).rule)
    [] Op(c) \in {"and", "or", "not"} -> Child(c.node, c.child)
    [] OTHER -> Child(c.node, 1)

\* The literals are no concern of the order of the calls.
Spans(text, from, to) == LiteralsAreSolid(Nodes) => IsSpan(text, from, to)

\* What holds of a frame that has called a child at a position.
Waits(c, at) ==
  /\ at \in c.backup .. End
  /\ Op(c) \in Combinators \cup {"rule"} /\ Called(c) \in Nodes
  /\ Op(c) \in {"and", "or", "not"} => c.child \in 1 .. Arity(Term(c.node))
  /\ Op(c) \in {"zero_or_more", "one_or_more"} => AtStart(c) \/ InLoop(c)
  /\ AtStart(c) => at = c.backup
  /\ Op(c) = "and" \/ InLoop(c) => Spans(c.text, c.backup, at)
  /\ InLoop(c) => c.loop_backup = at
  /\ at = c.backup =>
       /\ Op(c) \in {"and", "not"} => \A i \in 1 .. c.child - 1 : Child(c.node, i) \in Nullable
       /\ Op(c) = "one_or_more" /\ InLoop(c) => Child(c.node, 1) \in Nullable

\* A reply is for the top frame, and is a span that it can go on from.
Replied ==
  /\ reply.kind \in {"null", "node"} /\ reply.from \in 1 .. begin /\ reply.text \in Seq(Nat)
  /\ GotNull => begin = reply.from
  /\ GotNode => Spans(reply.text, reply.from, begin)
  /\ stack # <<>> =>
       /\ Waits(Top, reply.from)
       /\ GotNode /\ begin = reply.from => Called(Top) \in Nullable

CallersWait ==
  \A i \in 2 .. Len(stack) :
    Waits(stack[i], stack[i - 1].backup) /\ stack[i - 1].node = Called(stack[i])

SpanInv ==
  /\ sample \in Samples
  /\ begin \in 1 .. End
  /\ stack \in Seq(Frames)
  /\ CallersWait
  /\ \/ reply = NoReply /\ stack # <<>> /\ Top.child = 0 /\ Top.backup = begin
     \/ Replied

LEMMA SameSample ==
  ASSUME sample' = sample
  PROVE  /\ End' = End /\ Frames' = Frames
         /\ \A t, a, b : Spans(t, a, b)' = Spans(t, a, b)
         /\ \A c, at : Waits(c, at)' = Waits(c, at)
<1>1. End' = End /\ \A i : Blank(i)' = Blank(i)
  BY DEF End, Input, Blank
<1>2. Frames' = Frames
  BY <1>1 DEF Frames
<1>3. ASSUME NEW t, NEW a, NEW b PROVE Spans(t, a, b)' = Spans(t, a, b)
  <2>1. {p \in a .. b - 1 : ~Blank(p)}' = {p \in a .. b - 1 : ~Blank(p)}
    BY <1>1
  <2>. QED
    BY <2>1 DEF Spans, IsSpan
<1>4. ASSUME NEW c, NEW at PROVE Waits(c, at)' = Waits(c, at)
  BY <1>1, <1>3 DEF Waits
<1>. QED
  BY <1>1, <1>2, <1>3, <1>4

LEMMA PopKeepsSpans ==
  ASSUME SpanInv, End \in Nat, stack # <<>>, sample' = sample,
         NEW kind \in {"null", "node"}, NEW at \in Top.backup .. End, NEW text \in Seq(Nat),
         Return(kind, at, text),
         kind = "null" => at = Top.backup,
         kind = "node" => /\ Spans(text, Top.backup, at)
                          /\ at = Top.backup => Top.node \in Nullable
  PROVE  SpanInv'
<1>1. /\ stack' = Tail(stack) /\ begin' = at
      /\ reply' = [kind |-> kind, from |-> Top.backup, text |-> text]
  BY DEF Return
<1>2. /\ stack \in Seq(Frames) /\ Len(stack) \in Nat \ {0} /\ Top = stack[1]
      /\ Top \in Frames /\ Top.backup \in 1 .. End
  <2>1. stack \in Seq(Frames) /\ Len(stack) \in Nat \ {0} /\ Top = stack[1]
    BY DEF SpanInv, Top
  <2>2. Top \in Frames
    BY <2>1
  <2>. QED
    BY <2>1, <2>2 DEF Frames
<1>3. /\ stack' \in Seq(Frames) /\ Len(stack') = Len(stack) - 1
      /\ \A i \in 1 .. Len(stack') : stack'[i] = stack[i + 1]
  BY <1>1, <1>2
<1>4. ASSUME NEW i \in 2 .. Len(stack')
      PROVE  Waits(stack'[i], stack'[i - 1].backup) /\ stack'[i - 1].node = Called(stack'[i])
  <2>1. i + 1 \in 2 .. Len(stack) /\ (i + 1) - 1 = i /\ i - 1 \in 1 .. Len(stack') /\ (i - 1) + 1 = i
    BY <1>2, <1>3
  <2>2. stack'[i] = stack[i + 1] /\ stack'[i - 1] = stack[i]
    BY <1>3, <2>1
  <2>. QED
    BY <2>1, <2>2 DEF SpanInv, CallersWait
<1>5. CallersWait'
  BY <1>4, SameSample DEF CallersWait
<1>6. stack' # <<>> => /\ Top' = stack[2] /\ Waits(stack[2], Top.backup)
                       /\ Top.node = Called(stack[2])
  BY <1>2, <1>3 DEF SpanInv, CallersWait, Top
<1>7. Replied'
  BY <1>1, <1>2, <1>6, SameSample DEF Replied, GotNull, GotNode, Called, Op
<1>. QED
  BY <1>1, <1>2, <1>3, <1>5, <1>7, SameSample DEF SpanInv

LEMMA TwoInFront ==
  ASSUME NEW S, NEW a \in S, NEW b \in S, NEW s \in Seq(S), s # <<>>
  PROVE  LET t == <<a, b>> \o Tail(s) IN
         /\ t \in Seq(S) /\ Len(t) = Len(s) + 1 /\ t[1] = a /\ t[2] = b
         /\ \A i \in 3 .. Len(t) : t[i] = s[i - 1]
OBVIOUS

LEMMA CallKeepsSpans ==
  ASSUME SpanInv, End \in Nat, stack # <<>>, sample' = sample,
         NEW caller \in Frames, NEW at \in 1 .. End, NEW node,
         stack' = <<Frame(node, at), caller>> \o Tail(stack), begin' = at, reply' = NoReply,
         caller.node = Top.node, caller.backup = Top.backup,
         Waits(caller, at), node = Called(caller)
  PROVE  SpanInv'
<1>1. /\ stack \in Seq(Frames) /\ Len(stack) \in Nat \ {0} /\ Top = stack[1]
      /\ Tail(stack) \in Seq(Frames) /\ Len(Tail(stack)) = Len(stack) - 1
      /\ \A i \in 1 .. Len(stack) - 1 : Tail(stack)[i] = stack[i + 1]
  BY DEF SpanInv, Top
<1>2. Frame(node, at) \in Frames
  BY DEF Frame, Frames, Waits
<1>3. /\ stack' \in Seq(Frames) /\ Len(stack') = Len(stack) + 1
      /\ stack'[1] = Frame(node, at) /\ stack'[2] = caller
      /\ \A i \in 3 .. Len(stack') : stack'[i] = stack[i - 1]
  BY <1>1, <1>2, TwoInFront
<1>4. ASSUME NEW i \in 2 .. Len(stack')
      PROVE  Waits(stack'[i], stack'[i - 1].backup) /\ stack'[i - 1].node = Called(stack'[i])
  <2>1. CASE i = 2
    BY <1>3, <2>1 DEF Frame
  <2>2. CASE i > 2
    <3>1. /\ i - 1 \in 2 .. Len(stack) /\ (i - 1) - 1 \in 1 .. Len(stack) /\ i \in 3 .. Len(stack')
      BY <1>1, <1>3, <2>2
    <3>2. /\ Waits(stack[i - 1], stack[(i - 1) - 1].backup)
          /\ stack[(i - 1) - 1].node = Called(stack[i - 1])
      BY <3>1 DEF SpanInv, CallersWait
    <3>3. stack'[i] = stack[i - 1]
      BY <1>3, <3>1
    <3>4. /\ stack'[i - 1].backup = stack[(i - 1) - 1].backup
          /\ stack'[i - 1].node = stack[(i - 1) - 1].node
      <4>1. CASE i = 3
        BY <1>1, <1>3, <4>1
      <4>2. CASE i > 3
        BY <1>3, <3>1, <4>2
      <4>. QED
        BY <2>2, <4>1, <4>2
    <3>. QED
      BY <3>2, <3>3, <3>4
  <2>. QED
    BY <2>1, <2>2
<1>5. CallersWait'
  BY <1>4, SameSample DEF CallersWait
<1>6. /\ begin' \in 1 .. End /\ reply' = NoReply /\ stack' # <<>>
      /\ Top' = Frame(node, at)
  BY <1>1, <1>3 DEF Top
<1>7. Top'.child = 0 /\ Top'.backup = begin'
  BY <1>6 DEF Frame
<1>. QED
  BY <1>3, <1>5, <1>6, <1>7, SameSample DEF SpanInv, NoReply

LEMMA TheTop ==
  ASSUME SpanInv, AreNodes(Nodes), stack # <<>>
  PROVE  /\ End \in Nat /\ begin \in 1 .. End
         /\ Top \in Frames /\ Top.node \in Nodes /\ Top.backup \in 1 .. End
         /\ reply = NoReply => Top.backup = begin /\ Top.child = 0
         /\ GotNull \/ GotNode => Replied
         /\ Op(Top) \notin Combinators \cup {"rule"} => reply = NoReply
<1>1. End \in Nat
  BY DEF SpanInv, AreNodes, End, Input
<1>2. Top = stack[1] /\ stack[1] \in Frames
  BY DEF SpanInv, Top
<1>3. Top \in Frames /\ Top.node \in Nodes /\ Top.backup \in 1 .. End
  BY <1>2 DEF Frames
<1>4. reply = NoReply => ~Replied /\ ~GotNull /\ ~GotNode
  BY DEF NoReply, Replied, GotNull, GotNode
<1>5. Replied => Op(Top) \in Combinators \cup {"rule"}
  BY DEF Replied, Waits
<1>. QED
  BY <1>1, <1>3, <1>4, <1>5 DEF SpanInv

LEMMA NullKeepsSpans ==
  ASSUME SpanInv, AreNodes(Nodes), stack # <<>>, sample' = sample, ReturnNull
  PROVE  SpanInv'
<1>1. Top.backup \in Top.backup .. End /\ <<>> \in Seq(Nat)
  BY TheTop
<1>2. Return("null", Top.backup, <<>>)
  BY DEF ReturnNull
<1>. QED
  BY <1>1, <1>2, TheTop, PopKeepsSpans

LEMMA CharacterKeepsSpans ==
  ASSUME SpanInv, AreNodes(Nodes), stack # <<>>, sample' = sample, ParseCharacter(Term(Top.node))
  PROVE  SpanInv'
<1>1. reply = NoReply /\ Top.backup = begin
  BY TheTop DEF ParseCharacter, Op, Combinators
<1>. DEFINE at == SkipWs(begin)
<1>2. /\ at \in begin .. End /\ \A i \in begin .. at - 1 : Blank(i)
      /\ at = End \/ ~Blank(at)
  BY TheTop, SkipWsStops
<1>3. \/ at # End /\ ReturnNode(at + 1, <<at>>)
      \/ ReturnNull
  BY DEF ParseCharacter
<1>. HIDE DEF at
<1>4. CASE at # End /\ ReturnNode(at + 1, <<at>>)
  <2>1. at + 1 \in begin .. End /\ at + 1 # begin
    BY <1>2, <1>4, TheTop
  <2>2. <<at>> \in Seq(Nat) /\ IsSpan(<<at>>, begin, at + 1)
    <3>1. at \in Nat /\ DOMAIN <<at>> = {1} /\ <<at>>[1] = at
      BY <1>2, TheTop
    <3>2. {<<at>>[i] : i \in DOMAIN <<at>>} = {p \in begin .. (at + 1) - 1 : ~Blank(p)}
      BY <1>2, <1>4, <3>1, TheTop
    <3>. QED
      BY <3>1, <3>2 DEF IsSpan
  <2>. QED
    BY <1>1, <1>4, <2>1, <2>2, TheTop, PopKeepsSpans DEF ReturnNode, Spans
<1>5. CASE ReturnNull
  BY <1>5, NullKeepsSpans
<1>. QED
  BY <1>3, <1>4, <1>5

LEMMA StringKeepsSpans ==
  ASSUME SpanInv, AreNodes(Nodes), AreNullable(Nodes, Nullable),
         stack # <<>>, sample' = sample, ParseString(Term(Top.node))
  PROVE  SpanInv'
<1>1. reply = NoReply /\ Top.backup = begin
  BY TheTop DEF ParseString, Op, Combinators
<1>. DEFINE at == SkipWs(begin)
            lit == Term(Top.node).tokens
            matched == [i \in 1 .. Len(lit) |-> at + i - 1]
<1>2. /\ at \in begin .. End /\ \A i \in begin .. at - 1 : Blank(i)
      /\ at = End \/ ~Blank(at)
  BY TheTop, SkipWsStops
<1>3. \/ /\ at + Len(lit) <= End
         /\ \A i \in 1 .. Len(lit) : char_match(Input[at + i - 1], lit[i], sample.ignore_case)
         /\ ReturnNode(at + Len(lit), matched)
      \/ ReturnNull
  BY DEF ParseString
<1>4. Len(lit) \in Nat /\ Term(Top.node).op = "string"
  BY TheTop DEF AreNodes, ParseString
<1>5. LiteralsAreSolid(Nodes) => Solid(lit, sample)
  BY <1>4, TheTop DEF LiteralsAreSolid, SpanInv
<1>6. Len(lit) = 0 => Top.node \in Nullable
  BY <1>4, TheTop DEF AreNullable, MayBeEmpty
<1>. HIDE DEF at, lit
<1>7. CASE /\ at + Len(lit) <= End
           /\ \A i \in 1 .. Len(lit) : char_match(Input[at + i - 1], lit[i], sample.ignore_case)
           /\ ReturnNode(at + Len(lit), matched)
  <2>1. /\ at + Len(lit) \in begin .. End
        /\ at + Len(lit) = begin => Len(lit) = 0
    BY <1>2, <1>4, <1>7, TheTop
  <2>2. ASSUME LiteralsAreSolid(Nodes), NEW p \in at .. at + Len(lit) - 1 PROVE ~Blank(p)
    <3>1. /\ p - at + 1 \in 1 .. Len(lit) /\ at + (p - at + 1) - 1 = p
          /\ 1 \in 1 .. Len(lit) /\ at + 1 - 1 = at
      BY <1>2, <1>4, <2>2, TheTop
    <3>2. /\ char_match(Input[p], lit[p - at + 1], sample.ignore_case)
          /\ char_match(Input[at], lit[1], sample.ignore_case)
      BY <1>7, <3>1
    <3>3. at \in 1 .. Len(Input) /\ at # End
      BY <1>2, <1>4, <1>7, <3>1, TheTop DEF End, SpanInv, AreNodes, Input
    <3>4. ~Blank(at)
      BY <1>2, <3>3
    <3>. QED
      BY <1>5, <2>2, <3>1, <3>2, <3>3, <3>4 DEF Solid, Blank, Input
  <2>3. matched \in Seq(Nat) /\ Spans(matched, begin, at + Len(lit))
    <3>1. begin \in Nat /\ at \in Nat /\ begin <= at
      BY <1>2, TheTop
    <3>2. matched \in Seq(Nat)
      BY <1>4, <3>1
    <3>3. LiteralsAreSolid(Nodes) => IsSpan(matched, begin, at + Len(lit))
      BY <1>2, <1>4, <2>2, <3>1, SpanOfCharacters
    <3>. QED
      BY <3>2, <3>3 DEF Spans
  <2>. HIDE DEF matched
  <2>. QED
    BY <1>1, <1>6, <1>7, <2>1, <2>3, TheTop, PopKeepsSpans DEF ReturnNode
<1>8. CASE ReturnNull
  BY <1>8, NullKeepsSpans
<1>. QED
  BY <1>3, <1>7, <1>8

LEMMA CallAsKeepsSpans ==
  ASSUME SpanInv, AreNodes(Nodes), stack # <<>>, sample' = sample,
         NEW mark, NEW i, NEW at, NEW text,
         mark \in Nat, at \in Top.backup .. End, text \in Seq(Nat),
         CallAs(mark, i, at, text),
         \A c \in Frames :
           c.node = Top.node /\ c.backup = Top.backup /\ c.child = mark /\ c.loop_backup = at
             /\ c.text = text
             => Waits(c, at) /\ Called(c) = Child(Top.node, i)
  PROVE  SpanInv'
<1>1. PICK c : c = [Top EXCEPT !.child = mark, !.loop_backup = at, !.text = text]
  OBVIOUS
<1>2. /\ c \in Frames /\ c.node = Top.node /\ c.backup = Top.backup
      /\ c.child = mark /\ c.loop_backup = at /\ c.text = text
  <2>1. at \in Nat
    BY TheTop
  <2>. QED
    BY <1>1, <2>1, TheTop DEF Frames
<1>3. Waits(c, at) /\ Child(Top.node, i) = Called(c)
  BY <1>1, <1>2
<1>4. /\ stack' = <<Frame(Child(Top.node, i), at), c>> \o Tail(stack)
      /\ begin' = at /\ reply' = NoReply
  BY <1>1 DEF CallAs
<1>5. at \in 1 .. End
  BY TheTop
<1>. QED
  BY <1>2, <1>3, <1>4, <1>5, TheTop, CallKeepsSpans

\* A first child, or one that follows nothing.
LEMMA CallKeepsSpansOfNothing ==
  ASSUME SpanInv, AreNodes(Nodes), stack # <<>>, sample' = sample,
         NEW i, NEW at, i \in Nat, at \in Top.backup .. End, Call(i, at, <<>>),
         \A c \in Frames :
           c.node = Top.node /\ c.backup = Top.backup /\ c.child = i
             => Waits(c, at) /\ Called(c) = Child(Top.node, i)
  PROVE  SpanInv'
<1>1. <<>> \in Seq(Nat)
  OBVIOUS
<1>2. PICK text : text = <<>>
  OBVIOUS
<1>3. text \in Seq(Nat)
  BY <1>1, <1>2
<1>4. CallAs(i, i, at, text)
  BY <1>2 DEF Call
<1>. QED
  BY <1>3, <1>4, CallAsKeepsSpans

\* A rule calls what implements it, and has its answer for its own.
LEMMA RuleKeepsSpans ==
  ASSUME SpanInv, AreNodes(Nodes), AreNullable(Nodes, Nullable),
         stack # <<>>, sample' = sample, ParseRule(Term(Top.node))
  PROVE  SpanInv'
<1>. DEFINE term == Term(Top.node)
            callee == Root(term.grammar, term.rule)
<1>1. Op(Top) = "rule" /\ callee \in Nodes
  BY TheTop DEF ParseRule, Op, AreNodes
<1>2. callee \in Nullable => Top.node \in Nullable
  BY <1>1, TheTop DEF AreNullable, MayBeEmpty, Op
<1>3. CASE Entered /\ stack' = <<Frame(callee, begin), [Top EXCEPT !.child = 1]>> \o Tail(stack)
                   /\ UNCHANGED <<begin, reply>>
  <2>1. PICK c : c = [Top EXCEPT !.child = 1]
    OBVIOUS
  <2>2. c \in Frames /\ c.node = Top.node /\ c.backup = Top.backup
    BY <2>1, TheTop DEF Frames
  <2>3. begin = Top.backup /\ reply = NoReply
    BY <1>3, TheTop DEF Entered
  <2>4. Called(c) = callee
    BY <1>1, <2>2 DEF Called, Op
  <2>5. Waits(c, begin)
    BY <1>1, <2>2, <2>3, <2>4, TheTop DEF Waits, AtStart, InLoop, Op
  <2>. QED
    BY <1>3, <2>1, <2>2, <2>3, <2>4, <2>5, TheTop, CallKeepsSpans
<1>4. CASE GotNull /\ ReturnNull
  BY <1>4, NullKeepsSpans
<1>5. CASE GotNode /\ ReturnNode(begin, reply.text)
  <2>1. reply.from = Top.backup /\ Called(Top) = callee
    BY <1>1, <1>5, TheTop DEF Replied, Waits, AtStart, Called, Op
  <2>. QED
    BY <1>2, <1>5, <2>1, TheTop, PopKeepsSpans DEF ReturnNode, Replied
<1>. QED
  BY <1>3, <1>4, <1>5 DEF ParseRule

LEMMA AddedIsASpan ==
  ASSUME SpanInv, AreNodes(Nodes), stack # <<>>, GotNode, Op(Top) = "and" \/ InLoop(Top)
  PROVE  Added \in Seq(Nat) /\ Spans(Added, Top.backup, begin)
<1>1. /\ Spans(Top.text, Top.backup, reply.from) /\ Spans(reply.text, reply.from, begin)
      /\ reply.from \in Top.backup .. End /\ reply.from \in 1 .. begin
      /\ Top.text \in Seq(Nat) /\ reply.text \in Seq(Nat)
  BY TheTop DEF Replied, Waits, Frames
<1>2. Top.backup \in Nat /\ begin \in reply.from .. End
  BY <1>1, TheTop
<1>3. LiteralsAreSolid(Nodes) => IsSpan(Top.text \o reply.text, Top.backup, begin)
  BY <1>1, <1>2, TheTop, SpansInARow DEF Spans
<1>. QED
  BY <1>1, <1>3 DEF Added, Spans

LEMMA AndKeepsSpans ==
  ASSUME SpanInv, AreNodes(Nodes), AreNullable(Nodes, Nullable),
         stack # <<>>, sample' = sample, ParseAnd(Term(Top.node))
  PROVE  SpanInv'
<1>. DEFINE term == Term(Top.node)
            arity == Arity(term)
<1>1. /\ Op(Top) = "and" /\ arity \in Nat
      /\ \A i \in 1 .. arity : Child(Top.node, i) \in Nodes
  BY TheTop DEF ParseAnd, Op, AreNodes, Combinators
<1>2. (\A i \in 1 .. arity : Child(Top.node, i) \in Nullable) => Top.node \in Nullable
  BY <1>1, TheTop DEF AreNullable, MayBeEmpty, Op
<1>3. ASSUME Entered PROVE begin = Top.backup /\ <<>> \in Seq(Nat) /\ Spans(<<>>, begin, begin)
  BY <1>3, TheTop, EmptySpan DEF Entered, Spans
<1>4. ASSUME GotNode
      PROVE  /\ reply.from \in Top.backup .. End /\ begin \in reply.from .. End
             /\ Top.child \in 1 .. arity /\ Called(Top) = Child(Top.node, Top.child)
             /\ begin = Top.backup => \A i \in 1 .. Top.child : Child(Top.node, i) \in Nullable
  <2>1. /\ reply.from \in Top.backup .. End /\ begin \in reply.from .. End
        /\ Top.child \in 1 .. arity
        /\ reply.from = Top.backup => \A i \in 1 .. Top.child - 1 : Child(Top.node, i) \in Nullable
        /\ begin = reply.from => Called(Top) \in Nullable
    BY <1>1, <1>4, TheTop DEF Replied, Waits, Op
  <2>2. Called(Top) = Child(Top.node, Top.child)
    BY <1>1 DEF Called, Op
  <2>. QED
    BY <1>1, <2>1, <2>2, TheTop
<1>5. ASSUME NEW i \in 1 .. arity, NEW at \in Top.backup .. End, NEW text \in Seq(Nat),
             Spans(text, Top.backup, at), Call(i, at, text),
             at = Top.backup => \A j \in 1 .. i - 1 : Child(Top.node, j) \in Nullable
      PROVE  SpanInv'
  <2>1. ASSUME NEW c \in Frames, c.node = Top.node, c.backup = Top.backup, c.child = i,
               c.loop_backup = at, c.text = text
        PROVE  Waits(c, at) /\ Called(c) = Child(Top.node, i)
    <3>1. Op(c) = "and" /\ Called(c) = Child(Top.node, i)
      BY <1>1, <2>1 DEF Op, Called
    <3>. QED
      BY <1>1, <1>5, <2>1, <3>1 DEF Waits, AtStart, InLoop, Combinators
  <2>. QED
    BY <1>1, <1>5, <2>1, CallAsKeepsSpans DEF Call
<1>6. CASE Entered /\ arity = 0 /\ ReturnNode(begin, <<>>)
  <2>1. /\ Return("node", Top.backup, <<>>) /\ Top.backup \in Top.backup .. End
        /\ Spans(<<>>, Top.backup, Top.backup) /\ <<>> \in Seq(Nat)
    BY <1>3, <1>6, TheTop DEF ReturnNode
  <2>2. Top.node \in Nullable
    BY <1>2, <1>6
  <2>. QED
    BY <2>1, <2>2, TheTop, PopKeepsSpans
<1>7. CASE Entered /\ arity > 0 /\ Call(1, begin, <<>>)
  <2>1. /\ begin = Top.backup /\ <<>> \in Seq(Nat) /\ Spans(<<>>, Top.backup, begin)
        /\ begin \in Top.backup .. End /\ 1 \in 1 .. arity /\ 1 .. 1 - 1 = {}
    BY <1>1, <1>3, <1>7, TheTop
  <2>. QED
    BY <1>5, <1>7, <2>1
<1>8. CASE GotNull /\ ReturnNull
  BY <1>8, NullKeepsSpans
<1>9. CASE GotNode /\ Top.child < arity /\ Call(Top.child + 1, begin, Added)
  <2>1. Top.child + 1 \in 1 .. arity /\ begin \in Top.backup .. End /\ (Top.child + 1) - 1 = Top.child
    BY <1>1, <1>4, <1>9, TheTop
  <2>. QED
    BY <1>1, <1>4, <1>5, <1>9, <2>1, AddedIsASpan
<1>10. CASE GotNode /\ Top.child = arity /\ ReturnNode(begin, Added)
  BY <1>1, <1>2, <1>4, <1>10, TheTop, AddedIsASpan, PopKeepsSpans DEF ReturnNode
<1>. QED
  BY <1>6, <1>7, <1>8, <1>9, <1>10 DEF ParseAnd

\* A node that matched nothing, where it was called.
LEMMA NothingKeepsSpans ==
  ASSUME SpanInv, AreNodes(Nodes), stack # <<>>, sample' = sample,
         Top.node \in Nullable, ReturnNode(Top.backup, <<>>)
  PROVE  SpanInv'
<1>1. /\ Return("node", Top.backup, <<>>) /\ Top.backup \in Top.backup .. End
      /\ Spans(<<>>, Top.backup, Top.backup) /\ <<>> \in Seq(Nat)
  BY TheTop, EmptySpan DEF ReturnNode, Spans
<1>. QED
  BY <1>1, TheTop, PopKeepsSpans

\* One that takes the answer of its child for its own.
LEMMA AdoptKeepsSpans ==
  ASSUME SpanInv, AreNodes(Nodes), stack # <<>>, sample' = sample, GotNode, AtStart(Top),
         Called(Top) \in Nullable => Top.node \in Nullable, ReturnNode(begin, reply.text)
  PROVE  SpanInv'
<1>1. /\ reply.from = Top.backup /\ begin \in Top.backup .. End /\ reply.text \in Seq(Nat)
      /\ Spans(reply.text, Top.backup, begin)
      /\ begin = Top.backup => Called(Top) \in Nullable
  BY TheTop DEF Replied, Waits
<1>2. Return("node", begin, reply.text)
  BY DEF ReturnNode
<1>. QED
  BY <1>1, <1>2, TheTop, PopKeepsSpans

LEMMA OrKeepsSpans ==
  ASSUME SpanInv, AreNodes(Nodes), AreNullable(Nodes, Nullable),
         stack # <<>>, sample' = sample, ParseOr(Term(Top.node))
  PROVE  SpanInv'
<1>. DEFINE arity == Arity(Term(Top.node))
<1>1. /\ Op(Top) = "or" /\ arity \in Nat /\ arity >= 1
      /\ \A i \in 1 .. arity : Child(Top.node, i) \in Nodes
  BY TheTop DEF ParseOr, Op, AreNodes, Combinators
<1>2. \A i \in 1 .. arity : Child(Top.node, i) \in Nullable => Top.node \in Nullable
  BY <1>1, TheTop DEF AreNullable, MayBeEmpty, Op
<1>3. ASSUME GotNull \/ GotNode PROVE Top.child \in 1 .. arity
  BY <1>1, <1>3, TheTop DEF Replied, Waits, Op
<1>4. ASSUME NEW i \in 1 .. arity, Call(i, Top.backup, <<>>) PROVE SpanInv'
  <2>1. ASSUME NEW c \in Frames, c.node = Top.node, c.backup = Top.backup, c.child = i
        PROVE  Waits(c, Top.backup) /\ Called(c) = Child(Top.node, i)
    <3>1. Op(c) = "or" /\ Called(c) = Child(Top.node, i)
      BY <1>1, <2>1 DEF Op, Called
    <3>. QED
      BY <1>1, <1>4, <2>1, <3>1, TheTop DEF Waits, AtStart, InLoop, Combinators
  <2>2. i \in Nat /\ Top.backup \in Top.backup .. End
    BY <1>1, TheTop
  <2>. QED
    BY <1>4, <2>1, <2>2, CallKeepsSpansOfNothing
<1>5. CASE Entered /\ Call(1, begin, <<>>)
  <2>1. begin = Top.backup /\ 1 \in 1 .. arity
    BY <1>1, <1>5, TheTop DEF Entered
  <2>. QED
    BY <1>4, <1>5, <2>1
<1>6. CASE GotNull /\ Top.child < arity /\ Call(Top.child + 1, Top.backup, <<>>)
  <2>1. Top.child + 1 \in 1 .. arity
    BY <1>1, <1>3, <1>6
  <2>. QED
    BY <1>4, <1>6, <2>1
<1>7. CASE GotNull /\ Top.child = arity /\ ReturnNull
  BY <1>7, NullKeepsSpans
<1>8. CASE GotNode /\ ReturnNode(begin, reply.text)
  <2>1. AtStart(Top) /\ Called(Top) = Child(Top.node, Top.child)
    BY <1>1 DEF AtStart, Called, Op
  <2>. QED
    BY <1>2, <1>3, <1>8, <2>1, AdoptKeepsSpans
<1>. QED
  BY <1>5, <1>6, <1>7, <1>8 DEF ParseOr

LEMMA NotKeepsSpans ==
  ASSUME SpanInv, AreNodes(Nodes), AreNullable(Nodes, Nullable),
         stack # <<>>, sample' = sample, ParseNot(Term(Top.node))
  PROVE  SpanInv'
<1>. DEFINE arity == Arity(Term(Top.node))
<1>1. /\ Op(Top) = "not" /\ arity \in Nat /\ arity >= 1
      /\ \A i \in 1 .. arity : Child(Top.node, i) \in Nodes
  BY TheTop DEF ParseNot, Op, AreNodes, Combinators
<1>2. Top.node \in Nullable
  BY <1>1, TheTop DEF AreNullable, MayBeEmpty, Op
<1>3. ASSUME GotNode
      PROVE  /\ begin \in Top.backup .. End /\ Top.child \in 1 .. arity
             /\ begin = Top.backup => \A i \in 1 .. Top.child : Child(Top.node, i) \in Nullable
  <2>1. /\ reply.from \in Top.backup .. End /\ begin \in reply.from .. End
        /\ Top.child \in 1 .. arity
        /\ reply.from = Top.backup => \A i \in 1 .. Top.child - 1 : Child(Top.node, i) \in Nullable
        /\ begin = reply.from => Called(Top) \in Nullable
    BY <1>1, <1>3, TheTop DEF Replied, Waits, Op
  <2>2. Called(Top) = Child(Top.node, Top.child)
    BY <1>1 DEF Called, Op
  <2>. QED
    BY <1>1, <2>1, <2>2, TheTop
<1>4. ASSUME NEW i \in 1 .. arity, NEW at \in Top.backup .. End, Call(i, at, <<>>),
             at = Top.backup => \A j \in 1 .. i - 1 : Child(Top.node, j) \in Nullable
      PROVE  SpanInv'
  <2>1. ASSUME NEW c \in Frames, c.node = Top.node, c.backup = Top.backup, c.child = i
        PROVE  Waits(c, at) /\ Called(c) = Child(Top.node, i)
    <3>1. Op(c) = "not" /\ Called(c) = Child(Top.node, i)
      BY <1>1, <2>1 DEF Op, Called
    <3>. QED
      BY <1>1, <1>4, <2>1, <3>1 DEF Waits, AtStart, InLoop, Combinators
  <2>2. i \in Nat
    BY <1>1
  <2>. QED
    BY <1>4, <2>1, <2>2, CallKeepsSpansOfNothing
<1>5. CASE Entered /\ Call(1, SkipWs(begin), <<>>)
  <2>1. begin = Top.backup /\ 1 \in 1 .. arity /\ 1 .. 1 - 1 = {}
    BY <1>1, <1>5, TheTop DEF Entered
  <2>2. SkipWs(begin) \in begin .. End
    BY TheTop, SkipWsStops
  <2>. QED
    BY <1>4, <1>5, <2>1, <2>2
<1>6. CASE GotNull /\ ReturnNode(Top.backup, <<>>)
  BY <1>2, <1>6, NothingKeepsSpans
<1>7. CASE GotNode /\ Top.child < arity /\ Call(Top.child + 1, begin, <<>>)
  <2>1. Top.child + 1 \in 1 .. arity /\ (Top.child + 1) - 1 = Top.child
    BY <1>1, <1>3, <1>7
  <2>. QED
    BY <1>3, <1>4, <1>7, <2>1
<1>8. CASE GotNode /\ Top.child = arity /\ ReturnNull
  BY <1>8, NullKeepsSpans
<1>. QED
  BY <1>5, <1>6, <1>7, <1>8 DEF ParseNot

LEMMA ZeroOrOneKeepsSpans ==
  ASSUME SpanInv, AreNodes(Nodes), AreNullable(Nodes, Nullable),
         stack # <<>>, sample' = sample, ParseZeroOrOne(Term(Top.node))
  PROVE  SpanInv'
<1>1. /\ Op(Top) = "zero_or_one" /\ AtStart(Top)
      /\ Child(Top.node, 1) \in Nodes
  <2>1. Term(Top.node).op = "zero_or_one"
    BY DEF ParseZeroOrOne
  <2>2. Arity(Term(Top.node)) \in Nat /\ Arity(Term(Top.node)) >= 1
    BY <2>1, TheTop DEF AreNodes, Combinators
  <2>. QED
    BY <2>1, <2>2, TheTop DEF Op, AtStart, AreNodes, Combinators
<1>2. Top.node \in Nullable
  BY <1>1, TheTop DEF AreNullable, MayBeEmpty, Op
<1>3. CASE Entered /\ Call(1, begin, <<>>)
  <2>1. begin = Top.backup
    BY <1>3, TheTop DEF Entered
  <2>2. ASSUME NEW c \in Frames, c.node = Top.node, c.backup = Top.backup, c.child = 1
        PROVE  Waits(c, begin) /\ Called(c) = Child(Top.node, 1)
    <3>1. Op(c) = "zero_or_one" /\ Called(c) = Child(Top.node, 1)
      BY <1>1, <2>2 DEF Op, Called
    <3>. QED
      BY <1>1, <2>1, <2>2, <3>1, TheTop DEF Waits, AtStart, InLoop, Combinators
  <2>3. 1 \in Nat /\ begin \in Top.backup .. End
    BY <2>1, TheTop
  <2>. QED
    BY <1>3, <2>2, <2>3, CallKeepsSpansOfNothing
<1>4. CASE GotNull /\ ReturnNode(Top.backup, <<>>)
  BY <1>2, <1>4, NothingKeepsSpans
<1>5. CASE GotNode /\ ReturnNode(begin, reply.text)
  BY <1>1, <1>2, <1>5, AdoptKeepsSpans
<1>. QED
  BY <1>3, <1>4, <1>5 DEF ParseZeroOrOne

Loops == {"zero_or_more", "one_or_more"}

LEMMA LoopNode ==
  ASSUME SpanInv, AreNodes(Nodes), AreNullable(Nodes, Nullable), stack # <<>>, Op(Top) \in Loops
  PROVE  /\ Child(Top.node, 1) \in Nodes
         /\ Op(Top) = "zero_or_more" \/ Child(Top.node, 1) \in Nullable => Top.node \in Nullable
<1>1. /\ Term(Top.node).op \in Loops /\ Top.node \in Nodes
      /\ Arity(Term(Top.node)) \in Nat /\ Arity(Term(Top.node)) >= 1
  BY TheTop DEF Op, Loops, AreNodes, Combinators
<1>2. 1 \in 1 .. Arity(Term(Top.node))
  BY <1>1
<1>. QED
  BY <1>1, <1>2 DEF AreNodes, AreNullable, MayBeEmpty, Combinators, Loops, Op

LEMMA AgainKeepsSpans ==
  ASSUME SpanInv, AreNodes(Nodes), AreNullable(Nodes, Nullable), stack # <<>>, sample' = sample,
         Op(Top) \in Loops, NEW text \in Seq(Nat), Spans(text, Top.backup, begin),
         begin \in Top.backup .. End,
         Op(Top) = "one_or_more" /\ begin = Top.backup => Child(Top.node, 1) \in Nullable,
         Again(text)
  PROVE  SpanInv'
<1>1. CASE begin # End /\ CallAs(2, 1, begin, text)
  <2>1. ASSUME NEW c \in Frames, c.node = Top.node, c.backup = Top.backup, c.child = 2,
               c.loop_backup = begin, c.text = text
        PROVE  Waits(c, begin) /\ Called(c) = Child(Top.node, 1)
    <3>1. Op(c) = Op(Top) /\ Op(c) \in Loops /\ Called(c) = Child(Top.node, 1)
      BY <2>1 DEF Op, Called, Loops
    <3>2. InLoop(c) /\ ~AtStart(c)
      BY <2>1, <3>1 DEF InLoop, AtStart, Loops
    <3>. QED
      BY <2>1, <3>1, <3>2, LoopNode DEF Waits, Loops, Combinators
  <2>2. 2 \in Nat
    OBVIOUS
  <2>. QED
    BY <1>1, <2>1, <2>2, CallAsKeepsSpans
<1>2. CASE ReturnNode(begin, text)
  <2>1. begin = Top.backup => Top.node \in Nullable
    BY LoopNode DEF Loops
  <2>. QED
    BY <1>2, <2>1, TheTop, PopKeepsSpans DEF ReturnNode
<1>. QED
  BY <1>1, <1>2 DEF Again

LEMMA EndOfRoundKeepsSpans ==
  ASSUME SpanInv, AreNodes(Nodes), AreNullable(Nodes, Nullable), stack # <<>>, sample' = sample,
         Op(Top) \in Loops, EndOfRound
  PROVE  SpanInv'
<1>1. InLoop(Top) /\ (GotNull \/ GotNode)
  BY DEF EndOfRound, InLoop, Loops
<1>2. /\ reply.from = Top.loop_backup /\ Top.loop_backup \in Top.backup .. End
      /\ begin \in Top.loop_backup .. End
      /\ Spans(Top.text, Top.backup, Top.loop_backup) /\ Top.text \in Seq(Nat)
      /\ Op(Top) = "one_or_more" /\ Top.loop_backup = Top.backup => Child(Top.node, 1) \in Nullable
  BY <1>1, TheTop DEF Replied, Waits, Frames
<1>3. ASSUME ReturnNode(Top.loop_backup, Top.text) PROVE SpanInv'
  <2>1. Top.loop_backup = Top.backup => Top.node \in Nullable
    BY <1>2, LoopNode DEF Loops
  <2>. QED
    BY <1>2, <1>3, <2>1, TheTop, PopKeepsSpans DEF ReturnNode
<1>4. CASE GotNull /\ ReturnNode(Top.loop_backup, Top.text)
  BY <1>3, <1>4
<1>5. CASE GotNode /\ begin = Top.loop_backup /\ ReturnNode(begin, Top.text)
  BY <1>3, <1>5
<1>6. CASE GotNode /\ begin # Top.loop_backup /\ Again(Added)
  <2>1. begin \in Top.backup .. End /\ begin # Top.backup
    BY <1>2, <1>6, TheTop
  <2>2. Added \in Seq(Nat) /\ Spans(Added, Top.backup, begin)
    BY <1>1, <1>6, AddedIsASpan
  <2>. QED
    BY <1>6, <2>1, <2>2, AgainKeepsSpans
<1>. QED
  BY <1>4, <1>5, <1>6 DEF EndOfRound

LEMMA ZeroOrMoreKeepsSpans ==
  ASSUME SpanInv, AreNodes(Nodes), AreNullable(Nodes, Nullable),
         stack # <<>>, sample' = sample, ParseZeroOrMore(Term(Top.node))
  PROVE  SpanInv'
<1>1. Op(Top) = "zero_or_more" /\ Op(Top) \in Loops
  BY DEF ParseZeroOrMore, Op, Loops
<1>2. CASE Entered /\ Again(<<>>)
  <2>1. begin = Top.backup /\ begin \in Top.backup .. End /\ <<>> \in Seq(Nat)
    BY <1>2, TheTop DEF Entered
  <2>2. Spans(<<>>, Top.backup, begin)
    BY <2>1, TheTop, EmptySpan DEF Spans
  <2>. QED
    BY <1>1, <1>2, <2>1, <2>2, AgainKeepsSpans
<1>3. CASE EndOfRound
  BY <1>1, <1>3, EndOfRoundKeepsSpans
<1>. QED
  BY <1>2, <1>3 DEF ParseZeroOrMore

LEMMA OneOrMoreKeepsSpans ==
  ASSUME SpanInv, AreNodes(Nodes), AreNullable(Nodes, Nullable),
         stack # <<>>, sample' = sample, ParseOneOrMore(Term(Top.node))
  PROVE  SpanInv'
<1>1. Op(Top) = "one_or_more" /\ Op(Top) \in Loops
  BY DEF ParseOneOrMore, Op, Loops
<1>2. CASE Entered /\ Call(1, begin, <<>>)
  <2>1. begin = Top.backup
    BY <1>2, TheTop DEF Entered
  <2>2. ASSUME NEW c \in Frames, c.node = Top.node, c.backup = Top.backup, c.child = 1
        PROVE  Waits(c, begin) /\ Called(c) = Child(Top.node, 1)
    <3>1. /\ Op(c) = "one_or_more" /\ Called(c) = Child(Top.node, 1)
          /\ AtStart(c) /\ ~InLoop(c)
      BY <1>1, <2>2 DEF Op, Called, AtStart, InLoop
    <3>. QED
      BY <1>1, <2>1, <2>2, <3>1, TheTop, LoopNode DEF Waits, Combinators
  <2>3. 1 \in Nat /\ begin \in Top.backup .. End
    BY <2>1, TheTop
  <2>. QED
    BY <1>2, <2>2, <2>3, CallKeepsSpansOfNothing
<1>3. CASE GotNull /\ Top.child = 1 /\ ReturnNull
  BY <1>3, NullKeepsSpans
<1>4. CASE GotNode /\ Top.child = 1 /\ Again(reply.text)
  <2>1. AtStart(Top) /\ Called(Top) = Child(Top.node, 1)
    BY <1>1, <1>4 DEF AtStart, Called, Op
  <2>2. /\ reply.from = Top.backup /\ begin \in Top.backup .. End /\ reply.text \in Seq(Nat)
        /\ Spans(reply.text, Top.backup, begin)
        /\ begin = Top.backup => Child(Top.node, 1) \in Nullable
    BY <1>4, <2>1, TheTop DEF Replied, Waits
  <2>. QED
    BY <1>1, <1>4, <2>2, AgainKeepsSpans
<1>5. CASE EndOfRound
  BY <1>1, <1>5, EndOfRoundKeepsSpans
<1>. QED
  BY <1>2, <1>3, <1>4, <1>5 DEF ParseOneOrMore

LEMMA StepKeepsSpans ==
  ASSUME SpanInv, AreNodes(Nodes), AreNullable(Nodes, Nullable), [Next]_vars
  PROVE  SpanInv'
<1>1. CASE stack # <<>> /\ Step(Term(Top.node)) /\ sample' = sample
  BY <1>1, CharacterKeepsSpans, StringKeepsSpans, RuleKeepsSpans, AndKeepsSpans, OrKeepsSpans,
     NotKeepsSpans, ZeroOrMoreKeepsSpans, OneOrMoreKeepsSpans, ZeroOrOneKeepsSpans DEF Step
<1>2. CASE UNCHANGED <<sample, stack, begin, reply>>
  <2>1. CallersWait'
    BY <1>2, SameSample DEF SpanInv, CallersWait, Called, Op
  <2>2. Replied => Replied'
    BY <1>2, SameSample DEF Replied, GotNull, GotNode, Top, Called, Op
  <2>. QED
    BY <1>2, <2>1, <2>2, SameSample DEF SpanInv, Top, NoReply
<1>. QED
  BY <1>1, <1>2 DEF Next, ParserReturns, vars

LEMMA InitSpans ==
  ASSUME Init, AreNodes(Nodes)
  PROVE  SpanInv
<1>. DEFINE node == Root(sample.grammar, sample.rule)
<1>1. node \in Nodes /\ End \in Nat /\ End >= 1
  BY DEF Init, AreNodes, End, Input
<1>2. Frame(node, 1) \in Frames
  BY <1>1 DEF Frame, Frames
<1>3. /\ stack = <<Frame(node, 1)>> /\ stack # <<>> /\ stack \in Seq(Frames) /\ Len(stack) = 1
      /\ Top = Frame(node, 1)
  BY <1>2 DEF Init, Top
<1>4. Top.child = 0 /\ Top.backup = 1
  BY <1>3 DEF Frame
<1>. QED
  BY <1>1, <1>3, <1>4 DEF Init, SpanInv, CallersWait

\* The contract of rule_base in parse.hpp: nullptr with begin where it was, or a
\* node over what begin has moved across, whatever a grammar makes of the
\* combinators and however often they back up.
THEOREM RepliesAreSpans ==
  ASSUME AreNodes(Nodes), AreNullable(Nodes, Nullable), LiteralsAreSolid(Nodes)
  PROVE  Spec => []ReplyIsItsSpan
<1>1. Init => SpanInv
  BY InitSpans
<1>2. SpanInv /\ [Next]_vars => SpanInv'
  BY StepKeepsSpans
<1>3. SpanInv => ReplyIsItsSpan
  BY DEF SpanInv, ReplyIsItsSpan, Replied, GotNull, GotNode, NoReply, Spans
<1>. QED
  BY <1>1, <1>2, <1>3, PTL DEF Spec

-----------------------------------------------------------------------------
(* The order of the calls. *)

\* Calls go forward, and down in rank while they stay where they are.
Ordered(s) ==
  \A i, j \in 1 .. Len(s) :
    i < j => /\ s[j].backup <= s[i].backup
             /\ s[j].backup = s[i].backup => Rank[s[i].node] < Rank[s[j].node]
OrderInv == Ordered(stack)

\* A step ends the parse() in progress or starts one.
LEMMA StepsOfTheStack ==
  ASSUME SpanInv, AreNodes(Nodes), stack # <<>>, Step(Term(Top.node))
  PROVE  \/ stack' = Tail(stack)
         \/ \E node, at, caller :
              /\ stack' = <<Frame(node, at), caller>> \o Tail(stack)
              /\ caller.node = Top.node /\ caller.backup = Top.backup
<1>. DEFINE term == Term(Top.node)
            Pushed == \E node, at, caller :
                        /\ stack' = <<Frame(node, at), caller>> \o Tail(stack)
                        /\ caller.node = Top.node /\ caller.backup = Top.backup
<1>1. ASSUME NEW mark, NEW i, NEW at, NEW text, CallAs(mark, i, at, text) PROVE Pushed
  <2>1. PICK c : c = [Top EXCEPT !.child = mark, !.loop_backup = at, !.text = text]
    OBVIOUS
  <2>2. c.node = Top.node /\ c.backup = Top.backup
    BY <2>1, TheTop DEF Frames
  <2>3. stack' = <<Frame(Child(Top.node, i), at), c>> \o Tail(stack)
    BY <1>1, <2>1 DEF CallAs
  <2>. QED
    BY <2>2, <2>3
<1>2. ASSUME NEW kind, NEW at, NEW text, Return(kind, at, text) PROVE stack' = Tail(stack)
  BY <1>2 DEF Return
<1>3. ASSUME ParseRule(term) PROVE stack' = Tail(stack) \/ Pushed
  <2>1. PICK c : c = [Top EXCEPT !.child = 1]
    OBVIOUS
  <2>2. c.node = Top.node /\ c.backup = Top.backup
    BY <2>1, TheTop DEF Frames
  <2>3. stack' = <<Frame(Root(term.grammar, term.rule), begin), c>> \o Tail(stack) => Pushed
    BY <2>2
  <2>. QED
    BY <1>2, <1>3, <2>1, <2>3 DEF ParseRule, ReturnNode, ReturnNull
<1>. HIDE DEF Pushed
<1>4. ASSUME ParseAnd(term) \/ ParseOr(term) \/ ParseNot(term) \/ ParseZeroOrOne(term)
      PROVE  stack' = Tail(stack) \/ Pushed
  BY <1>1, <1>2, <1>4
     DEF ParseAnd, ParseOr, ParseNot, ParseZeroOrOne, ReturnNode, ReturnNull, Call
<1>5. ASSUME ParseZeroOrMore(term) \/ ParseOneOrMore(term) PROVE stack' = Tail(stack) \/ Pushed
  BY <1>1, <1>2, <1>5
     DEF ParseZeroOrMore, ParseOneOrMore, EndOfRound, Again, ReturnNode, ReturnNull, Call
<1>6. ASSUME ParseCharacter(term) \/ ParseString(term) PROVE stack' = Tail(stack)
  BY <1>2, <1>6 DEF ParseCharacter, ParseString, ReturnNode, ReturnNull
<1>. QED
  BY <1>3, <1>4, <1>5, <1>6 DEF Step, Pushed

LEMMA PopKeepsOrder ==
  ASSUME NEW s \in Seq(Frames), s # <<>>, Ordered(s)
  PROVE  Ordered(Tail(s))
<1>1. /\ Len(s) \in Nat \ {0} /\ Len(Tail(s)) = Len(s) - 1
      /\ \A i \in 1 .. Len(Tail(s)) : Tail(s)[i] = s[i + 1]
  OBVIOUS
<1>2. ASSUME NEW i \in 1 .. Len(Tail(s)), NEW j \in 1 .. Len(Tail(s)), i < j
      PROVE  /\ i + 1 \in 1 .. Len(s) /\ j + 1 \in 1 .. Len(s) /\ i + 1 < j + 1
             /\ Tail(s)[i] = s[i + 1] /\ Tail(s)[j] = s[j + 1]
  BY <1>1, <1>2
<1>. QED
  BY <1>2 DEF Ordered

\* What a node calls where it was called is one of its left calls.
LEMMA CalledInPlace ==
  ASSUME AreNodes(Nodes), NEW c, c.node \in Nodes, Waits(c, c.backup)
  PROVE  Called(c) \in LeftCalls(c.node, Nullable)
<1>. DEFINE term == Term(c.node)
<1>1. CASE Op(c) = "rule"
  BY <1>1 DEF Called, LeftCalls, Op
<1>2. CASE Op(c) \in {"and", "or", "not"}
  <2>1. /\ c.child \in 1 .. Arity(term) /\ Called(c) = Child(c.node, c.child)
        /\ term.op \in Combinators /\ term.op # "rule"
    BY <1>2 DEF Waits, Called, Op, Combinators
  <2>2. term.op \in {"and", "not"} => \A k \in 1 .. c.child - 1 : Child(c.node, k) \in Nullable
    BY <1>2 DEF Waits, Op
  <2>. QED
    BY <2>1, <2>2 DEF LeftCalls
<1>3. CASE Op(c) \in {"zero_or_one", "zero_or_more", "one_or_more"}
  <2>1. /\ term.op \in Combinators /\ term.op \notin {"rule", "and", "not"}
        /\ Called(c) = Child(c.node, 1)
    BY <1>3 DEF Called, Op, Combinators
  <2>2. 1 \in 1 .. Arity(term)
    BY <2>1 DEF AreNodes
  <2>. QED
    BY <2>1, <2>2 DEF LeftCalls
<1>. QED
  BY <1>1, <1>2, <1>3 DEF Waits, Combinators, Op

LEMMA PushKeepsOrder ==
  ASSUME AreNodes(Nodes), AreRanked(Nodes, Nullable, Rank), End \in Nat,
         NEW s \in Seq(Frames), s # <<>>, Ordered(s), NEW callee \in Frames, NEW caller \in Frames,
         caller.node = s[1].node, caller.backup = s[1].backup,
         Waits(caller, callee.backup), callee.node = Called(caller)
  PROVE  Ordered(<<callee, caller>> \o Tail(s))
<1>. DEFINE t == <<callee, caller>> \o Tail(s)
<1>1. /\ Len(s) \in Nat \ {0} /\ t \in Seq(Frames) /\ Len(t) = Len(s) + 1
      /\ t[1] = callee /\ t[2] = caller /\ \A i \in 3 .. Len(t) : t[i] = s[i - 1]
  BY TwoInFront
<1>. HIDE DEF t
<1>2. /\ \A f \in Frames : f.node \in Nodes /\ f.backup \in Nat
      /\ \A node \in Nodes : Rank[node] \in Nat
  <2>1. \A f \in Frames : f.node \in Nodes /\ f.backup \in Nat
    BY DEF Frames
  <2>2. \A node \in Nodes : Rank[node] \in Nat
    BY DEF AreRanked
  <2>. QED
    BY <2>1, <2>2
<1>3. /\ caller.backup <= callee.backup
      /\ caller.backup = callee.backup => Rank[callee.node] < Rank[caller.node]
  <2>1. caller.backup <= callee.backup
    BY <1>2 DEF Waits
  <2>2. ASSUME caller.backup = callee.backup PROVE Rank[callee.node] < Rank[caller.node]
    BY <1>2, <2>2, CalledInPlace DEF AreRanked
  <2>. QED
    BY <2>1, <2>2
<1>4. ASSUME NEW j \in 2 .. Len(t)
      PROVE  /\ t[j].backup = s[j - 1].backup /\ t[j].node = s[j - 1].node
             /\ j - 1 \in 1 .. Len(s)
  BY <1>1
<1>5. ASSUME NEW i \in 1 .. Len(t), NEW j \in 1 .. Len(t), i < j
      PROVE  /\ t[j].backup <= t[i].backup
             /\ t[j].backup = t[i].backup => Rank[t[i].node] < Rank[t[j].node]
  <2>1. CASE i > 1
    <3>1. i \in 2 .. Len(t) /\ j \in 2 .. Len(t) /\ i - 1 < j - 1
      BY <1>1, <1>5, <2>1
    <3>. QED
      BY <1>4, <3>1 DEF Ordered
  <2>2. CASE i = 1 /\ j = 2
    BY <1>1, <1>3, <2>2
  <2>3. CASE i = 1 /\ j > 2
    <3>1. /\ j \in 2 .. Len(t) /\ 1 < j - 1 /\ 1 \in 1 .. Len(s) /\ j - 1 \in 1 .. Len(s)
          /\ s[1] \in Frames /\ s[j - 1] \in Frames
      BY <1>1, <1>5, <2>3
    <3>2. /\ t[j].backup <= caller.backup
          /\ t[j].backup = caller.backup => Rank[caller.node] < Rank[t[j].node]
      BY <1>4, <3>1 DEF Ordered
    <3>3. /\ t[j].backup \in Nat /\ caller.backup \in Nat /\ callee.backup \in Nat
          /\ Rank[t[j].node] \in Nat /\ Rank[caller.node] \in Nat /\ Rank[callee.node] \in Nat
      BY <1>2, <1>4, <3>1
    <3>4. t[j].backup <= callee.backup
      BY <1>3, <3>2, <3>3
    <3>5. ASSUME t[j].backup = callee.backup PROVE Rank[callee.node] < Rank[t[j].node]
      <4>1. t[j].backup = caller.backup /\ caller.backup = callee.backup
        BY <1>3, <3>2, <3>3, <3>5
      <4>. QED
        BY <1>3, <3>2, <3>3, <4>1
    <3>. QED
      BY <1>1, <2>3, <3>4, <3>5
  <2>. QED
    BY <1>1, <1>5, <2>1, <2>2, <2>3
<1>. QED
  BY <1>5 DEF Ordered, t

LEMMA StepKeepsOrder ==
  ASSUME SpanInv, OrderInv, AreNodes(Nodes), AreNullable(Nodes, Nullable),
         AreRanked(Nodes, Nullable, Rank), [Next]_vars
  PROVE  OrderInv'
<1>1. SpanInv'
  BY StepKeepsSpans
<1>2. CASE stack # <<>> /\ Step(Term(Top.node)) /\ sample' = sample
  <2>1. CASE stack' = Tail(stack)
    BY <1>2, <2>1, PopKeepsOrder DEF SpanInv, OrderInv
  <2>2. ASSUME NEW node, NEW at, NEW caller,
               stack' = <<Frame(node, at), caller>> \o Tail(stack),
               caller.node = Top.node, caller.backup = Top.backup
        PROVE  OrderInv'
    <3>. DEFINE callee == Frame(node, at)
                S == Frames \cup {callee, caller}
    <3>1. stack \in Seq(Frames) /\ stack' \in Seq(Frames) /\ Top = stack[1] /\ CallersWait'
      BY <1>1, <1>2, SameSample DEF SpanInv, Top
    <3>2. Len(stack') \in Nat /\ Len(stack') >= 2 /\ stack'[1] = callee /\ stack'[2] = caller
      <4>1. stack \in Seq(S) /\ callee \in S /\ caller \in S
        BY <3>1
      <4>. QED
        BY <1>2, <2>2, <3>1, <4>1, TwoInFront
    <3>. HIDE DEF callee, S
    <3>3. callee \in Frames /\ caller \in Frames
      <4>1. 1 \in 1 .. Len(stack') /\ 2 \in 1 .. Len(stack')
        BY <3>2
      <4>2. stack'[1] \in Frames /\ stack'[2] \in Frames
        BY <3>1, <4>1
      <4>. QED
        BY <3>2, <4>2
    <3>4. Waits(caller, callee.backup) /\ callee.node = Called(caller)
      <4>1. 2 \in 2 .. Len(stack') /\ 2 - 1 = 1
        BY <3>2
      <4>2. Waits(caller, callee.backup)' /\ callee.node = Called(caller)
        BY <3>1, <3>2, <4>1 DEF CallersWait
      <4>. QED
        BY <1>2, <4>2, SameSample
    <3>5. stack' = <<callee, caller>> \o Tail(stack)
      BY <2>2 DEF callee
    <3>6. Ordered(stack')
      BY <1>2, <2>2, <3>1, <3>3, <3>4, <3>5, TheTop, PushKeepsOrder DEF OrderInv
    <3>. QED
      BY <3>6 DEF OrderInv, Ordered
  <2>. QED
    BY <1>2, <2>1, <2>2, StepsOfTheStack
<1>3. CASE UNCHANGED stack
  BY <1>3 DEF OrderInv, Ordered
<1>. QED
  BY <1>2, <1>3 DEF Next, ParserReturns, vars

\* The descent of parse.hpp cannot run into itself: where every left call goes
\* down in rank, no parse() is called where it is already in progress.
THEOREM NoRuleCallsItselfInPlace ==
  ASSUME AreNodes(Nodes), AreNullable(Nodes, Nullable), AreRanked(Nodes, Nullable, Rank)
  PROVE  Spec => []NoLeftRecursion
<1>1. Init => SpanInv /\ OrderInv
  BY InitSpans DEF Init, OrderInv, Ordered
<1>2. SpanInv /\ OrderInv /\ [Next]_vars => (SpanInv /\ OrderInv)'
  BY StepKeepsSpans, StepKeepsOrder
<1>3. SpanInv /\ OrderInv => NoLeftRecursion
  <2>1. ASSUME SpanInv, OrderInv, NEW i \in 2 .. Len(stack), stack[i].node = Top.node,
               stack[i].backup = Top.backup
        PROVE  FALSE
    <3>1. /\ stack \in Seq(Frames) /\ Top = stack[1] /\ 1 \in 1 .. Len(stack)
          /\ i \in 1 .. Len(stack) /\ 1 < i
      BY <2>1 DEF SpanInv, Top
    <3>2. Rank[Top.node] < Rank[Top.node]
      BY <2>1, <3>1 DEF OrderInv, Ordered
    <3>3. Top \in Frames
      BY <3>1
    <3>. QED
      BY <3>2, <3>3 DEF AreRanked, Frames
  <2>. QED
    BY <2>1 DEF NoLeftRecursion
<1>. QED
  BY <1>1, <1>2, <1>3, PTL DEF Spec

-----------------------------------------------------------------------------
(* The functions of parse_ast.hpp: an order in which their calls go down.  *)

\* Behind an operand that may not match the empty text.
Late(x) ==
  IF /\ Term(x[1]).op \in {"and", "not"}
     /\ \E k \in 1 .. x[2] - 1 : Child(x[1], k) \notin Nullable THEN 1 ELSE 0

\* How many operands are left.
ToGo(x) ==
  LET term == Term(x[1])
  IN IF term.op \notin Combinators \/ x[2] > Arity(term) THEN 0
     ELSE IF x[2] = 0 THEN Arity(term) + 2 ELSE Arity(term) + 1 - x[2]

Before(y, x) ==
  \/ x[3] < y[3]
  \/ x[3] = y[3] /\ \/ Late(y) < Late(x)
                    \/ Late(y) = Late(x) /\ \/ Rank[y[1]] < Rank[x[1]]
                                            \/ y[1] = x[1] /\ ToGo(y) < ToGo(x)

LEMMA Measures ==
  ASSUME AreNodes(Nodes), AreRanked(Nodes, Nullable, Rank), End \in Nat, NEW x \in Places
  PROVE  /\ x[1] \in Nodes /\ x[2] \in Nat /\ x[3] \in 1 .. End /\ x = <<x[1], x[2], x[3]>>
         /\ Late(x) \in Nat /\ Rank[x[1]] \in Nat /\ ToGo(x) \in Nat
<1>1. x[1] \in Nodes /\ x[2] \in Nat /\ x[3] \in 1 .. End /\ x = <<x[1], x[2], x[3]>>
  BY DEF Places
<1>2. Late(x) \in Nat
  BY DEF Late
<1>3. Rank[x[1]] \in Nat
  BY <1>1 DEF AreRanked
<1>4. ToGo(x) \in Nat
  <2>1. CASE Term(x[1]).op \notin Combinators
    BY <2>1 DEF ToGo
  <2>2. CASE Term(x[1]).op \in Combinators
    <3>1. Arity(Term(x[1])) \in Nat
      BY <1>1, <2>2 DEF AreNodes
    <3>. QED
      BY <1>1, <3>1 DEF ToGo
  <2>. QED
    BY <2>1, <2>2
<1>. QED
  BY <1>1, <1>2, <1>3, <1>4

LEMMA LeastOf ==
  ASSUME NEW S, S # {}, NEW f \in [S -> Nat]
  PROVE  \E x \in S : \A y \in S : f[x] <= f[y]
<1>. DEFINE T == {f[x] : x \in S}
<1>1. T \in SUBSET Nat /\ T # {}
  OBVIOUS
<1>2. PICK n \in T : \A i \in T : ~(<<i, n>> \in OpToRel(<, Nat))
  BY <1>1, NatLessThanWellFounded, WFMin
<1>3. \A i \in T : ~(i < n)
  BY <1>1, <1>2 DEF OpToRel
<1>4. PICK x \in S : f[x] = n
  BY <1>2
<1>5. ASSUME NEW y \in S PROVE f[x] <= f[y]
  <2>1. f[y] \in T /\ f[y] \in Nat /\ n \in Nat
    BY <1>1
  <2>. QED
    BY <1>3, <1>4, <2>1
<1>. QED
  BY <1>5

\* There is a first one among any places: nothing comes before another for ever.
LEMMA FirstPlace ==
  ASSUME AreNodes(Nodes), AreRanked(Nodes, Nullable, Rank), End \in Nat,
         NEW S \in SUBSET Places, S # {}
  PROVE  \E x \in S : \A y \in S : ~Before(y, x)
<1>. DEFINE left == [x \in Places |-> End - x[3]]
            late == [x \in Places |-> Late(x)]
            rank == [x \in Places |-> Rank[x[1]]]
            togo == [x \in Places |-> ToGo(x)]
<1>1. /\ left \in [Places -> Nat] /\ late \in [Places -> Nat]
      /\ rank \in [Places -> Nat] /\ togo \in [Places -> Nat]
  BY Measures
<1>. DEFINE Least(f, T) == {x \in T : \A y \in T : f[x] <= f[y]}
<1>2. ASSUME NEW f \in [Places -> Nat], NEW T \in SUBSET Places, T # {}
      PROVE  /\ Least(f, T) # {} /\ Least(f, T) \in SUBSET Places
             /\ \A x \in Least(f, T), y \in T : ~(f[y] < f[x]) /\ (f[y] = f[x] => y \in Least(f, T))
  <2>1. PICK g : g = [x \in T |-> f[x]]
    OBVIOUS
  <2>2. g \in [T -> Nat]
    BY <1>2, <2>1
  <2>3. \E x \in T : \A y \in T : g[x] <= g[y]
    BY <1>2, <2>2, LeastOf
  <2>4. Least(f, T) # {}
    BY <2>1, <2>3
  <2>5. \A x \in T : f[x] \in Nat
    BY <1>2
  <2>. QED
    BY <2>4, <2>5
<1>. HIDE DEF left, late, rank, togo, Least
<1>. DEFINE S1 == Least(left, S)
            S2 == Least(late, S1)
            S3 == Least(rank, S2)
            S4 == Least(togo, S3)
<1>3. /\ S1 # {} /\ S1 \in SUBSET Places /\ S2 # {} /\ S2 \in SUBSET Places
      /\ S3 # {} /\ S3 \in SUBSET Places /\ S4 # {} /\ S4 \in SUBSET Places
      /\ S4 \subseteq S3 /\ S3 \subseteq S2 /\ S2 \subseteq S1 /\ S1 \subseteq S
  <2>1. S1 # {} /\ S1 \in SUBSET Places
    BY <1>1, <1>2
  <2>2. S2 # {} /\ S2 \in SUBSET Places
    BY <1>1, <1>2, <2>1
  <2>3. S3 # {} /\ S3 \in SUBSET Places
    BY <1>1, <1>2, <2>2
  <2>4. S4 # {} /\ S4 \in SUBSET Places
    BY <1>1, <1>2, <2>3
  <2>. QED
    BY <2>1, <2>2, <2>3, <2>4 DEF Least
<1>4. PICK x \in S4 : TRUE
  BY <1>3
<1>5. ASSUME NEW y \in S, Before(y, x) PROVE FALSE
  <2>1. x \in S3 /\ x \in S2 /\ x \in S1 /\ x \in S /\ x \in Places /\ y \in Places
    BY <1>3, <1>4
  <2>2. /\ left[x] = End - x[3] /\ left[y] = End - y[3] /\ x[3] \in 1 .. End /\ y[3] \in 1 .. End
        /\ late[x] = Late(x) /\ late[y] = Late(y)
        /\ rank[x] = Rank[x[1]] /\ rank[y] = Rank[y[1]]
        /\ togo[x] = ToGo(x) /\ togo[y] = ToGo(y)
    BY <2>1, Measures DEF left, late, rank, togo
  <2>3. ~(left[y] < left[x]) /\ (left[y] = left[x] => y \in S1)
    BY <1>1, <1>2, <2>1
  <2>4. ~(x[3] < y[3])
    BY <2>2, <2>3
  <2>5. x[3] = y[3] /\ y \in S1
    BY <1>5, <2>2, <2>3, <2>4 DEF Before
  <2>6. ~(late[y] < late[x]) /\ (late[y] = late[x] => y \in S2)
    BY <1>1, <1>2, <1>3, <2>1, <2>5
  <2>7. Late(y) = Late(x) /\ y \in S2
    BY <1>5, <2>2, <2>4, <2>6 DEF Before
  <2>8. ~(rank[y] < rank[x]) /\ (rank[y] = rank[x] => y \in S3)
    BY <1>1, <1>2, <1>3, <2>1, <2>7
  <2>9. y[1] = x[1] /\ ToGo(y) < ToGo(x) /\ y \in S3
    BY <1>5, <2>2, <2>4, <2>6, <2>8 DEF Before
  <2>10. ~(togo[y] < togo[x])
    BY <1>1, <1>2, <1>3, <1>4, <2>9
  <2>. QED
    BY <2>2, <2>9, <2>10
<1>. QED
  BY <1>3, <1>4, <1>5

LEMMA BeforeIsAnOrder ==
  ASSUME AreNodes(Nodes), AreRanked(Nodes, Nullable, Rank), End \in Nat,
         NEW x \in Places, NEW y \in Places, NEW z \in Places
  PROVE  /\ ~Before(x, x)
         /\ Before(z, y) /\ Before(y, x) => Before(z, x)
<1>1. \A u \in {x, y, z} : /\ u[3] \in Nat /\ Late(u) \in Nat
                           /\ Rank[u[1]] \in Nat /\ ToGo(u) \in Nat
  BY Measures
<1>. QED
  BY <1>1 DEF Before

\* The calls of parse_ast.hpp go down.
LEMMA LaterIsBefore ==
  ASSUME NEW x, NEW m, NEW j, NEW q, x[3] < q
  PROVE  Before(<<m, j, q>>, x)
BY DEF Before

LEMMA CalleeIsBefore ==
  ASSUME AreNodes(Nodes), AreRanked(Nodes, Nullable, Rank), End \in Nat,
         NEW node \in Nodes, NEW i \in Nat, NEW p \in 1 .. End, NEW callee \in Nodes,
         \/ callee \in LeftCalls(node, Nullable)
         \/ Late(<<node, i, p>>) = 1
  PROVE  Before(<<callee, 0, p>>, <<node, i, p>>)
<1>1. Late(<<callee, 0, p>>) = 0
  BY DEF Late
<1>2. Late(<<node, i, p>>) \in {0, 1}
  BY DEF Late
<1>3. callee \in LeftCalls(node, Nullable) => Rank[callee] < Rank[node]
  BY DEF AreRanked
<1>. QED
  BY <1>1, <1>2, <1>3 DEF Before

LEMMA OperandIsBefore ==
  ASSUME AreNodes(Nodes), AreRanked(Nodes, Nullable, Rank), End \in Nat,
         NEW node \in Nodes, NEW i \in Nat, NEW p \in 1 .. End, NEW k,
         Term(node).op \in Combinators, k \in 1 .. Arity(Term(node)),
         Term(node).op \in {"and", "not"} => k = i
  PROVE  Child(node, k) \in Nodes /\ Before(<<Child(node, k), 0, p>>, <<node, i, p>>)
<1>1. Child(node, k) \in Nodes
  BY DEF AreNodes
<1>2. \/ Child(node, k) \in LeftCalls(node, Nullable)
      \/ Late(<<node, i, p>>) = 1
  <2>1. CASE Term(node).op \in {"and", "not"} /\ \E j \in 1 .. i - 1 : Child(node, j) \notin Nullable
    BY <2>1 DEF Late
  <2>2. CASE Term(node).op \in {"and", "not"} => \A j \in 1 .. k - 1 : Child(node, j) \in Nullable
    BY <2>2 DEF LeftCalls, Combinators
  <2>. QED
    BY <2>1, <2>2
<1>. QED
  BY <1>1, <1>2, CalleeIsBefore

LEMMA RestIsBefore ==
  ASSUME AreNodes(Nodes), NEW node \in Nodes, NEW i \in Nat, NEW p, NEW j \in Nat,
         Term(node).op \in Combinators, j = i + 1, i <= Arity(Term(node)),
         i > 0 /\ Term(node).op \in {"and", "not"} => Child(node, i) \in Nullable
  PROVE  Before(<<node, j, p>>, <<node, i, p>>)
<1>1. Arity(Term(node)) \in Nat
  BY DEF AreNodes
<1>2. ToGo(<<node, j, p>>) < ToGo(<<node, i, p>>)
  BY <1>1 DEF ToGo
<1>3. Late(<<node, j, p>>) = Late(<<node, i, p>>)
  <2>1. CASE Term(node).op \notin {"and", "not"}
    BY <2>1 DEF Late
  <2>2. CASE Term(node).op \in {"and", "not"}
    <3>1. (\E k \in 1 .. j - 1 : Child(node, k) \notin Nullable)
            <=> (\E k \in 1 .. i - 1 : Child(node, k) \notin Nullable)
      BY <2>2
    <3>. QED
      BY <2>2, <3>1 DEF Late
  <2>. QED
    BY <2>1, <2>2
<1>. QED
  BY <1>2, <1>3 DEF Before

-----------------------------------------------------------------------------
(* What the functions return, and what it depends on. *)

Results == {Fails} \cup [kind : {"node"}, end : 1 .. End, text : Seq(Nat)]

\* What is left of a node from operand i on may match the empty text.
MayEnd(node, i) ==
  LET term == Term(node)
      rest == i .. Arity(term)
  IN /\ i = 0 => node \in Nullable
     /\ i > 0 /\ term.op \in {"and", "not"} => \A k \in rest : Child(node, k) \in Nullable
     /\ i > 0 /\ term.op = "or" => \E k \in rest : Child(node, k) \in Nullable

Sound(r, node, i, p) ==
  /\ r \in Results
  /\ ~Failed(r) => p <= r.end /\ (r.end = p => MayEnd(node, i))

Sane(a) ==
  /\ a \in [Places -> Results]
  /\ \A node \in Nodes, i \in Nat, p \in 1 .. End : Sound(a[<<node, i, p>>], node, i, p)

\* One function is as another before a place.
AgreeBefore(h, a, x) == \A y \in Places : Before(y, x) => h[y] = a[y]

LEMMA AResult ==
  ASSUME NEW r \in Results
  PROVE  /\ Failed(r) <=> r = Fails
         /\ ~Failed(r) => r.end \in 1 .. End /\ r.text \in Seq(Nat) /\ r = Node(r.end, r.text)
<1>1. CASE r = Fails
  BY <1>1 DEF Failed, Fails
<1>2. CASE r \in [kind : {"node"}, end : 1 .. End, text : Seq(Nat)]
  BY <1>2 DEF Failed, Fails, Node
<1>. QED
  BY <1>1, <1>2 DEF Results

LEMMA ANode ==
  ASSUME NEW e, e \in 1 .. End, NEW t, t \in Seq(Nat)
  PROVE  /\ Node(e, t) \in Results /\ ~Failed(Node(e, t))
         /\ Node(e, t).end = e /\ Node(e, t).text = t
BY DEF Node, Results, Failed

LEMMA AnEmptyNode ==
  ASSUME NEW e, e \in 1 .. End
  PROVE  /\ Node(e, <<>>) \in Results /\ ~Failed(Node(e, <<>>))
         /\ Node(e, <<>>).end = e /\ Node(e, <<>>).text = <<>>
BY DEF Node, Results, Failed

LEMMA AFailure == Fails \in Results /\ Failed(Fails)
BY DEF Fails, Results, Failed

LEMMA AnAdoption ==
  ASSUME NEW t, t \in Seq(Nat), NEW r, r \in Results
  PROVE  /\ Adopt(t, r) \in Results /\ (Failed(Adopt(t, r)) <=> Failed(r))
         /\ ~Failed(r) => Adopt(t, r).end = r.end /\ Adopt(t, r).text = t \o r.text
<1>1. CASE Failed(r)
  BY <1>1, AFailure DEF Adopt
<1>2. CASE ~Failed(r)
  <2>1. r.end \in 1 .. End /\ r.text \in Seq(Nat)
    BY <1>2, AResult
  <2>2. PICK w \in Seq(Nat) : w = t \o r.text
    <3>1. PICK u \in Seq(Nat) : u = r.text
      BY <2>1
    <3>2. t \o u \in Seq(Nat)
      OBVIOUS
    <3>. QED
      BY <3>1, <3>2
  <2>3. Adopt(t, r) = Node(r.end, w)
    BY <1>2, <2>2 DEF Adopt
  <2>4. /\ Node(r.end, w) \in Results /\ ~Failed(Node(r.end, w))
        /\ Node(r.end, w).end = r.end /\ Node(r.end, w).text = w
    BY <2>1, <2>2, ANode
  <2>. QED
    BY <1>2, <2>2, <2>3, <2>4
<1>. QED
  BY <1>1, <1>2

\* What a function may ask for where it is called: an operand, and the rest.
Asked(h, a, node, i, p) ==
  /\ node \in Nodes /\ i \in Nat /\ p \in 1 .. End
  /\ Sane(a) /\ AgreeBefore(h, a, <<node, i, p>>)
IsOperand(node, i, k) ==
  /\ Term(node).op \in Combinators /\ k \in 1 .. Arity(Term(node))
  /\ Term(node).op \in {"and", "not"} => k = i
IsRest(node, i, p, j, q) ==
  /\ j \in Nat /\ q \in p .. End
  /\ \/ p < q
     \/ /\ Term(node).op \in Combinators /\ j = i + 1 /\ i <= Arity(Term(node))
        /\ i > 0 /\ Term(node).op \in {"and", "not"} => Child(node, i) \in Nullable

LEMMA Operand ==
  ASSUME AreNodes(Nodes), AreRanked(Nodes, Nullable, Rank), End \in Nat,
         NEW h, NEW a, NEW node, NEW i, NEW p, Asked(h, a, node, i, p),
         NEW k, IsOperand(node, i, k), NEW first, first = a[<<Child(node, k), 0, p>>]
  PROVE  /\ h[<<Child(node, k), 0, p>>] = first
         /\ first \in Results
         /\ ~Failed(first) => /\ first.end \in p .. End /\ first.text \in Seq(Nat)
                              /\ first.end = p => Child(node, k) \in Nullable
<1>1. Child(node, k) \in Nodes /\ Before(<<Child(node, k), 0, p>>, <<node, i, p>>)
  BY OperandIsBefore DEF Asked, IsOperand
<1>2. <<Child(node, k), 0, p>> \in Places
  BY <1>1 DEF Places, Asked
<1>3. Sound(first, Child(node, k), 0, p)
  BY <1>1 DEF Sane, Asked
<1>. QED
  BY <1>1, <1>2, <1>3, AResult DEF AgreeBefore, Sound, MayEnd, Asked

LEMMA RestOf ==
  ASSUME AreNodes(Nodes), End \in Nat,
         NEW h, NEW a, NEW node, NEW i, NEW p, Asked(h, a, node, i, p),
         NEW j, NEW q, IsRest(node, i, p, j, q), NEW rest, rest = a[<<node, j, q>>]
  PROVE  /\ h[<<node, j, q>>] = rest
         /\ rest \in Results /\ Sound(rest, node, j, q)
         /\ ~Failed(rest) => rest.end \in q .. End
<1>1. Before(<<node, j, q>>, <<node, i, p>>)
  <2>1. CASE p < q
    BY <2>1, LaterIsBefore
  <2>2. CASE p = q
    BY <2>2, RestIsBefore DEF Asked, IsRest
  <2>. QED
    BY <2>1, <2>2 DEF Asked, IsRest
<1>2. <<node, j, q>> \in Places
  BY DEF Places, Asked, IsRest
<1>3. Sound(rest, node, j, q)
  BY DEF Sane, Asked, IsRest
<1>. QED
  BY <1>1, <1>2, <1>3, AResult DEF AgreeBefore, Sound, Asked, IsRest

LEMMA AndIsSound ==
  ASSUME AreNodes(Nodes), AreRanked(Nodes, Nullable, Rank), End \in Nat,
         NEW h, NEW a, NEW node, NEW i, NEW p, Asked(h, a, node, i, p),
         Term(node).op \in {"and", "not"}, i > 0
  PROVE  /\ AstAnd(h, Term(node), node, i, p) = AstAnd(a, Term(node), node, i, p)
         /\ Sound(AstAnd(a, Term(node), node, i, p), node, i, p)
<1>1. /\ node \in Nodes /\ i \in Nat /\ p \in 1 .. End
      /\ Arity(Term(node)) \in Nat /\ Term(node).op \in Combinators
  BY DEF AreNodes, Combinators, Asked
<1>2. CASE i > Arity(Term(node))
  <2>1. AstAnd(h, Term(node), node, i, p) = Node(p, <<>>) /\ AstAnd(a, Term(node), node, i, p) = Node(p, <<>>)
    BY <1>2 DEF AstAnd
  <2>2. MayEnd(node, i)
    BY <1>1, <1>2 DEF MayEnd
  <2>. QED
    BY <1>1, <2>1, <2>2, AnEmptyNode DEF Sound
<1>3. CASE i <= Arity(Term(node))
  <2>1. IsOperand(node, i, i)
    BY <1>1, <1>3 DEF IsOperand
  <2>2. PICK first : first = a[<<Child(node, i), 0, p>>]
    OBVIOUS
  <2>3. /\ h[<<Child(node, i), 0, p>>] = first /\ first \in Results
        /\ ~Failed(first) => /\ first.end \in p .. End /\ first.text \in Seq(Nat)
                             /\ first.end = p => Child(node, i) \in Nullable
    BY <2>1, <2>2, Operand
  <2>4. CASE Failed(first)
    <3>1. AstAnd(h, Term(node), node, i, p) = Fails /\ AstAnd(a, Term(node), node, i, p) = Fails
      BY <1>1, <1>3, <2>2, <2>3, <2>4 DEF AstAnd
    <3>. QED
      BY <3>1, AFailure DEF Sound
  <2>5. CASE ~Failed(first)
    <3>1. PICK j \in Nat : j = i + 1
      BY <1>1
    <3>2. PICK q \in p .. End : q = first.end
      BY <2>3, <2>5
    <3>3. PICK rest : rest = a[<<node, j, q>>]
      OBVIOUS
    <3>4. IsRest(node, i, p, j, q)
      BY <1>1, <1>3, <2>3, <2>5, <3>1, <3>2 DEF IsRest
    <3>5. /\ h[<<node, j, q>>] = rest /\ rest \in Results
          /\ Sound(rest, node, j, q)
          /\ ~Failed(rest) => rest.end \in q .. End
      BY <3>3, <3>4, RestOf
    <3>6. /\ AstAnd(h, Term(node), node, i, p) = Adopt(first.text, rest)
          /\ AstAnd(a, Term(node), node, i, p) = Adopt(first.text, rest)
      BY <1>1, <1>3, <2>2, <2>3, <2>5, <3>1, <3>2, <3>3, <3>5 DEF AstAnd
    <3>7. ASSUME ~Failed(rest), rest.end = p PROVE MayEnd(node, i)
      <4>1. Child(node, i) \in Nullable /\ MayEnd(node, j)
        BY <1>1, <2>3, <2>5, <3>2, <3>5, <3>7 DEF Sound
      <4>. QED
        BY <1>1, <3>1, <4>1 DEF MayEnd
    <3>. QED
      BY <1>1, <2>3, <2>5, <3>2, <3>5, <3>6, <3>7, AnAdoption DEF Sound
  <2>. QED
    BY <2>4, <2>5
<1>. QED
  BY <1>1, <1>2, <1>3

LEMMA OrIsSound ==
  ASSUME AreNodes(Nodes), AreRanked(Nodes, Nullable, Rank), End \in Nat,
         NEW h, NEW a, NEW node, NEW i, NEW p, Asked(h, a, node, i, p),
         Term(node).op = "or", i > 0
  PROVE  /\ AstOr(h, Term(node), node, i, p) = AstOr(a, Term(node), node, i, p)
         /\ Sound(AstOr(a, Term(node), node, i, p), node, i, p)
<1>1. /\ node \in Nodes /\ i \in Nat /\ p \in 1 .. End
      /\ Arity(Term(node)) \in Nat /\ Term(node).op \in Combinators
  BY DEF AreNodes, Combinators, Asked
<1>2. CASE i > Arity(Term(node))
  BY <1>1, <1>2, AFailure DEF AstOr, Sound
<1>3. CASE i <= Arity(Term(node))
  <2>1. IsOperand(node, i, i)
    BY <1>1, <1>3 DEF IsOperand
  <2>2. PICK first : first = a[<<Child(node, i), 0, p>>]
    OBVIOUS
  <2>3. /\ h[<<Child(node, i), 0, p>>] = first /\ first \in Results
        /\ ~Failed(first) => /\ first.end \in p .. End
                             /\ first.end = p => Child(node, i) \in Nullable
    BY <2>1, <2>2, Operand
  <2>4. CASE ~Failed(first)
    <3>1. AstOr(h, Term(node), node, i, p) = first /\ AstOr(a, Term(node), node, i, p) = first
      BY <1>1, <1>3, <2>2, <2>3, <2>4 DEF AstOr
    <3>2. Child(node, i) \in Nullable => MayEnd(node, i)
      BY <1>1, <1>3 DEF MayEnd
    <3>. QED
      BY <1>1, <2>3, <2>4, <3>1, <3>2 DEF Sound
  <2>5. CASE Failed(first)
    <3>1. PICK j \in Nat : j = i + 1
      BY <1>1
    <3>2. PICK rest : rest = a[<<node, j, p>>]
      OBVIOUS
    <3>3. IsRest(node, i, p, j, p)
      BY <1>1, <1>3, <3>1 DEF IsRest
    <3>4. h[<<node, j, p>>] = rest /\ rest \in Results /\ Sound(rest, node, j, p)
      BY <3>2, <3>3, RestOf
    <3>5. AstOr(h, Term(node), node, i, p) = rest /\ AstOr(a, Term(node), node, i, p) = rest
      BY <1>1, <1>3, <2>2, <2>3, <2>5, <3>1, <3>2, <3>4 DEF AstOr
    <3>6. MayEnd(node, j) => MayEnd(node, i)
      BY <1>1, <3>1 DEF MayEnd
    <3>. QED
      BY <3>4, <3>5, <3>6 DEF Sound
  <2>. QED
    BY <2>4, <2>5
<1>. QED
  BY <1>1, <1>2, <1>3

LEMMA LoopIsSound ==
  ASSUME AreNodes(Nodes), AreRanked(Nodes, Nullable, Rank), End \in Nat,
         NEW h, NEW a, NEW node, NEW i, NEW p, Asked(h, a, node, i, p),
         Term(node).op \in {"zero_or_more", "one_or_more"}, i > 0
  PROVE  AstLoop(h, node, p) = AstLoop(a, node, p) /\ Sound(AstLoop(a, node, p), node, i, p)
<1>1. /\ node \in Nodes /\ i \in Nat /\ p \in 1 .. End
      /\ Arity(Term(node)) \in Nat \ {0} /\ Term(node).op \in Combinators
  BY DEF AreNodes, Combinators, Asked
<1>2. MayEnd(node, i)
  BY <1>1 DEF MayEnd
<1>3. IsOperand(node, i, 1)
  BY <1>1 DEF IsOperand
<1>4. PICK first : first = a[<<Child(node, 1), 0, p>>]
  OBVIOUS
<1>5. /\ h[<<Child(node, 1), 0, p>>] = first /\ first \in Results
      /\ ~Failed(first) => first.end \in p .. End /\ first.text \in Seq(Nat)
  BY <1>3, <1>4, Operand
<1>6. CASE p = End \/ Failed(first) \/ first.end = p
  <2>1. AstLoop(h, node, p) = Node(p, <<>>) /\ AstLoop(a, node, p) = Node(p, <<>>)
    BY <1>4, <1>5, <1>6 DEF AstLoop
  <2>. QED
    BY <1>1, <1>2, <2>1, AnEmptyNode DEF Sound
<1>7. CASE ~(p = End \/ Failed(first) \/ first.end = p)
  <2>1. PICK q \in p .. End : q = first.end
    BY <1>5, <1>7
  <2>2. PICK rest : rest = a[<<node, 1, q>>]
    OBVIOUS
  <2>3. IsRest(node, i, p, 1, q)
    BY <1>1, <1>7, <2>1 DEF IsRest
  <2>4. /\ h[<<node, 1, q>>] = rest /\ rest \in Results
        /\ ~Failed(rest) => rest.end \in q .. End
    BY <2>2, <2>3, RestOf
  <2>5. AstLoop(h, node, p) = Adopt(first.text, rest) /\ AstLoop(a, node, p) = Adopt(first.text, rest)
    BY <1>4, <1>5, <1>7, <2>1, <2>2, <2>4 DEF AstLoop
  <2>. QED
    BY <1>1, <1>2, <1>5, <1>7, <2>1, <2>4, <2>5, AnAdoption DEF Sound
<1>. QED
  BY <1>6, <1>7

LEMMA TerminalIsSound ==
  ASSUME AreNodes(Nodes), AreNullable(Nodes, Nullable), End \in Nat,
         NEW node, node \in Nodes, NEW p, p \in 1 .. End
  PROVE  LET term == Term(node) IN
         /\ term.op = "class" => Sound(AstCharacters(term.codes, p), node, 0, p)
         /\ term.op = "string" => Sound(AstString(term.tokens, p), node, 0, p)
<1>1. PICK at \in p .. End : at = SkipWs(p)
  BY SkipWsStops
<1>2. PICK term : term = Term(node)
  OBVIOUS
<1>3. CASE term.op = "class"
  <2>1. CASE AstCharacters(term.codes, p) = Fails
    BY <1>2, <2>1, <1>3, AFailure DEF Sound
  <2>2. CASE AstCharacters(term.codes, p) # Fails
    <3>1. AstCharacters(term.codes, p) = Node(at + 1, <<at>>) /\ at # End
      BY <1>1, <2>2 DEF AstCharacters
    <3>2. PICK t \in Seq(Nat) : t = <<at>>
      <4>1. at \in Nat
        BY <1>1
      <4>2. <<at>> \in Seq(Nat)
        BY <4>1
      <4>. QED
        BY <4>2
    <3>3. PICK e \in 1 .. End : e = at + 1 /\ e > p
      BY <1>1, <3>1
    <3>4. AstCharacters(term.codes, p) = Node(e, t)
      BY <3>1, <3>2, <3>3
    <3>5. Sound(Node(e, t), node, 0, p)
      <4>1. Node(e, t) \in Results /\ Node(e, t).end = e
        BY <3>2, <3>3, ANode
      <4>. QED
        BY <3>3, <4>1 DEF Sound
    <3>. QED
      BY <1>2, <1>3, <3>4, <3>5
  <2>. QED
    BY <2>1, <2>2
<1>4. CASE term.op = "string"
  <2>1. PICK n \in Nat : n = Len(term.tokens)
    BY <1>2, <1>4 DEF AreNodes
  <2>2. CASE AstString(term.tokens, p) = Fails
    BY <1>2, <2>2, <1>4, AFailure DEF Sound
  <2>3. CASE AstString(term.tokens, p) # Fails
    <3>1. /\ AstString(term.tokens, p) = Node(at + n, [i \in 1 .. n |-> at + i - 1])
          /\ at + n <= End
      BY <1>1, <2>1, <2>3 DEF AstString
    <3>2. PICK t \in Seq(Nat) : t = [i \in 1 .. n |-> at + i - 1]
      <4>1. \A i \in 1 .. n : at + i - 1 \in Nat
        BY <1>1
      <4>2. [i \in 1 .. n |-> at + i - 1] \in Seq(Nat)
        BY <4>1
      <4>. QED
        BY <4>2
    <3>3. PICK e \in 1 .. End : e = at + n /\ p <= e
      BY <1>1, <3>1
    <3>4. AstString(term.tokens, p) = Node(e, t)
      BY <3>1, <3>2, <3>3
    <3>5. e = p => node \in Nullable
      <4>1. e = p => n = 0
        BY <1>1, <3>3
      <4>2. n = 0 => MayBeEmpty(node, Nullable)
        BY <1>2, <1>4, <2>1 DEF MayBeEmpty
      <4>. QED
        BY <4>1, <4>2 DEF AreNullable
    <3>6. Sound(Node(e, t), node, 0, p)
      BY <3>2, <3>3, <3>5, ANode DEF Sound, MayEnd
    <3>. QED
      BY <1>2, <1>4, <3>4, <3>6
  <2>. QED
    BY <2>2, <2>3
<1>. QED
  BY <1>2, <1>3, <1>4

LEMMA RuleIsSound ==
  ASSUME AreNodes(Nodes), AreNullable(Nodes, Nullable), AreRanked(Nodes, Nullable, Rank),
         End \in Nat,
         NEW h, NEW a, NEW node, NEW p, Asked(h, a, node, 0, p), Term(node).op = "rule"
  PROVE  AstRule(h, Term(node), p) = AstRule(a, Term(node), p) /\ Sound(AstRule(a, Term(node), p), node, 0, p)
<1>1. node \in Nodes /\ p \in 1 .. End
  BY DEF Asked
<1>2. PICK callee \in Nodes : callee = Root(Term(node).grammar, Term(node).rule)
  BY <1>1 DEF AreNodes
<1>3. Before(<<callee, 0, p>>, <<node, 0, p>>)
  <2>1. callee \in LeftCalls(node, Nullable)
    BY <1>2 DEF LeftCalls
  <2>. QED
    BY <1>1, <2>1, CalleeIsBefore
<1>4. PICK r : r = a[<<callee, 0, p>>]
  OBVIOUS
<1>5. h[<<callee, 0, p>>] = r /\ Sound(r, callee, 0, p)
  <2>1. <<callee, 0, p>> \in Places
    BY <1>1 DEF Places
  <2>. QED
    BY <1>1, <1>3, <1>4, <2>1 DEF Asked, AgreeBefore, Sane
<1>6. AstRule(h, Term(node), p) = r /\ AstRule(a, Term(node), p) = r
  BY <1>2, <1>4, <1>5 DEF AstRule
<1>7. callee \in Nullable => node \in Nullable
  BY <1>1, <1>2 DEF AreNullable, MayBeEmpty
<1>. QED
  BY <1>5, <1>6, <1>7 DEF Sound, MayEnd

LEMMA NotIsSound ==
  ASSUME AreNodes(Nodes), AreNullable(Nodes, Nullable), End \in Nat,
         NEW h, NEW a, NEW node, NEW p, Asked(h, a, node, 0, p), Term(node).op = "not"
  PROVE  AstNot(h, node, p) = AstNot(a, node, p) /\ Sound(AstNot(a, node, p), node, 0, p)
<1>1. node \in Nodes /\ p \in 1 .. End /\ Term(node).op \in Combinators /\ Arity(Term(node)) \in Nat
  BY DEF Asked, AreNodes, Combinators
<1>2. PICK q \in p .. End : q = SkipWs(p)
  BY <1>1, SkipWsStops
<1>3. PICK rest : rest = a[<<node, 1, q>>]
  OBVIOUS
<1>4. IsRest(node, 0, p, 1, q)
  BY <1>1, <1>2 DEF IsRest
<1>5. h[<<node, 1, q>>] = rest
  BY <1>3, <1>4, RestOf
<1>6. MayEnd(node, 0)
  BY <1>1 DEF MayEnd, AreNullable, MayBeEmpty
<1>7. AstNot(h, node, p) = AstNot(a, node, p) /\ AstNot(a, node, p) \in {Fails, Node(p, <<>>)}
  BY <1>2, <1>3, <1>5 DEF AstNot
<1>. QED
  BY <1>1, <1>6, <1>7, AnEmptyNode, AFailure DEF Sound

LEMMA OperandsAreSound ==
  ASSUME AreNodes(Nodes), AreNullable(Nodes, Nullable), End \in Nat,
         NEW h, NEW a, NEW node, NEW p, Asked(h, a, node, 0, p),
         Term(node).op \in {"and", "or", "zero_or_more"}
  PROVE  h[<<node, 1, p>>] = a[<<node, 1, p>>] /\ Sound(a[<<node, 1, p>>], node, 0, p)
<1>1. node \in Nodes /\ p \in 1 .. End /\ Term(node).op \in Combinators /\ Arity(Term(node)) \in Nat
  BY DEF Asked, AreNodes, Combinators
<1>2. PICK rest : rest = a[<<node, 1, p>>]
  OBVIOUS
<1>3. IsRest(node, 0, p, 1, p)
  BY <1>1 DEF IsRest
<1>4. h[<<node, 1, p>>] = rest /\ rest \in Results /\ Sound(rest, node, 1, p)
  BY <1>2, <1>3, RestOf
<1>5. MayEnd(node, 1) => node \in Nullable
  BY <1>1 DEF MayEnd, AreNullable, MayBeEmpty
<1>. QED
  BY <1>2, <1>4, <1>5 DEF Sound, MayEnd

LEMMA OneOrMoreIsSound ==
  ASSUME AreNodes(Nodes), AreNullable(Nodes, Nullable), AreRanked(Nodes, Nullable, Rank),
         End \in Nat,
         NEW h, NEW a, NEW node, NEW p, Asked(h, a, node, 0, p), Term(node).op = "one_or_more"
  PROVE  /\ AstOneOrMore(h, node, p) = AstOneOrMore(a, node, p)
         /\ Sound(AstOneOrMore(a, node, p), node, 0, p)
<1>1. /\ node \in Nodes /\ p \in 1 .. End
      /\ Term(node).op \in Combinators /\ Arity(Term(node)) \in Nat \ {0}
  BY DEF Asked, AreNodes, Combinators
<1>2. IsOperand(node, 0, 1)
  BY <1>1 DEF IsOperand
<1>3. PICK first : first = a[<<Child(node, 1), 0, p>>]
  OBVIOUS
<1>4. /\ h[<<Child(node, 1), 0, p>>] = first /\ first \in Results
      /\ ~Failed(first) => /\ first.end \in p .. End /\ first.text \in Seq(Nat)
                           /\ first.end = p => Child(node, 1) \in Nullable
  BY <1>2, <1>3, Operand
<1>5. CASE Failed(first)
  <2>1. AstOneOrMore(h, node, p) = Fails /\ AstOneOrMore(a, node, p) = Fails
    BY <1>3, <1>4, <1>5 DEF AstOneOrMore
  <2>. QED
    BY <2>1, AFailure DEF Sound
<1>6. CASE ~Failed(first)
  <2>1. PICK q \in p .. End : q = first.end
    BY <1>4, <1>6
  <2>2. PICK rest : rest = a[<<node, 1, q>>]
    OBVIOUS
  <2>3. IsRest(node, 0, p, 1, q)
    BY <1>1, <2>1 DEF IsRest
  <2>4. /\ h[<<node, 1, q>>] = rest /\ rest \in Results
        /\ ~Failed(rest) => rest.end \in q .. End
    BY <2>2, <2>3, RestOf
  <2>5. AstOneOrMore(h, node, p) = Adopt(first.text, rest) /\ AstOneOrMore(a, node, p) = Adopt(first.text, rest)
    BY <1>3, <1>4, <1>6, <2>1, <2>2, <2>4 DEF AstOneOrMore
  <2>6. q = p => node \in Nullable
    BY <1>1, <1>4, <1>6, <2>1 DEF AreNullable, MayBeEmpty
  <2>. QED
    BY <1>1, <1>4, <1>6, <2>1, <2>4, <2>5, <2>6, AnAdoption DEF Sound, MayEnd
<1>. QED
  BY <1>5, <1>6

LEMMA ZeroOrOneIsSound ==
  ASSUME AreNodes(Nodes), AreNullable(Nodes, Nullable), AreRanked(Nodes, Nullable, Rank),
         End \in Nat,
         NEW h, NEW a, NEW node, NEW p, Asked(h, a, node, 0, p), Term(node).op = "zero_or_one"
  PROVE  /\ AstZeroOrOne(h, node, p) = AstZeroOrOne(a, node, p)
         /\ Sound(AstZeroOrOne(a, node, p), node, 0, p)
<1>1. /\ node \in Nodes /\ p \in 1 .. End
      /\ Term(node).op \in Combinators /\ Arity(Term(node)) \in Nat \ {0}
  BY DEF Asked, AreNodes, Combinators
<1>2. IsOperand(node, 0, 1)
  BY <1>1 DEF IsOperand
<1>3. PICK first : first = a[<<Child(node, 1), 0, p>>]
  OBVIOUS
<1>4. /\ h[<<Child(node, 1), 0, p>>] = first /\ first \in Results
      /\ ~Failed(first) => first.end \in p .. End
  BY <1>2, <1>3, Operand
<1>5. MayEnd(node, 0)
  BY <1>1 DEF MayEnd, AreNullable, MayBeEmpty
<1>6. CASE Failed(first)
  <2>1. AstZeroOrOne(h, node, p) = Node(p, <<>>) /\ AstZeroOrOne(a, node, p) = Node(p, <<>>)
    BY <1>3, <1>4, <1>6 DEF AstZeroOrOne
  <2>. QED
    BY <1>1, <1>5, <2>1, AnEmptyNode DEF Sound
<1>7. CASE ~Failed(first)
  <2>1. AstZeroOrOne(h, node, p) = first /\ AstZeroOrOne(a, node, p) = first
    BY <1>3, <1>4, <1>7 DEF AstZeroOrOne
  <2>. QED
    BY <1>1, <1>4, <1>5, <1>7, <2>1 DEF Sound
<1>. QED
  BY <1>6, <1>7

\* A result is one that the node may have there, and depends on no place but those before.
LEMMA AstIsSound ==
  ASSUME AreNodes(Nodes), AreNullable(Nodes, Nullable), AreRanked(Nodes, Nullable, Rank),
         End \in Nat,
         NEW h, NEW a, NEW node, NEW i, NEW p, Asked(h, a, node, i, p)
  PROVE  /\ AstAt(h, Term(node), node, i, p) = AstAt(a, Term(node), node, i, p)
         /\ Sound(AstAt(a, Term(node), node, i, p), node, i, p)
<1>1. node \in Nodes /\ i \in Nat /\ p \in 1 .. End
  BY DEF Asked
<1>2. CASE i = 0
  <2>1. Term(node).op \in {"class", "string", "rule", "not", "and", "or", "zero_or_more",
                           "one_or_more", "zero_or_one"}
    BY <1>1 DEF AreNodes, Combinators
  <2>2. Asked(h, a, node, 0, p)
    BY <1>2
  <2>3. /\ AstAt(h, Term(node), node, i, p) = AstCall(h, Term(node), node, p)
        /\ AstAt(a, Term(node), node, i, p) = AstCall(a, Term(node), node, p)
    BY <1>2 DEF AstAt
  <2>4. /\ AstCall(h, Term(node), node, p) = AstCall(a, Term(node), node, p)
        /\ Sound(AstCall(a, Term(node), node, p), node, 0, p)
    <3>1. CASE Term(node).op \in {"class", "string"}
      <4>1. \A g : AstCall(g, Term(node), node, p) =
              IF Term(node).op = "class" THEN AstCharacters(Term(node).codes, p)
                                         ELSE AstString(Term(node).tokens, p)
        BY <3>1 DEF AstCall
      <4>2. /\ Term(node).op = "class" => Sound(AstCharacters(Term(node).codes, p), node, 0, p)
            /\ Term(node).op = "string" => Sound(AstString(Term(node).tokens, p), node, 0, p)
        BY <1>1, TerminalIsSound
      <4>. QED
        BY <3>1, <4>1, <4>2
    <3>2. CASE Term(node).op = "rule"
      <4>1. \A g : AstCall(g, Term(node), node, p) = AstRule(g, Term(node), p)
        BY <3>2 DEF AstCall
      <4>. QED
        BY <2>2, <3>2, <4>1, RuleIsSound
    <3>3. CASE Term(node).op = "not"
      <4>1. \A g : AstCall(g, Term(node), node, p) = AstNot(g, node, p)
        BY <3>3 DEF AstCall
      <4>. QED
        BY <2>2, <3>3, <4>1, NotIsSound
    <3>4. CASE Term(node).op \in {"and", "or", "zero_or_more"}
      <4>1. \A g : AstCall(g, Term(node), node, p) = g[<<node, 1, p>>]
        BY <3>4 DEF AstCall
      <4>. QED
        BY <2>2, <3>4, <4>1, OperandsAreSound
    <3>5. CASE Term(node).op = "one_or_more"
      <4>1. \A g : AstCall(g, Term(node), node, p) = AstOneOrMore(g, node, p)
        BY <3>5 DEF AstCall
      <4>. QED
        BY <2>2, <3>5, <4>1, OneOrMoreIsSound
    <3>6. CASE Term(node).op = "zero_or_one"
      <4>1. \A g : AstCall(g, Term(node), node, p) = AstZeroOrOne(g, node, p)
        BY <3>6 DEF AstCall
      <4>. QED
        BY <2>2, <3>6, <4>1, ZeroOrOneIsSound
    <3>. QED
      BY <2>1, <3>1, <3>2, <3>3, <3>4, <3>5, <3>6
  <2>. QED
    BY <1>2, <2>3, <2>4
<1>3. CASE i > 0
  <2>1. /\ AstAt(h, Term(node), node, i, p) = AstRest(h, Term(node), node, i, p)
        /\ AstAt(a, Term(node), node, i, p) = AstRest(a, Term(node), node, i, p)
    BY <1>3 DEF AstAt
  <2>2. CASE Term(node).op \in {"and", "not"}
    <3>1. \A g : AstRest(g, Term(node), node, i, p) = AstAnd(g, Term(node), node, i, p)
      BY <2>2 DEF AstRest
    <3>. QED
      BY <1>3, <2>1, <2>2, <3>1, AndIsSound
  <2>3. CASE Term(node).op = "or"
    <3>1. \A g : AstRest(g, Term(node), node, i, p) = AstOr(g, Term(node), node, i, p)
      BY <2>3 DEF AstRest
    <3>. QED
      BY <1>3, <2>1, <2>3, <3>1, OrIsSound
  <2>4. CASE Term(node).op \in {"zero_or_more", "one_or_more"}
    <3>1. \A g : AstRest(g, Term(node), node, i, p) = AstLoop(g, node, p)
      BY <2>4 DEF AstRest
    <3>. QED
      BY <1>3, <2>1, <2>4, <3>1, LoopIsSound
  <2>5. CASE Term(node).op \notin {"and", "not", "or", "zero_or_more", "one_or_more"}
    <3>1. \A g : AstRest(g, Term(node), node, i, p) = Fails
      BY <2>5 DEF AstRest
    <3>. QED
      BY <2>1, <3>1, AFailure DEF Sound
  <2>. QED
    BY <2>2, <2>3, <2>4, <2>5
<1>. QED
  BY <1>1, <1>2, <1>3

-----------------------------------------------------------------------------
(* The functions have values everywhere: their recursion ends. *)

Solves(f, x) == f[x] = AstAt(f, Term(x[1]), x[1], x[2], x[3])
UpTo(x) == {y \in Places : y = x \/ Before(y, x)}
SolvesUpTo(f, x) == Sane(f) /\ \A y \in UpTo(x) : Solves(f, y)

LEMMA PlacesAsk ==
  ASSUME NEW h, NEW a, Sane(a), NEW x \in Places, AgreeBefore(h, a, x)
  PROVE  Asked(h, a, x[1], x[2], x[3])
BY DEF Places, Asked

\* Two functions that do what parse_ast.hpp says below some places are one there.
LEMMA OneSolution ==
  ASSUME AreNodes(Nodes), AreNullable(Nodes, Nullable), AreRanked(Nodes, Nullable, Rank),
         End \in Nat,
         NEW h, NEW a, Sane(a), NEW S \in SUBSET Places,
         \A x \in S, y \in Places : Before(y, x) => y \in S,
         \A x \in S : Solves(a, x) /\ Solves(h, x)
  PROVE  \A x \in S : h[x] = a[x]
<1>. DEFINE T == {x \in S : h[x] # a[x]}
<1>1. ASSUME T # {} PROVE FALSE
  <2>1. PICK x \in T : \A y \in T : ~Before(y, x)
    BY <1>1, FirstPlace
  <2>2. AgreeBefore(h, a, x) /\ x \in Places
    BY <2>1 DEF AgreeBefore
  <2>3. AstAt(h, Term(x[1]), x[1], x[2], x[3]) = AstAt(a, Term(x[1]), x[1], x[2], x[3])
    BY <2>2, PlacesAsk, AstIsSound
  <2>. QED
    BY <2>1, <2>3 DEF Solves
<1>. QED
  BY <1>1

LEMMA UpToGoesDown ==
  ASSUME AreNodes(Nodes), AreRanked(Nodes, Nullable, Rank), End \in Nat, NEW x \in Places
  PROVE  /\ UpTo(x) \in SUBSET Places /\ x \in UpTo(x)
         /\ \A y \in UpTo(x), z \in Places : Before(z, y) => z \in UpTo(x) /\ z # x
<1>1. ASSUME NEW y \in UpTo(x), NEW z \in Places, Before(z, y) PROVE Before(z, x)
  BY <1>1, BeforeIsAnOrder DEF UpTo
<1>2. ~Before(x, x)
  BY BeforeIsAnOrder
<1>. QED
  BY <1>1, <1>2 DEF UpTo

LEMMA SolutionsAgree ==
  ASSUME AreNodes(Nodes), AreNullable(Nodes, Nullable), AreRanked(Nodes, Nullable, Rank),
         End \in Nat,
         NEW x \in Places, NEW z \in UpTo(x), NEW a, SolvesUpTo(a, x), NEW h, SolvesUpTo(h, z)
  PROVE  h[z] = a[z]
<1>1. z \in Places /\ UpTo(z) \in SUBSET Places /\ z \in UpTo(z) /\ UpTo(z) \subseteq UpTo(x)
  <2>1. z \in Places
    BY DEF UpTo
  <2>. QED
    BY <2>1, UpToGoesDown DEF UpTo
<1>2. \A u \in UpTo(z), y \in Places : Before(y, u) => y \in UpTo(z)
  BY <1>1, UpToGoesDown
<1>3. \A u \in UpTo(z) : Solves(a, u) /\ Solves(h, u)
  BY <1>1 DEF SolvesUpTo
<1>4. \A u \in UpTo(z) : h[u] = a[u]
  BY <1>1, <1>2, <1>3, OneSolution DEF SolvesUpTo
<1>. QED
  BY <1>1, <1>4

\* Places that one function solves each are solved by one function.
LEMMA Together ==
  ASSUME AreNodes(Nodes), AreNullable(Nodes, Nullable), AreRanked(Nodes, Nullable, Rank),
         End \in Nat,
         NEW S \in SUBSET Places, \A x \in S, y \in Places : Before(y, x) => y \in S,
         \A x \in S : \E f : SolvesUpTo(f, x)
  PROVE  \E f : Sane(f) /\ \A x \in S : Solves(f, x)
<1>. DEFINE up(x) == CHOOSE f : SolvesUpTo(f, x)
            f == [x \in Places |-> IF x \in S THEN up(x)[x] ELSE Fails]
<1>1. \A x \in S : SolvesUpTo(up(x), x)
  OBVIOUS
<1>. HIDE DEF up
<1>2. \A x \in Places : f[x] = IF x \in S THEN up(x)[x] ELSE Fails
  OBVIOUS
<1>3. Sane(f)
  <2>1. ASSUME NEW node \in Nodes, NEW i \in Nat, NEW p \in 1 .. End
        PROVE  Sound(f[<<node, i, p>>], node, i, p)
    <3>1. PICK x \in Places : x = <<node, i, p>>
      BY DEF Places
    <3>2. CASE x \in S
      BY <1>1, <1>2, <3>1, <3>2 DEF SolvesUpTo, Sane
    <3>3. CASE x \notin S
      BY <1>2, <3>1, <3>3, AFailure DEF Sound
    <3>. QED
      BY <3>2, <3>3
  <2>2. \A x \in Places : f[x] \in Results
    <3>1. ASSUME NEW x \in S PROVE up(x)[x] \in Results
      BY <1>1 DEF SolvesUpTo, Sane
    <3>. QED
      BY <1>2, <3>1, AFailure
  <2>. QED
    BY <2>1, <2>2 DEF Sane
<1>. HIDE DEF f
<1>4. ASSUME NEW x \in S PROVE Solves(f, x)
  <2>1. \A z \in UpTo(x) : f[z] = up(x)[z]
    <3>1. ASSUME NEW z \in UpTo(x) PROVE f[z] = up(x)[z]
      <4>1. z \in S /\ z \in Places /\ x \in Places
        BY DEF UpTo
      <4>2. up(z)[z] = up(x)[z]
        BY <1>1, <4>1, SolutionsAgree
      <4>. QED
        BY <1>2, <4>1, <4>2
    <3>. QED
      BY <3>1
  <2>2. AgreeBefore(f, up(x), x) /\ x \in Places /\ x \in UpTo(x)
    BY <2>1 DEF AgreeBefore, UpTo
  <2>3. Sane(up(x)) /\ Solves(up(x), x)
    BY <1>1, <2>2 DEF SolvesUpTo
  <2>4. AstAt(f, Term(x[1]), x[1], x[2], x[3]) = AstAt(up(x), Term(x[1]), x[1], x[2], x[3])
    BY <2>2, <2>3, PlacesAsk, AstIsSound
  <2>. QED
    BY <2>1, <2>2, <2>3, <2>4 DEF Solves
<1>. QED
  BY <1>3, <1>4

LEMMA SolvedBelow ==
  ASSUME AreNodes(Nodes), AreNullable(Nodes, Nullable), AreRanked(Nodes, Nullable, Rank),
         End \in Nat,
         NEW x \in Places, NEW a, Sane(a), \A y \in Places : Before(y, x) => Solves(a, y)
  PROVE  \E f : SolvesUpTo(f, x)
<1>. DEFINE f == [a EXCEPT ![x] = AstAt(a, Term(x[1]), x[1], x[2], x[3])]
<1>1. ~Before(x, x)
  BY BeforeIsAnOrder
<1>2. Sound(AstAt(a, Term(x[1]), x[1], x[2], x[3]), x[1], x[2], x[3])
  BY PlacesAsk, AstIsSound DEF AgreeBefore
<1>3. /\ f \in [Places -> Results]
      /\ \A y \in Places : f[y] = IF y = x THEN AstAt(a, Term(x[1]), x[1], x[2], x[3]) ELSE a[y]
  BY <1>2 DEF Sane, Sound
<1>. HIDE DEF f
<1>4. Sane(f)
  <2>1. ASSUME NEW node \in Nodes, NEW i \in Nat, NEW p \in 1 .. End
        PROVE  Sound(f[<<node, i, p>>], node, i, p)
    <3>1. PICK y \in Places : y = <<node, i, p>>
      BY DEF Places
    <3>2. CASE y = x
      <4>1. x[1] = node /\ x[2] = i /\ x[3] = p
        BY <3>1, <3>2
      <4>. QED
        BY <1>2, <1>3, <3>1, <3>2, <4>1
    <3>3. CASE y # x
      BY <1>3, <3>1, <3>3 DEF Sane
    <3>. QED
      BY <3>2, <3>3
  <2>. QED
    BY <1>3, <2>1 DEF Sane
<1>5. ASSUME NEW y \in UpTo(x) PROVE Solves(f, y)
  <2>1. y \in Places
    BY DEF UpTo
  <2>2. \A z \in Places : Before(z, y) => z # x
    BY UpToGoesDown
  <2>3. AgreeBefore(f, a, y)
    BY <1>3, <2>2 DEF AgreeBefore
  <2>4. AstAt(f, Term(y[1]), y[1], y[2], y[3]) = AstAt(a, Term(y[1]), y[1], y[2], y[3])
    BY <2>1, <2>3, PlacesAsk, AstIsSound
  <2>5. CASE y = x
    BY <1>3, <2>4, <2>5 DEF Solves
  <2>6. CASE y # x
    BY <1>3, <2>1, <2>4, <2>6 DEF Solves, UpTo
  <2>. QED
    BY <2>5, <2>6
<1>. QED
  BY <1>4, <1>5 DEF SolvesUpTo

\* Every function of parse_ast.hpp returns, and Ast is what they return.
LEMMA AstIsSolved ==
  ASSUME AreNodes(Nodes), AreNullable(Nodes, Nullable), AreRanked(Nodes, Nullable, Rank),
         End \in Nat
  PROVE  Sane(Ast) /\ \A x \in Places : Solves(Ast, x)
<1>1. \A x \in Places : \E f : SolvesUpTo(f, x)
  <2>. DEFINE T == {x \in Places : ~\E f : SolvesUpTo(f, x)}
  <2>1. ASSUME T # {} PROVE FALSE
    <3>1. PICK x \in T : \A y \in T : ~Before(y, x)
      BY <2>1, FirstPlace
    <3>. DEFINE S == {y \in Places : Before(y, x)}
    <3>2. S \in SUBSET Places /\ x \in Places
      OBVIOUS
    <3>3. \A u \in S, y \in Places : Before(y, u) => y \in S
      BY <3>2, BeforeIsAnOrder
    <3>4. \A u \in S : \E f : SolvesUpTo(f, u)
      BY <3>1
    <3>. HIDE DEF S
    <3>5. PICK a : Sane(a) /\ \A u \in S : Solves(a, u)
      BY <3>2, <3>3, <3>4, Together
    <3>6. \E f : SolvesUpTo(f, x)
      BY <3>2, <3>5, SolvedBelow DEF S
    <3>. QED
      BY <3>1, <3>6
  <2>. QED
    BY <2>1
<1>2. PICK a : Sane(a) /\ \A x \in Places : Solves(a, x)
  BY <1>1, Together
<1>3. a = [x \in Places |-> AstAt(a, Term(x[1]), x[1], x[2], x[3])]
  BY <1>2 DEF Sane, Solves
<1>4. Ast = [x \in Places |-> AstAt(Ast, Term(x[1]), x[1], x[2], x[3])]
  BY <1>3 DEF Ast
<1>5. \A x \in Places : Solves(Ast, x)
  BY <1>4 DEF Solves
<1>6. \A x \in Places : Ast[x] = a[x]
  BY <1>2, <1>5, OneSolution
<1>7. Ast = a
  BY <1>3, <1>4, <1>6
<1>. QED
  BY <1>2, <1>5, <1>7

-----------------------------------------------------------------------------
(* The parsers agree. *)

\* What the reply says, as parse_ast.hpp would.
Answer == IF GotNode THEN Node(begin, reply.text) ELSE Fails

\* What a frame returns if the child that it has called at a position returns first.
Resumed(c, at, first) ==
  CASE Op(c) = "rule" -> first
    [] Op(c) = "and" ->
         IF Failed(first) THEN Fails
         ELSE Adopt(c.text \o first.text, Ast[<<c.node, c.child + 1, first.end>>])
    [] Op(c) = "or" ->
         IF Failed(first) THEN Ast[<<c.node, c.child + 1, c.backup>>] ELSE first
    [] Op(c) = "not" ->
         IF Failed(first) \/ Failed(Ast[<<c.node, c.child + 1, first.end>>])
         THEN Node(c.backup, <<>>) ELSE Fails
    [] Op(c) = "zero_or_one" ->
         IF Failed(first) THEN Node(c.backup, <<>>) ELSE first
    [] Op(c) = "one_or_more" /\ c.child = 1 ->
         IF Failed(first) THEN Fails
         ELSE Adopt(first.text, Ast[<<c.node, 1, first.end>>])
    [] InLoop(c) ->
         IF Failed(first) \/ first.end = at THEN Node(at, c.text)
         ELSE Adopt(c.text \o first.text, Ast[<<c.node, 1, first.end>>])

\* A frame that waits is going to return what the function of its node does.
Owes(c, at) == Ast[<<c.node, 0, c.backup>>] = Resumed(c, at, Ast[<<Called(c), 0, at>>])

CallersOwe == \A i \in 2 .. Len(stack) : Owes(stack[i], stack[i - 1].backup)

StartsAtRoot ==
  LET first == stack[Len(stack)]
  IN first.node = Root(sample.grammar, sample.rule) /\ first.backup = 1

Answered ==
  IF stack = <<>> THEN Answer = AstRoot
  ELSE Owes(Top, reply.from) /\ Answer = Ast[<<Called(Top), 0, reply.from>>]

AgreeInv ==
  /\ CallersOwe
  /\ stack # <<>> => StartsAtRoot
  /\ reply # NoReply => Answered
  /\ outcome # "parsing" => stack = <<>> /\ (outcome = "accepted" <=> AstAccepts(AstRoot))

LEMMA SameAst ==
  ASSUME sample' = sample
  PROVE  Ast' = Ast
BY DEF Ast, Places, AstAt, AstCall, AstRest, AstAnd, AstOr, AstNot, AstLoop, AstOneOrMore,
       AstZeroOrOne, AstRule, AstCharacters, AstString, SkipWs, Blank, End, Input, InClass

LEMMA SameDebts ==
  ASSUME sample' = sample
  PROVE  /\ AstRoot' = AstRoot /\ AstAccepts(AstRoot)' = AstAccepts(AstRoot)
         /\ \A c, at : Owes(c, at)' = Owes(c, at)
<1>1. Ast' = Ast
  BY SameAst
<1>2. AstRoot' = AstRoot
  BY <1>1 DEF AstRoot
<1>3. AstAccepts(AstRoot)' = AstAccepts(AstRoot)
  BY <1>2 DEF AstAccepts, End, Input
<1>4. ASSUME NEW c, NEW at PROVE Owes(c, at)' = Owes(c, at)
  BY <1>1 DEF Owes, Resumed
<1>. QED
  BY <1>2, <1>3, <1>4

LEMMA CallersOweNext ==
  ASSUME sample' = sample, \A i \in 2 .. Len(stack') : Owes(stack'[i], stack'[i - 1].backup)
  PROVE  CallersOwe'
<1>1. ASSUME NEW i \in 2 .. Len(stack') PROVE Owes(stack[i], stack[i - 1].backup)'
  <2>1. PICK c, at : c = stack'[i] /\ at = stack'[i - 1].backup
    OBVIOUS
  <2>2. Owes(c, at)
    BY <1>1, <2>1
  <2>3. Owes(c, at)'
    BY <2>2, SameDebts
  <2>. QED
    BY <2>1, <2>3
<1>. QED
  BY <1>1 DEF CallersOwe

\* Where a step of a parse() that is in progress may start.
AstSolved == Sane(Ast) /\ \A x \in Places : Solves(Ast, x)
Simulating ==
  /\ SpanInv /\ AgreeInv /\ AstSolved /\ AreNodes(Nodes)
  /\ stack # <<>> /\ sample' = sample /\ outcome' = outcome

LEMMA AstAtPlaces ==
  ASSUME AstSolved, NEW node, node \in Nodes, NEW i, i \in Nat, NEW p, p \in 1 .. End
  PROVE  /\ Ast[<<node, i, p>>] = AstAt(Ast, Term(node), node, i, p)
         /\ Ast[<<node, i, p>>] \in Results
<1>1. PICK x \in Places : x = <<node, i, p>>
  BY DEF Places
<1>2. x[1] = node /\ x[2] = i /\ x[3] = p
  BY <1>1
<1>. QED
  BY <1>1, <1>2 DEF AstSolved, Solves, Sane

\* A parse() that returns what its function does pays what its caller waits for.
LEMMA PopAgrees ==
  ASSUME Simulating, NEW kind, NEW at, NEW text, Return(kind, at, text),
         \/ kind = "node" /\ Ast[<<Top.node, 0, Top.backup>>] = Node(at, text)
         \/ kind = "null" /\ Ast[<<Top.node, 0, Top.backup>>] = Fails
  PROVE  AgreeInv'
<1>1. /\ stack' = Tail(stack) /\ begin' = at
      /\ reply' = [kind |-> kind, from |-> Top.backup, text |-> text]
  BY DEF Return
<1>2. /\ stack \in Seq(Frames) /\ Len(stack) \in Nat \ {0} /\ Top = stack[1]
      /\ Len(stack') = Len(stack) - 1 /\ (stack' = <<>> <=> Len(stack) = 1)
      /\ \A i \in 1 .. Len(stack') : stack'[i] = stack[i + 1]
  <2>1. stack \in Seq(Frames) /\ stack # <<>> /\ Top = stack[1]
    BY DEF Simulating, SpanInv, Top
  <2>2. stack' \in Seq(Frames) /\ Len(stack) \in Nat \ {0} /\ Len(stack') = Len(stack) - 1
    BY <1>1, <2>1
  <2>3. stack' = <<>> <=> Len(stack) = 1
    <3>1. PICK n \in Nat \ {0} : n = Len(stack)
      BY <2>2
    <3>2. stack' \in Seq(Frames) /\ Len(stack') = n - 1
      BY <2>2, <3>1
    <3>3. stack' = <<>> <=> n = 1
      BY <3>2
    <3>. QED
      BY <3>1, <3>3
  <2>4. \A i \in 1 .. Len(stack') : stack'[i] = stack[i + 1]
    BY <1>1, <2>1
  <2>. QED
    BY <2>1, <2>2, <2>3, <2>4
<1>3. Answer' = Ast[<<Top.node, 0, Top.backup>>]
  BY <1>1 DEF Answer, GotNode
<1>4. ASSUME NEW i \in 2 .. Len(stack') PROVE Owes(stack'[i], stack'[i - 1].backup)
  <2>1. i + 1 \in 2 .. Len(stack) /\ (i + 1) - 1 = i /\ i - 1 \in 1 .. Len(stack') /\ (i - 1) + 1 = i
    BY <1>2
  <2>2. stack'[i] = stack[i + 1] /\ stack'[i - 1] = stack[i]
    BY <1>2, <2>1
  <2>. QED
    BY <2>1, <2>2 DEF Simulating, AgreeInv, CallersOwe
<1>5. CallersOwe'
  BY <1>4, CallersOweNext DEF Simulating
<1>6. CASE stack' = <<>>
  <2>1. Ast[<<Top.node, 0, Top.backup>>] = AstRoot
    BY <1>2, <1>6 DEF Simulating, AgreeInv, StartsAtRoot, AstRoot
  <2>2. Answered'
    BY <1>3, <1>6, <2>1, SameDebts DEF Answered, Simulating
  <2>. QED
    BY <1>5, <1>6, <2>2 DEF AgreeInv, Simulating
<1>7. CASE stack' # <<>>
  <2>1. Len(stack) >= 2 /\ 2 \in 2 .. Len(stack) /\ 2 - 1 = 1 /\ Len(stack') \in 1 .. Len(stack')
    BY <1>2, <1>7
  <2>2. Top' = stack[2]
    BY <1>2, <2>1 DEF Top
  <2>3. Owes(stack[2], Top.backup) /\ Top.node = Called(stack[2])
    BY <1>2, <2>1 DEF Simulating, AgreeInv, CallersOwe, SpanInv, CallersWait
  <2>4. Owes(Top, reply.from)'
    <3>1. PICK c, at2 : c = stack[2] /\ at2 = Top.backup
      OBVIOUS
    <3>2. Owes(c, at2)'
      BY <2>3, <3>1, SameDebts DEF Simulating
    <3>3. Top' = c /\ reply'.from = at2
      BY <1>1, <2>2, <3>1
    <3>. QED
      BY <3>2, <3>3
  <2>5. Answer' = Ast[<<Called(Top'), 0, reply'.from>>]
    BY <1>1, <1>3, <2>2, <2>3
  <2>6. Answered'
    BY <1>7, <2>4, <2>5, SameAst DEF Answered, Called, Op, Simulating
  <2>7. StartsAtRoot'
    <3>1. stack'[Len(stack')] = stack[Len(stack)]
      BY <1>2, <2>1
    <3>. QED
      BY <3>1 DEF StartsAtRoot, Simulating, AgreeInv
  <2>. QED
    BY <1>5, <1>7, <2>6, <2>7 DEF AgreeInv, Simulating
<1>. QED
  BY <1>6, <1>7

\* One that calls a child and owes what it owed goes on.
LEMMA CallAgrees ==
  ASSUME Simulating, NEW caller \in Frames, NEW at \in 1 .. End, NEW node \in Nodes,
         stack' = <<Frame(node, at), caller>> \o Tail(stack), reply' = NoReply,
         caller.node = Top.node, caller.backup = Top.backup, Owes(caller, at)
  PROVE  AgreeInv'
<1>1. stack \in Seq(Frames) /\ Len(stack) \in Nat \ {0} /\ Top = stack[1]
  BY DEF Simulating, SpanInv, Top
<1>2. Frame(node, at) \in Frames /\ Frame(node, at).backup = at
  BY DEF Frame, Frames
<1>3. /\ stack' \in Seq(Frames) /\ Len(stack') = Len(stack) + 1
      /\ stack'[1] = Frame(node, at) /\ stack'[2] = caller
      /\ \A i \in 3 .. Len(stack') : stack'[i] = stack[i - 1]
  BY <1>1, <1>2, TwoInFront DEF Simulating
<1>4. ASSUME NEW i \in 2 .. Len(stack') PROVE Owes(stack'[i], stack'[i - 1].backup)
  <2>1. CASE i = 2
    BY <1>2, <1>3, <2>1
  <2>2. CASE i > 2
    <3>1. /\ i - 1 \in 2 .. Len(stack) /\ (i - 1) - 1 \in 1 .. Len(stack) /\ i \in 3 .. Len(stack')
      BY <1>1, <1>3, <2>2
    <3>2. Owes(stack[i - 1], stack[(i - 1) - 1].backup)
      BY <3>1 DEF Simulating, AgreeInv, CallersOwe
    <3>3. stack'[i] = stack[i - 1]
      BY <1>3, <3>1
    <3>4. stack'[i - 1].backup = stack[(i - 1) - 1].backup
      <4>1. CASE i = 3
        BY <1>1, <1>3, <4>1
      <4>2. CASE i > 3
        BY <1>3, <3>1, <4>2
      <4>. QED
        BY <2>2, <4>1, <4>2
    <3>. QED
      BY <3>2, <3>3, <3>4
  <2>. QED
    BY <2>1, <2>2
<1>5. CallersOwe'
  BY <1>4, CallersOweNext DEF Simulating
<1>6. StartsAtRoot'
  <2>1. CASE Len(stack) = 1
    BY <1>1, <1>3, <2>1 DEF StartsAtRoot, Simulating, AgreeInv
  <2>2. CASE Len(stack) # 1
    <3>1. Len(stack') \in 3 .. Len(stack') /\ Len(stack') - 1 = Len(stack)
      <4>1. PICK n \in Nat \ {0} : n = Len(stack)
        BY <1>1
      <4>2. n # 1 /\ Len(stack') = n + 1
        BY <1>3, <2>2, <4>1
      <4>. QED
        BY <4>1, <4>2
    <3>2. stack'[Len(stack')] = stack[Len(stack)]
      BY <1>3, <3>1
    <3>. QED
      BY <3>2 DEF StartsAtRoot, Simulating, AgreeInv
  <2>. QED
    BY <2>1, <2>2
<1>. QED
  BY <1>5, <1>6 DEF AgreeInv, Simulating, NoReply

LEMMA AdoptTwice ==
  ASSUME NEW t, t \in Seq(Nat), NEW u, u \in Seq(Nat), NEW r, r \in Results
  PROVE  Adopt(t, Adopt(u, r)) = Adopt(t \o u, r)
<1>1. CASE Failed(r)
  BY <1>1, AFailure DEF Adopt
<1>2. CASE ~Failed(r)
  <2>1. PICK v \in Seq(Nat) : v = r.text
    BY <1>2, AResult
  <2>2. /\ Adopt(u, r) = Node(r.end, u \o v) /\ ~Failed(Adopt(u, r))
        /\ Adopt(u, r).end = r.end /\ Adopt(u, r).text = u \o v
    BY <1>2, <2>1 DEF Adopt, Node, Failed
  <2>3. t \o (u \o v) = (t \o u) \o v
    <3>1. ASSUME NEW x \in Seq(Nat), NEW y \in Seq(Nat), NEW z \in Seq(Nat)
          PROVE  x \o (y \o z) = (x \o y) \o z
      BY SMTT(60)
    <3>. QED
      BY <2>1, <3>1
  <2>. QED
    BY <1>2, <2>1, <2>2, <2>3 DEF Adopt
<1>. QED
  BY <1>1, <1>2

LEMMA AdoptNothing ==
  ASSUME NEW r, r \in Results
  PROVE  Adopt(<<>>, r) = r
<1>1. CASE Failed(r)
  BY <1>1, AResult DEF Adopt
<1>2. CASE ~Failed(r)
  <2>1. <<>> \o r.text = r.text
    BY <1>2, AResult
  <2>. QED
    BY <1>2, <2>1, AResult DEF Adopt
<1>. QED
  BY <1>1, <1>2

LEMMA AdoptEnd ==
  ASSUME NEW t, t \in Seq(Nat), NEW e
  PROVE  Adopt(t, Node(e, <<>>)) = Node(e, t)
BY DEF Adopt, Node, Failed

LEMMA ResumeRule ==
  ASSUME NEW c, NEW at, NEW first, Op(c) = "rule"
  PROVE  Resumed(c, at, first) = first
BY DEF Resumed, InLoop

LEMMA ResumeAnd ==
  ASSUME NEW c, NEW at, NEW first, Op(c) = "and"
  PROVE  Resumed(c, at, first) =
           IF Failed(first) THEN Fails
           ELSE Adopt(c.text \o first.text, Ast[<<c.node, c.child + 1, first.end>>])
BY DEF Resumed, InLoop

LEMMA ResumeOr ==
  ASSUME NEW c, NEW at, NEW first, Op(c) = "or"
  PROVE  Resumed(c, at, first) =
           IF Failed(first) THEN Ast[<<c.node, c.child + 1, c.backup>>] ELSE first
BY DEF Resumed, InLoop

LEMMA ResumeNot ==
  ASSUME NEW c, NEW at, NEW first, Op(c) = "not"
  PROVE  Resumed(c, at, first) =
           IF Failed(first) \/ Failed(Ast[<<c.node, c.child + 1, first.end>>])
           THEN Node(c.backup, <<>>) ELSE Fails
BY DEF Resumed, InLoop

LEMMA ResumeZeroOrOne ==
  ASSUME NEW c, NEW at, NEW first, Op(c) = "zero_or_one"
  PROVE  Resumed(c, at, first) = IF Failed(first) THEN Node(c.backup, <<>>) ELSE first
BY DEF Resumed, InLoop

LEMMA ResumeFirstRound ==
  ASSUME NEW c, NEW at, NEW first, Op(c) = "one_or_more", c.child = 1
  PROVE  Resumed(c, at, first) =
           IF Failed(first) THEN Fails ELSE Adopt(first.text, Ast[<<c.node, 1, first.end>>])
BY DEF Resumed, InLoop

LEMMA ResumeRound ==
  ASSUME NEW c, NEW at, NEW first, InLoop(c)
  PROVE  Resumed(c, at, first) =
           IF Failed(first) \/ first.end = at THEN Node(at, c.text)
           ELSE Adopt(c.text \o first.text, Ast[<<c.node, 1, first.end>>])
BY DEF Resumed, InLoop

\* What the top frame owes, and what it has been answered.
LEMMA TheDebt ==
  ASSUME Simulating
  PROVE  /\ End \in Nat /\ begin \in 1 .. End
         /\ Top \in Frames /\ Top.node \in Nodes /\ Top.backup \in 1 .. End
         /\ reply = NoReply => Top.backup = begin /\ Top.child = 0
         /\ Op(Top) \notin Combinators \cup {"rule"} => reply = NoReply
         /\ GotNull => ~GotNode /\ Answer = Fails /\ Failed(Answer)
         /\ GotNode => /\ Answer = Node(begin, reply.text) /\ ~Failed(Answer)
                       /\ Answer.end = begin /\ Answer.text = reply.text
                       /\ reply.text \in Seq(Nat)
         /\ GotNull \/ GotNode =>
              /\ Waits(Top, reply.from)
              /\ Ast[<<Top.node, 0, Top.backup>>] = Resumed(Top, reply.from, Answer)
<1>1. SpanInv /\ AreNodes(Nodes) /\ stack # <<>> /\ AgreeInv
  BY DEF Simulating
<1>2. /\ GotNull => ~GotNode /\ Answer = Fails /\ Failed(Answer)
      /\ GotNode => /\ Answer = Node(begin, reply.text) /\ ~Failed(Answer)
                    /\ Answer.end = begin /\ Answer.text = reply.text
  BY DEF GotNull, GotNode, Answer, Fails, Node, Failed
<1>3. GotNull \/ GotNode => reply # NoReply
  BY DEF GotNull, GotNode, NoReply
<1>4. GotNull \/ GotNode =>
        /\ Waits(Top, reply.from) /\ reply.text \in Seq(Nat)
        /\ Ast[<<Top.node, 0, Top.backup>>] = Resumed(Top, reply.from, Answer)
  BY <1>1, <1>3, TheTop DEF Replied, AgreeInv, Answered, Owes
<1>. QED
  BY <1>1, <1>2, <1>4, TheTop

LEMMA NullAgrees ==
  ASSUME Simulating, ReturnNull, Ast[<<Top.node, 0, Top.backup>>] = Fails
  PROVE  AgreeInv'
<1>1. Return("null", Top.backup, <<>>)
  BY DEF ReturnNull
<1>. QED
  BY <1>1, PopAgrees

LEMMA NodeAgrees ==
  ASSUME Simulating, NEW at, NEW text, ReturnNode(at, text),
         Ast[<<Top.node, 0, Top.backup>>] = Node(at, text)
  PROVE  AgreeInv'
BY PopAgrees DEF ReturnNode

LEMMA CallAsAgrees ==
  ASSUME Simulating, NEW mark, NEW i, NEW at, NEW text,
         mark \in Nat, at \in Top.backup .. End, text \in Seq(Nat), Child(Top.node, i) \in Nodes,
         CallAs(mark, i, at, text),
         \A c \in Frames :
           c.node = Top.node /\ c.backup = Top.backup /\ c.child = mark /\ c.loop_backup = at
             /\ c.text = text
             => Owes(c, at)
  PROVE  AgreeInv'
<1>1. PICK c : c = [Top EXCEPT !.child = mark, !.loop_backup = at, !.text = text]
  OBVIOUS
<1>2. /\ c \in Frames /\ c.node = Top.node /\ c.backup = Top.backup
      /\ c.child = mark /\ c.loop_backup = at /\ c.text = text
  <2>1. at \in Nat
    BY TheDebt
  <2>. QED
    BY <1>1, <2>1, TheDebt DEF Frames
<1>3. Owes(c, at)
  BY <1>2
<1>4. stack' = <<Frame(Child(Top.node, i), at), c>> \o Tail(stack) /\ reply' = NoReply
  BY <1>1 DEF CallAs
<1>5. at \in 1 .. End
  BY TheDebt
<1>. QED
  BY <1>2, <1>3, <1>4, <1>5, CallAgrees

LEMMA CallOfNothingAgrees ==
  ASSUME Simulating, NEW i, NEW at, i \in Nat, at \in Top.backup .. End,
         Child(Top.node, i) \in Nodes, Call(i, at, <<>>),
         \A c \in Frames :
           c.node = Top.node /\ c.backup = Top.backup /\ c.child = i /\ c.text = <<>>
             => Owes(c, at)
  PROVE  AgreeInv'
<1>1. <<>> \in Seq(Nat)
  OBVIOUS
<1>2. PICK text : text = <<>>
  OBVIOUS
<1>3. text \in Seq(Nat)
  BY <1>1, <1>2
<1>4. PICK mark : mark = i
  OBVIOUS
<1>5. CallAs(mark, i, at, text) /\ mark \in Nat
  BY <1>2, <1>4 DEF Call
<1>6. ASSUME NEW c \in Frames, c.node = Top.node, c.backup = Top.backup, c.child = mark,
             c.loop_backup = at, c.text = text
      PROVE  Owes(c, at)
  BY <1>2, <1>4, <1>6
<1>. QED
  BY <1>3, <1>5, <1>6, CallAsAgrees

LEMMA CharacterAgrees ==
  ASSUME Simulating, ParseCharacter(Term(Top.node))
  PROVE  AgreeInv'
<1>. DEFINE at == SkipWs(begin)
<1>1. Term(Top.node).op = "class" /\ Top.backup = begin
  BY TheDebt DEF ParseCharacter, Op, Combinators
<1>2. Ast[<<Top.node, 0, Top.backup>>] = AstCharacters(Term(Top.node).codes, begin)
  BY <1>1, TheDebt, AstAtPlaces DEF Simulating, AstAt, AstCall
<1>3. CASE at # End /\ InClass(Term(Top.node).codes, Input[at])
  <2>1. ReturnNode(at + 1, <<at>>)
    BY <1>3 DEF ParseCharacter
  <2>. QED
    BY <1>2, <1>3, <2>1, NodeAgrees DEF AstCharacters
<1>4. CASE ~(at # End /\ InClass(Term(Top.node).codes, Input[at]))
  <2>1. ReturnNull
    BY <1>4 DEF ParseCharacter
  <2>. QED
    BY <1>2, <1>4, <2>1, NullAgrees DEF AstCharacters
<1>. QED
  BY <1>3, <1>4

LEMMA SameCharacters ==
  ASSUME NEW at \in Nat, NEW lit, Len(lit) \in Nat
  PROVE  (\A i \in 1 .. Len(lit) : char_match(Input[at + i - 1], lit[i], sample.ignore_case))
           <=> (\A i \in at .. at + Len(lit) - 1 :
                  char_match(Input[i], lit[i - at + 1], sample.ignore_case))
<1>. DEFINE good(i, j) == char_match(Input[i], lit[j], sample.ignore_case)
<1>1. ASSUME NEW i \in 1 .. Len(lit), \A k \in at .. at + Len(lit) - 1 : good(k, k - at + 1)
      PROVE  good(at + i - 1, i)
  <2>. HIDE DEF good
  <2>1. PICK k : k = at + i - 1
    OBVIOUS
  <2>2. k \in at .. at + Len(lit) - 1 /\ k - at + 1 = i
    BY <2>1
  <2>. QED
    BY <1>1, <2>1, <2>2
<1>2. ASSUME NEW k \in at .. at + Len(lit) - 1, \A i \in 1 .. Len(lit) : good(at + i - 1, i)
      PROVE  good(k, k - at + 1)
  <2>. HIDE DEF good
  <2>1. PICK i : i = k - at + 1
    OBVIOUS
  <2>2. i \in 1 .. Len(lit) /\ at + i - 1 = k
    BY <2>1
  <2>. QED
    BY <1>2, <2>1, <2>2
<1>. QED
  BY <1>1, <1>2

LEMMA StringAgrees ==
  ASSUME Simulating, ParseString(Term(Top.node))
  PROVE  AgreeInv'
<1>. DEFINE at == SkipWs(begin)
            lit == Term(Top.node).tokens
            matches == /\ at + Len(lit) <= End
                       /\ \A i \in 1 .. Len(lit) :
                            char_match(Input[at + i - 1], lit[i], sample.ignore_case)
            text == [i \in 1 .. Len(lit) |-> at + i - 1]
            stop == at + Len(lit)
            all == \A i \in at .. stop - 1 :
                     char_match(Input[i], lit[i - at + 1], sample.ignore_case)
<1>1. Term(Top.node).op = "string" /\ Top.backup = begin /\ Len(lit) \in Nat
  BY TheDebt DEF ParseString, Op, Combinators, Simulating, AreNodes
<1>2. Ast[<<Top.node, 0, Top.backup>>] = AstString(lit, begin)
  BY <1>1, TheDebt, AstAtPlaces DEF Simulating, AstAt, AstCall
<1>3. at \in begin .. End
  BY TheDebt, SkipWsStops
<1>4. matches <=> stop <= End /\ all
  <2>1. at \in Nat
    BY <1>3, TheDebt
  <2>. HIDE DEF at, lit
  <2>2. (\A i \in 1 .. Len(lit) : char_match(Input[at + i - 1], lit[i], sample.ignore_case)) <=> all
    BY <1>1, <2>1, SameCharacters
  <2>. HIDE DEF all
  <2>. QED
    BY <2>2
<1>7. AstString(lit, begin) = IF matches THEN Node(at + Len(lit), text) ELSE Fails
  <2>1. AstString(lit, begin) = IF stop <= End /\ all THEN Node(stop, text) ELSE Fails
    BY Zenon DEF AstString
  <2>. HIDE DEF all, matches, text, at, lit
  <2>. QED
    BY <1>4, <2>1
<1>5. CASE matches
  <2>1. ReturnNode(at + Len(lit), text)
    BY <1>5 DEF ParseString
  <2>2. Ast[<<Top.node, 0, Top.backup>>] = Node(at + Len(lit), text)
    BY <1>2, <1>5, <1>7
  <2>. HIDE DEF text, at, lit
  <2>. QED
    BY <2>1, <2>2, NodeAgrees
<1>6. CASE ~matches
  <2>1. ReturnNull
    BY <1>6 DEF ParseString
  <2>. QED
    BY <1>2, <1>6, <1>7, <2>1, NullAgrees
<1>. QED
  BY <1>5, <1>6

LEMMA RuleAgrees ==
  ASSUME Simulating, ParseRule(Term(Top.node))
  PROVE  AgreeInv'
<1>. DEFINE term == Term(Top.node)
            callee == Root(term.grammar, term.rule)
<1>1. Op(Top) = "rule" /\ term.op = "rule" /\ callee \in Nodes
  BY TheDebt DEF ParseRule, Op, AreNodes, Simulating
<1>2. CASE Entered /\ stack' = <<Frame(callee, begin), [Top EXCEPT !.child = 1]>> \o Tail(stack)
                   /\ UNCHANGED <<begin, reply>>
  <2>1. PICK c : c = [Top EXCEPT !.child = 1]
    OBVIOUS
  <2>2. c \in Frames /\ c.node = Top.node /\ c.backup = Top.backup
    BY <2>1, TheDebt DEF Frames
  <2>3. begin = Top.backup /\ reply' = NoReply
    BY <1>2, TheDebt DEF Entered
  <2>4. Ast[<<Top.node, 0, Top.backup>>] = Ast[<<callee, 0, begin>>]
    BY <1>1, <2>3, TheDebt, AstAtPlaces DEF Simulating, AstAt, AstCall, AstRule
  <2>5. Owes(c, begin)
    <3>1. Op(c) = "rule" /\ Called(c) = callee
      BY <1>1, <2>2 DEF Op, Called
    <3>2. Resumed(c, begin, Ast[<<callee, 0, begin>>]) = Ast[<<callee, 0, begin>>]
      BY <3>1, ResumeRule
    <3>. QED
      BY <2>2, <2>4, <3>1, <3>2 DEF Owes
  <2>. QED
    BY <1>1, <1>2, <2>1, <2>2, <2>3, <2>5, TheDebt, CallAgrees
<1>3. ASSUME GotNull \/ GotNode PROVE Ast[<<Top.node, 0, Top.backup>>] = Answer
  BY <1>1, <1>3, TheDebt, ResumeRule
<1>4. CASE GotNull /\ ReturnNull
  BY <1>3, <1>4, TheDebt, NullAgrees
<1>5. CASE GotNode /\ ReturnNode(begin, reply.text)
  BY <1>3, <1>5, TheDebt, NodeAgrees
<1>. QED
  BY <1>2, <1>4, <1>5 DEF ParseRule

LEMMA WhatIsLeft ==
  ASSUME Simulating, NEW i, i \in Nat, i # 0, NEW p, p \in 1 .. End
  PROVE  LET rest == Ast[<<Top.node, i, p>>] IN
         /\ rest \in Results
         /\ Op(Top) \in {"and", "not"} => rest = AstAnd(Ast, Term(Top.node), Top.node, i, p)
         /\ Op(Top) = "or" => rest = AstOr(Ast, Term(Top.node), Top.node, i, p)
         /\ Op(Top) \in {"zero_or_more", "one_or_more"} => rest = AstLoop(Ast, Top.node, p)
<1>1. /\ Ast[<<Top.node, i, p>>] = AstAt(Ast, Term(Top.node), Top.node, i, p)
      /\ Ast[<<Top.node, i, p>>] \in Results
  BY TheDebt, AstAtPlaces DEF Simulating
<1>2. AstAt(Ast, Term(Top.node), Top.node, i, p) = AstRest(Ast, Term(Top.node), Top.node, i, p)
  BY DEF AstAt
<1>. QED
  BY <1>1, <1>2 DEF AstRest, Op

LEMMA WhatIsCalled ==
  ASSUME Simulating
  PROVE  LET whole == Ast[<<Top.node, 0, Top.backup>>] IN
         /\ whole \in Results
         /\ Op(Top) = "not" => whole = AstNot(Ast, Top.node, Top.backup)
         /\ Op(Top) \in {"and", "or", "zero_or_more"} => whole = Ast[<<Top.node, 1, Top.backup>>]
         /\ Op(Top) = "one_or_more" => whole = AstOneOrMore(Ast, Top.node, Top.backup)
         /\ Op(Top) = "zero_or_one" => whole = AstZeroOrOne(Ast, Top.node, Top.backup)
<1>1. /\ Ast[<<Top.node, 0, Top.backup>>] = AstAt(Ast, Term(Top.node), Top.node, 0, Top.backup)
      /\ Ast[<<Top.node, 0, Top.backup>>] \in Results
  BY TheDebt, AstAtPlaces DEF Simulating
<1>2. AstAt(Ast, Term(Top.node), Top.node, 0, Top.backup) = AstCall(Ast, Term(Top.node), Top.node, Top.backup)
  BY DEF AstAt
<1>. QED
  BY <1>1, <1>2 DEF AstCall, Op

LEMMA OperandsAre ==
  ASSUME Simulating, Op(Top) \in Combinators
  PROVE  LET arity == Arity(Term(Top.node)) IN
         /\ arity \in Nat /\ (Op(Top) # "and" => arity >= 1)
         /\ \A i \in 1 .. arity : Child(Top.node, i) \in Nodes
         /\ Op(Top) # "and" => Child(Top.node, 1) \in Nodes
<1>1. /\ Arity(Term(Top.node)) \in Nat /\ (Op(Top) # "and" => Arity(Term(Top.node)) >= 1)
      /\ \A i \in 1 .. Arity(Term(Top.node)) : Child(Top.node, i) \in Nodes
  BY TheDebt DEF Simulating, AreNodes, Op
<1>2. Op(Top) # "and" => 1 \in 1 .. Arity(Term(Top.node))
  BY <1>1
<1>. QED
  BY <1>1, <1>2

LEMMA AnyResult ==
  ASSUME Simulating, NEW node, node \in Nodes, NEW i, i \in Nat, NEW p, p \in 1 .. End
  PROVE  /\ Ast[<<node, i, p>>] \in Results
         /\ ~Failed(Ast[<<node, i, p>>]) => /\ Ast[<<node, i, p>>].end \in p .. End
                                            /\ Ast[<<node, i, p>>].text \in Seq(Nat)
<1>1. Sound(Ast[<<node, i, p>>], node, i, p)
  BY DEF Simulating, AstSolved, Sane
<1>2. PICK r : r = Ast[<<node, i, p>>]
  OBVIOUS
<1>3. r \in Results /\ (~Failed(r) => p <= r.end)
  BY <1>1, <1>2 DEF Sound
<1>4. ~Failed(r) => r.end \in 1 .. End /\ r.text \in Seq(Nat)
  BY <1>3, AResult
<1>5. ~Failed(r) => r.end \in p .. End
  BY <1>3, <1>4
<1>. QED
  BY <1>2, <1>3, <1>4, <1>5

\* The combinators, one after the other.
LEMMA AndAgrees ==
  ASSUME Simulating, ParseAnd(Term(Top.node))
  PROVE  AgreeInv'
<1>. DEFINE arity == Arity(Term(Top.node))
            whole == Ast[<<Top.node, 0, Top.backup>>]
<1>1. Op(Top) = "and" /\ Op(Top) \in Combinators
  BY DEF ParseAnd, Op, Combinators
<1>2. arity \in Nat /\ \A i \in 1 .. arity : Child(Top.node, i) \in Nodes
  BY <1>1, OperandsAre
<1>3. ASSUME NEW i, i \in 1 .. arity, NEW at, at \in Top.backup .. End, NEW text, text \in Seq(Nat),
             whole = Adopt(text, Ast[<<Top.node, i, at>>]), Call(i, at, text)
      PROVE  AgreeInv'
  <2>1. ASSUME NEW c \in Frames, c.node = Top.node, c.backup = Top.backup, c.child = i, c.text = text
        PROVE  Owes(c, at)
    <3>1. Op(c) = "and" /\ Called(c) = Child(Top.node, i)
      BY <1>1, <2>1 DEF Op, Called
    <3>2. at \in 1 .. End /\ i \in Nat /\ i # 0 /\ i + 1 \in Nat /\ ~(i > arity)
      BY <1>2, <1>3, TheDebt
    <3>3. PICK first : first = Ast[<<Child(Top.node, i), 0, at>>]
      OBVIOUS
    <3>4. Ast[<<Top.node, i, at>>] =
            IF Failed(first) THEN Fails
            ELSE Adopt(first.text, Ast[<<Top.node, i + 1, first.end>>])
      BY <1>1, <3>2, <3>3, WhatIsLeft DEF AstAnd
    <3>5. Resumed(c, at, first) =
            IF Failed(first) THEN Fails
            ELSE Adopt(text \o first.text, Ast[<<Top.node, i + 1, first.end>>])
      <4>1. Resumed(c, at, first) =
              IF Failed(first) THEN Fails
              ELSE Adopt(c.text \o first.text, Ast[<<c.node, c.child + 1, first.end>>])
        BY <3>1, ResumeAnd
      <4>. QED
        BY <2>1, <4>1
    <3>6. CASE Failed(first)
      BY <1>3, <2>1, <3>1, <3>3, <3>4, <3>5, <3>6, AFailure DEF Owes, Adopt
    <3>7. CASE ~Failed(first)
      <4>1. first.end \in at .. End /\ first.text \in Seq(Nat)
        BY <1>2, <1>3, <3>2, <3>3, <3>7, AnyResult
      <4>2. first.end \in 1 .. End
        BY <3>2, <4>1
      <4>3. Ast[<<Top.node, i + 1, first.end>>] \in Results
        BY <3>2, <4>2, TheDebt, AnyResult
      <4>. QED
        BY <1>3, <2>1, <3>1, <3>3, <3>4, <3>5, <3>7, <4>1, <4>3, AdoptTwice DEF Owes
    <3>. QED
      BY <3>6, <3>7
  <2>2. i \in Nat
    BY <1>2, <1>3
  <2>3. PICK mark : mark = i
    OBVIOUS
  <2>4. CallAs(mark, i, at, text) /\ mark \in Nat
    BY <1>3, <2>2, <2>3 DEF Call
  <2>5. ASSUME NEW c \in Frames, c.node = Top.node, c.backup = Top.backup, c.child = mark,
               c.loop_backup = at, c.text = text
        PROVE  Owes(c, at)
    BY <2>1, <2>3, <2>5
  <2>. QED
    BY <1>2, <1>3, <2>4, <2>5, CallAsAgrees
<1>4. ASSUME Entered
      PROVE  /\ begin = Top.backup /\ begin \in 1 .. End
             /\ whole = Ast[<<Top.node, 1, begin>>]
             /\ whole = Adopt(<<>>, Ast[<<Top.node, 1, begin>>])
  <2>1. begin = Top.backup /\ begin \in 1 .. End /\ whole = Ast[<<Top.node, 1, begin>>]
    BY <1>1, <1>4, TheDebt, WhatIsCalled DEF Entered
  <2>2. PICK r : r = whole
    OBVIOUS
  <2>3. r \in Results
    BY <2>2, WhatIsCalled
  <2>4. Adopt(<<>>, r) = r
    BY <2>3, AdoptNothing
  <2>. QED
    BY <2>1, <2>2, <2>4
<1>5. ASSUME GotNode
      PROVE  /\ Added \in Seq(Nat) /\ begin \in Top.backup .. End /\ Top.child \in 1 .. arity
             /\ whole = Adopt(Added, Ast[<<Top.node, Top.child + 1, begin>>])
  <2>1. whole = Adopt(Added, Ast[<<Top.node, Top.child + 1, begin>>])
    <3>1. Resumed(Top, reply.from, Answer) =
            IF Failed(Answer) THEN Fails
            ELSE Adopt(Top.text \o Answer.text, Ast[<<Top.node, Top.child + 1, Answer.end>>])
      BY <1>1, ResumeAnd
    <3>. QED
      BY <1>5, <3>1, TheDebt DEF Added
  <2>2. Added \in Seq(Nat)
    BY <1>5, TheDebt DEF Added, Frames
  <2>3. Top.child \in 1 .. arity
    BY <1>1, <1>5, TheDebt DEF Waits, Op
  <2>4. begin \in Top.backup .. End
    <3>1. reply.from \in Top.backup .. End /\ reply.from \in 1 .. begin
      BY <1>5, TheDebt, TheTop DEF Waits, Replied, Simulating
    <3>. QED
      BY <3>1, TheDebt
  <2>. QED
    BY <2>1, <2>2, <2>3, <2>4
<1>6. CASE Entered /\ arity = 0 /\ ReturnNode(begin, <<>>)
  <2>1. PICK i : i = 1
    OBVIOUS
  <2>2. i \in Nat /\ i # 0 /\ i > arity
    BY <1>6, <2>1
  <2>3. Ast[<<Top.node, i, begin>>] = Node(begin, <<>>)
    BY <1>1, <1>4, <1>6, <2>2, WhatIsLeft DEF AstAnd
  <2>. QED
    BY <1>4, <1>6, <2>1, <2>3, NodeAgrees
<1>7. CASE Entered /\ arity > 0 /\ Call(1, begin, <<>>)
  <2>1. begin \in Top.backup .. End /\ 1 \in 1 .. arity /\ <<>> \in Seq(Nat)
    BY <1>2, <1>4, <1>7, TheDebt
  <2>2. PICK i, text : i = 1 /\ text = <<>>
    OBVIOUS
  <2>3. i \in 1 .. arity /\ text \in Seq(Nat) /\ Call(i, begin, text)
    BY <1>7, <2>1, <2>2
  <2>4. whole = Adopt(text, Ast[<<Top.node, i, begin>>])
    BY <1>4, <1>7, <2>2
  <2>. HIDE DEF whole
  <2>. QED
    BY <1>3, <2>1, <2>3, <2>4
<1>8. CASE GotNull /\ ReturnNull
  <2>1. whole = Fails
    BY <1>1, <1>8, TheDebt, ResumeAnd
  <2>. QED
    BY <1>8, <2>1, NullAgrees
<1>9. CASE GotNode /\ Top.child < arity /\ Call(Top.child + 1, begin, Added)
  <2>1. Top.child + 1 \in 1 .. arity
    BY <1>2, <1>5, <1>9
  <2>. HIDE DEF whole
  <2>. QED
    BY <1>3, <1>5, <1>9, <2>1
<1>10. CASE GotNode /\ Top.child = arity /\ ReturnNode(begin, Added)
  <2>1. PICK i : i = Top.child + 1
    OBVIOUS
  <2>2. i \in Nat /\ i # 0 /\ i > arity
    BY <1>2, <1>5, <1>10, <2>1
  <2>3. Ast[<<Top.node, i, begin>>] = Node(begin, <<>>)
    BY <1>1, <2>2, TheDebt, WhatIsLeft DEF AstAnd
  <2>4. whole = Node(begin, Added)
    BY <1>5, <1>10, <2>1, <2>3, AdoptEnd
  <2>. QED
    BY <1>10, <2>4, NodeAgrees
<1>. QED
  BY <1>6, <1>7, <1>8, <1>9, <1>10 DEF ParseAnd

LEMMA OrAgrees ==
  ASSUME Simulating, ParseOr(Term(Top.node))
  PROVE  AgreeInv'
<1>. DEFINE arity == Arity(Term(Top.node))
            whole == Ast[<<Top.node, 0, Top.backup>>]
<1>1. Op(Top) = "or" /\ Op(Top) \in Combinators
  BY DEF ParseOr, Op, Combinators
<1>2. /\ arity \in Nat /\ arity >= 1 /\ \A i \in 1 .. arity : Child(Top.node, i) \in Nodes
      /\ Top.backup \in Top.backup .. End
  BY <1>1, OperandsAre, TheDebt
<1>3. ASSUME NEW i, i \in 1 .. arity, whole = Ast[<<Top.node, i, Top.backup>>],
             Call(i, Top.backup, <<>>)
      PROVE  AgreeInv'
  <2>1. ASSUME NEW c \in Frames, c.node = Top.node, c.backup = Top.backup, c.child = i
        PROVE  Owes(c, Top.backup)
    <3>1. Op(c) = "or" /\ Called(c) = Child(Top.node, i)
      BY <1>1, <2>1 DEF Op, Called
    <3>2. i \in Nat /\ i # 0 /\ ~(i > arity)
      BY <1>2, <1>3
    <3>3. PICK first : first = Ast[<<Child(Top.node, i), 0, Top.backup>>]
      OBVIOUS
    <3>4. Ast[<<Top.node, i, Top.backup>>] =
            IF Failed(first) THEN Ast[<<Top.node, i + 1, Top.backup>>] ELSE first
      BY <1>1, <3>2, <3>3, TheDebt, WhatIsLeft DEF AstOr
    <3>5. Resumed(c, Top.backup, first) =
            IF Failed(first) THEN Ast[<<Top.node, i + 1, Top.backup>>] ELSE first
      BY <2>1, <3>1, ResumeOr
    <3>. QED
      BY <1>3, <2>1, <3>1, <3>3, <3>4, <3>5 DEF Owes
  <2>2. i \in Nat
    BY <1>2, <1>3
  <2>. QED
    BY <1>2, <1>3, <2>1, <2>2, CallOfNothingAgrees
<1>4. ASSUME GotNull \/ GotNode
      PROVE  /\ Top.child \in 1 .. arity
             /\ GotNull => whole = Ast[<<Top.node, Top.child + 1, Top.backup>>]
             /\ GotNode => whole = Node(begin, reply.text)
  <2>1. Top.child \in 1 .. arity
    BY <1>1, <1>4, TheDebt DEF Waits, Op
  <2>2. Resumed(Top, reply.from, Answer) =
          IF Failed(Answer) THEN Ast[<<Top.node, Top.child + 1, Top.backup>>] ELSE Answer
    BY <1>1, ResumeOr
  <2>. QED
    BY <1>4, <2>1, <2>2, TheDebt
<1>5. CASE Entered /\ Call(1, begin, <<>>)
  <2>1. PICK i : i = 1
    OBVIOUS
  <2>2. i \in 1 .. arity /\ Call(i, Top.backup, <<>>)
    BY <1>2, <1>5, <2>1, TheDebt DEF Entered
  <2>3. whole = Ast[<<Top.node, i, Top.backup>>]
    BY <1>1, <2>1, WhatIsCalled
  <2>. HIDE DEF whole
  <2>. QED
    BY <1>3, <2>2, <2>3
<1>6. CASE GotNull /\ Top.child < arity /\ Call(Top.child + 1, Top.backup, <<>>)
  <2>1. Top.child + 1 \in 1 .. arity
    BY <1>2, <1>4, <1>6
  <2>. HIDE DEF whole
  <2>. QED
    BY <1>3, <1>4, <1>6, <2>1
<1>7. CASE GotNull /\ Top.child = arity /\ ReturnNull
  <2>1. PICK i : i = Top.child + 1
    OBVIOUS
  <2>2. i \in Nat /\ i # 0 /\ i > arity
    BY <1>2, <1>4, <1>7, <2>1
  <2>3. Ast[<<Top.node, i, Top.backup>>] = Fails
    BY <1>1, <2>2, TheDebt, WhatIsLeft DEF AstOr
  <2>. QED
    BY <1>4, <1>7, <2>1, <2>3, NullAgrees
<1>8. CASE GotNode /\ ReturnNode(begin, reply.text)
  BY <1>4, <1>8, NodeAgrees
<1>. QED
  BY <1>5, <1>6, <1>7, <1>8 DEF ParseOr

LEMMA NotAgrees ==
  ASSUME Simulating, ParseNot(Term(Top.node))
  PROVE  AgreeInv'
<1>. DEFINE arity == Arity(Term(Top.node))
            whole == Ast[<<Top.node, 0, Top.backup>>]
            denial(r) == IF Failed(r) THEN Node(Top.backup, <<>>) ELSE Fails
<1>1. Op(Top) = "not" /\ Op(Top) \in Combinators
  BY DEF ParseNot, Op, Combinators
<1>2. arity \in Nat /\ arity >= 1 /\ \A i \in 1 .. arity : Child(Top.node, i) \in Nodes
  BY <1>1, OperandsAre
<1>3. ASSUME NEW i, i \in 1 .. arity, NEW at, at \in Top.backup .. End,
             whole = denial(Ast[<<Top.node, i, at>>]), Call(i, at, <<>>)
      PROVE  AgreeInv'
  <2>1. ASSUME NEW c \in Frames, c.node = Top.node, c.backup = Top.backup, c.child = i
        PROVE  Owes(c, at)
    <3>1. Op(c) = "not" /\ Called(c) = Child(Top.node, i)
      BY <1>1, <2>1 DEF Op, Called
    <3>2. at \in 1 .. End /\ i \in Nat /\ i # 0 /\ i + 1 \in Nat /\ ~(i > arity)
      BY <1>2, <1>3, TheDebt
    <3>3. PICK first : first = Ast[<<Child(Top.node, i), 0, at>>]
      OBVIOUS
    <3>4. Ast[<<Top.node, i, at>>] =
            IF Failed(first) THEN Fails
            ELSE Adopt(first.text, Ast[<<Top.node, i + 1, first.end>>])
      BY <1>1, <3>2, <3>3, WhatIsLeft DEF AstAnd
    <3>5. Resumed(c, at, first) =
            IF Failed(first) \/ Failed(Ast[<<Top.node, i + 1, first.end>>])
            THEN Node(Top.backup, <<>>) ELSE Fails
      BY <2>1, <3>1, ResumeNot
    <3>6. Failed(Ast[<<Top.node, i, at>>])
            <=> Failed(first) \/ Failed(Ast[<<Top.node, i + 1, first.end>>])
      BY <3>4 DEF Adopt, Failed, Fails, Node
    <3>7. whole = Resumed(c, at, first)
      BY <1>3, <3>5, <3>6
    <3>. QED
      BY <2>1, <3>1, <3>3, <3>7 DEF Owes
  <2>2. i \in Nat
    BY <1>2, <1>3
  <2>. QED
    BY <1>2, <1>3, <2>1, <2>2, CallOfNothingAgrees
<1>4. ASSUME GotNode
      PROVE  /\ Top.child \in 1 .. arity /\ begin \in Top.backup .. End
             /\ whole = denial(Ast[<<Top.node, Top.child + 1, begin>>])
  <2>1. Top.child \in 1 .. arity
    BY <1>1, <1>4, TheDebt DEF Waits, Op
  <2>2. begin \in Top.backup .. End
    <3>1. reply.from \in Top.backup .. End /\ reply.from \in 1 .. begin
      BY <1>4, TheDebt, TheTop DEF Waits, Replied, Simulating
    <3>. QED
      BY <3>1, TheDebt
  <2>3. Resumed(Top, reply.from, Answer) =
          IF Failed(Answer) \/ Failed(Ast[<<Top.node, Top.child + 1, Answer.end>>])
          THEN Node(Top.backup, <<>>) ELSE Fails
    BY <1>1, ResumeNot
  <2>. QED
    BY <1>4, <2>1, <2>2, <2>3, TheDebt
<1>5. CASE Entered /\ Call(1, SkipWs(begin), <<>>)
  <2>1. PICK i, at : i = 1 /\ at = SkipWs(begin)
    OBVIOUS
  <2>2. begin = Top.backup
    BY <1>5, TheDebt DEF Entered
  <2>3. i \in 1 .. arity /\ at \in Top.backup .. End /\ Call(i, at, <<>>)
    BY <1>2, <1>5, <2>1, <2>2, TheDebt, SkipWsStops
  <2>4. whole = denial(Ast[<<Top.node, i, at>>])
    BY <1>1, <2>1, <2>2, WhatIsCalled DEF AstNot
  <2>. HIDE DEF whole, denial
  <2>. QED
    BY <1>3, <2>3, <2>4
<1>6. CASE GotNull /\ ReturnNode(Top.backup, <<>>)
  <2>1. whole = Node(Top.backup, <<>>)
    <3>1. Resumed(Top, reply.from, Answer) =
            IF Failed(Answer) \/ Failed(Ast[<<Top.node, Top.child + 1, Answer.end>>])
            THEN Node(Top.backup, <<>>) ELSE Fails
      BY <1>1, ResumeNot
    <3>. QED
      BY <1>6, <3>1, TheDebt
  <2>. QED
    BY <1>6, <2>1, NodeAgrees
<1>7. CASE GotNode /\ Top.child < arity /\ Call(Top.child + 1, begin, <<>>)
  <2>1. Top.child + 1 \in 1 .. arity
    BY <1>2, <1>4, <1>7
  <2>. HIDE DEF whole, denial
  <2>. QED
    BY <1>3, <1>4, <1>7, <2>1
<1>8. CASE GotNode /\ Top.child = arity /\ ReturnNull
  <2>1. PICK i : i = Top.child + 1
    OBVIOUS
  <2>2. i \in Nat /\ i # 0 /\ i > arity
    BY <1>2, <1>4, <1>8, <2>1
  <2>3. Ast[<<Top.node, i, begin>>] = Node(begin, <<>>)
    BY <1>1, <2>2, TheDebt, WhatIsLeft DEF AstAnd
  <2>4. whole = Fails
    BY <1>4, <1>8, <2>1, <2>3 DEF Failed, Node
  <2>. QED
    BY <1>8, <2>4, NullAgrees
<1>. QED
  BY <1>5, <1>6, <1>7, <1>8 DEF ParseNot

LEMMA ZeroOrOneAgrees ==
  ASSUME Simulating, ParseZeroOrOne(Term(Top.node))
  PROVE  AgreeInv'
<1>. DEFINE whole == Ast[<<Top.node, 0, Top.backup>>]
<1>1. /\ Op(Top) = "zero_or_one" /\ Op(Top) \in Combinators
      /\ Child(Top.node, 1) \in Nodes /\ Top.backup \in Top.backup .. End
  <2>1. Op(Top) = "zero_or_one" /\ Op(Top) \in Combinators
    BY DEF ParseZeroOrOne, Op, Combinators
  <2>. QED
    BY <2>1, OperandsAre, TheDebt
<1>2. ASSUME GotNull \/ GotNode
      PROVE  whole = IF Failed(Answer) THEN Node(Top.backup, <<>>) ELSE Answer
  BY <1>1, <1>2, TheDebt, ResumeZeroOrOne
<1>3. CASE Entered /\ Call(1, begin, <<>>)
  <2>1. begin = Top.backup
    BY <1>3, TheDebt DEF Entered
  <2>2. ASSUME NEW c \in Frames, c.node = Top.node, c.backup = Top.backup
        PROVE  Owes(c, begin)
    <3>1. Op(c) = "zero_or_one" /\ Called(c) = Child(Top.node, 1)
      BY <1>1, <2>2 DEF Op, Called
    <3>2. PICK first : first = Ast[<<Child(Top.node, 1), 0, begin>>]
      OBVIOUS
    <3>3. whole = IF Failed(first) THEN Node(begin, <<>>) ELSE first
      BY <1>1, <2>1, <3>2, WhatIsCalled DEF AstZeroOrOne
    <3>4. Resumed(c, begin, first) = IF Failed(first) THEN Node(begin, <<>>) ELSE first
      BY <2>1, <2>2, <3>1, ResumeZeroOrOne
    <3>. QED
      BY <2>2, <3>1, <3>2, <3>3, <3>4 DEF Owes
  <2>3. PICK i : i = 1
    OBVIOUS
  <2>4. /\ i \in Nat /\ begin \in Top.backup .. End /\ Child(Top.node, i) \in Nodes
        /\ Call(i, begin, <<>>)
    BY <1>1, <1>3, <2>1, <2>3
  <2>. QED
    BY <2>2, <2>4, CallOfNothingAgrees
<1>4. CASE GotNull /\ ReturnNode(Top.backup, <<>>)
  BY <1>2, <1>4, TheDebt, NodeAgrees
<1>5. CASE GotNode /\ ReturnNode(begin, reply.text)
  BY <1>2, <1>5, TheDebt, NodeAgrees
<1>. QED
  BY <1>3, <1>4, <1>5 DEF ParseZeroOrOne

\* The loops: text is what the rounds before have matched.
LEMMA AgainAgrees ==
  ASSUME Simulating, Op(Top) \in Loops, NEW text, text \in Seq(Nat), begin \in Top.backup .. End,
         Ast[<<Top.node, 0, Top.backup>>] = Adopt(text, Ast[<<Top.node, 1, begin>>]),
         Again(text)
  PROVE  AgreeInv'
<1>. DEFINE whole == Ast[<<Top.node, 0, Top.backup>>]
            next == Ast[<<Child(Top.node, 1), 0, begin>>]
<1>1. Child(Top.node, 1) \in Nodes /\ begin \in 1 .. End
  BY OperandsAre, TheDebt DEF Loops, Combinators
<1>2. Ast[<<Top.node, 1, begin>>] = AstLoop(Ast, Top.node, begin)
  <2>1. PICK i : i = 1
    OBVIOUS
  <2>2. i \in Nat /\ i # 0
    BY <2>1
  <2>3. Ast[<<Top.node, i, begin>>] = AstLoop(Ast, Top.node, begin)
    BY <1>1, <2>2, WhatIsLeft DEF Loops
  <2>. QED
    BY <2>1, <2>3
<1>3. CASE begin # End /\ CallAs(2, 1, begin, text)
  <2>1. Ast[<<Top.node, 1, begin>>] =
          IF Failed(next) \/ next.end = begin THEN Node(begin, <<>>)
          ELSE Adopt(next.text, Ast[<<Top.node, 1, next.end>>])
    BY <1>2, <1>3 DEF AstLoop
  <2>2. ~Failed(next) => /\ next.text \in Seq(Nat) /\ next.end \in 1 .. End
                         /\ Ast[<<Top.node, 1, next.end>>] \in Results
    <3>1. ~Failed(next) => next.end \in begin .. End /\ next.text \in Seq(Nat)
      BY <1>1, AnyResult
    <3>2. ~Failed(next) => next.end \in 1 .. End
      BY <1>1, <3>1
    <3>. HIDE DEF next
    <3>. QED
      BY <3>1, <3>2, TheDebt, AnyResult
  <2>. HIDE DEF next
  <2>3. whole = IF Failed(next) \/ next.end = begin THEN Node(begin, text)
                ELSE Adopt(text \o next.text, Ast[<<Top.node, 1, next.end>>])
    <3>1. CASE Failed(next) \/ next.end = begin
      BY <2>1, <3>1, AdoptEnd
    <3>2. CASE ~(Failed(next) \/ next.end = begin)
      BY <2>1, <2>2, <3>2, AdoptTwice
    <3>. QED
      BY <3>1, <3>2
  <2>4. ASSUME NEW c \in Frames, c.node = Top.node, c.backup = Top.backup, c.child = 2, c.text = text
        PROVE  Owes(c, begin)
    <3>1. InLoop(c) /\ Called(c) = Child(Top.node, 1)
      BY <2>4 DEF Op, Called, InLoop, Loops
    <3>2. Resumed(c, begin, next) =
            IF Failed(next) \/ next.end = begin THEN Node(begin, c.text)
            ELSE Adopt(c.text \o next.text, Ast[<<c.node, 1, next.end>>])
      BY <3>1, ResumeRound
    <3>3. whole = Resumed(c, begin, next)
      BY <2>3, <2>4, <3>2
    <3>. QED
      BY <2>4, <3>1, <3>3 DEF Owes, next
  <2>5. PICK mark, i : mark = 2 /\ i = 1
    OBVIOUS
  <2>6. mark \in Nat /\ CallAs(mark, i, begin, text) /\ Child(Top.node, i) \in Nodes
    BY <1>1, <1>3, <2>5
  <2>7. ASSUME NEW c \in Frames, c.node = Top.node, c.backup = Top.backup, c.child = mark,
               c.loop_backup = begin, c.text = text
        PROVE  Owes(c, begin)
    BY <2>4, <2>5, <2>7
  <2>. QED
    BY <2>6, <2>7, CallAsAgrees
<1>4. CASE begin = End /\ ReturnNode(begin, text)
  <2>1. whole = Node(begin, text)
    BY <1>2, <1>4, AdoptEnd DEF AstLoop
  <2>. QED
    BY <1>4, <2>1, NodeAgrees
<1>. QED
  BY <1>3, <1>4 DEF Again

LEMMA EndOfRoundAgrees ==
  ASSUME Simulating, Op(Top) \in Loops, EndOfRound
  PROVE  AgreeInv'
<1>. DEFINE whole == Ast[<<Top.node, 0, Top.backup>>]
<1>1. InLoop(Top) /\ (GotNull \/ GotNode)
  BY DEF EndOfRound, InLoop, Loops
<1>2. Top.loop_backup = reply.from
  BY <1>1, TheDebt DEF Waits
<1>3. whole = IF Failed(Answer) \/ Answer.end = reply.from THEN Node(reply.from, Top.text)
              ELSE Adopt(Top.text \o Answer.text, Ast[<<Top.node, 1, Answer.end>>])
  <2>1. Resumed(Top, reply.from, Answer) =
          IF Failed(Answer) \/ Answer.end = reply.from THEN Node(reply.from, Top.text)
          ELSE Adopt(Top.text \o Answer.text, Ast[<<Top.node, 1, Answer.end>>])
    BY <1>1, ResumeRound
  <2>. QED
    BY <1>1, <2>1, TheDebt
<1>4. CASE GotNull /\ ReturnNode(Top.loop_backup, Top.text)
  BY <1>2, <1>3, <1>4, TheDebt, NodeAgrees
<1>5. CASE GotNode /\ begin = Top.loop_backup /\ ReturnNode(begin, Top.text)
  BY <1>2, <1>3, <1>5, TheDebt, NodeAgrees
<1>6. CASE GotNode /\ begin # Top.loop_backup /\ Again(Added)
  <2>1. whole = Adopt(Added, Ast[<<Top.node, 1, begin>>])
    BY <1>2, <1>3, <1>6, TheDebt DEF Added
  <2>2. Added \in Seq(Nat)
    BY <1>6, TheDebt DEF Added, Frames
  <2>3. begin \in Top.backup .. End
    <3>1. reply.from \in Top.backup .. End /\ reply.from \in 1 .. begin
      BY <1>6, TheDebt, TheTop DEF Waits, Replied, Simulating
    <3>. QED
      BY <3>1, TheDebt
  <2>. QED
    BY <1>6, <2>1, <2>2, <2>3, AgainAgrees
<1>. QED
  BY <1>4, <1>5, <1>6 DEF EndOfRound

LEMMA ZeroOrMoreAgrees ==
  ASSUME Simulating, ParseZeroOrMore(Term(Top.node))
  PROVE  AgreeInv'
<1>1. Op(Top) = "zero_or_more" /\ Op(Top) \in Loops
  BY DEF ParseZeroOrMore, Op, Loops
<1>2. CASE Entered /\ Again(<<>>)
  <2>1. begin = Top.backup /\ begin \in Top.backup .. End
    BY <1>2, TheDebt DEF Entered
  <2>2. PICK text : text = <<>>
    OBVIOUS
  <2>3. text \in Seq(Nat) /\ Again(text)
    BY <1>2, <2>2
  <2>4. PICK r : r = Ast[<<Top.node, 0, Top.backup>>]
    OBVIOUS
  <2>5. r \in Results /\ r = Ast[<<Top.node, 1, begin>>]
    BY <1>1, <2>1, <2>4, WhatIsCalled
  <2>6. r = Adopt(text, Ast[<<Top.node, 1, begin>>])
    BY <2>2, <2>5, AdoptNothing
  <2>. QED
    BY <1>1, <2>1, <2>3, <2>4, <2>6, AgainAgrees
<1>3. CASE EndOfRound
  BY <1>1, <1>3, EndOfRoundAgrees
<1>. QED
  BY <1>2, <1>3 DEF ParseZeroOrMore

LEMMA OneOrMoreAgrees ==
  ASSUME Simulating, ParseOneOrMore(Term(Top.node))
  PROVE  AgreeInv'
<1>. DEFINE whole == Ast[<<Top.node, 0, Top.backup>>]
<1>1. /\ Op(Top) = "one_or_more" /\ Op(Top) \in Loops /\ Op(Top) \in Combinators
      /\ Child(Top.node, 1) \in Nodes /\ Top.backup \in Top.backup .. End
  <2>1. Op(Top) = "one_or_more" /\ Op(Top) \in Loops /\ Op(Top) \in Combinators
    BY DEF ParseOneOrMore, Op, Loops, Combinators
  <2>. QED
    BY <2>1, OperandsAre, TheDebt
<1>2. CASE Entered /\ Call(1, begin, <<>>)
  <2>1. begin = Top.backup
    BY <1>2, TheDebt DEF Entered
  <2>2. ASSUME NEW c \in Frames, c.node = Top.node, c.backup = Top.backup, c.child = 1
        PROVE  Owes(c, begin)
    <3>1. Op(c) = "one_or_more" /\ Called(c) = Child(Top.node, 1)
      BY <1>1, <2>2 DEF Op, Called
    <3>2. PICK first : first = Ast[<<Child(Top.node, 1), 0, begin>>]
      OBVIOUS
    <3>3. whole = IF Failed(first) THEN Fails
                  ELSE Adopt(first.text, Ast[<<Top.node, 1, first.end>>])
      BY <1>1, <2>1, <3>2, WhatIsCalled DEF AstOneOrMore
    <3>4. Resumed(c, begin, first) =
            IF Failed(first) THEN Fails ELSE Adopt(first.text, Ast[<<c.node, 1, first.end>>])
      BY <2>2, <3>1, ResumeFirstRound
    <3>. QED
      BY <2>2, <3>1, <3>2, <3>3, <3>4 DEF Owes
  <2>3. PICK i : i = 1
    OBVIOUS
  <2>4. /\ i \in Nat /\ begin \in Top.backup .. End /\ Child(Top.node, i) \in Nodes
        /\ Call(i, begin, <<>>)
    BY <1>1, <1>2, <2>1, <2>3
  <2>5. ASSUME NEW c \in Frames, c.node = Top.node, c.backup = Top.backup, c.child = i
        PROVE  Owes(c, begin)
    BY <2>2, <2>3, <2>5
  <2>. QED
    BY <2>4, <2>5, CallOfNothingAgrees
<1>3. ASSUME GotNull \/ GotNode, Top.child = 1
      PROVE  whole = IF Failed(Answer) THEN Fails
                     ELSE Adopt(Answer.text, Ast[<<Top.node, 1, Answer.end>>])
  <2>1. Resumed(Top, reply.from, Answer) =
          IF Failed(Answer) THEN Fails
          ELSE Adopt(Answer.text, Ast[<<Top.node, 1, Answer.end>>])
    BY <1>1, <1>3, ResumeFirstRound
  <2>. QED
    BY <1>3, <2>1, TheDebt
<1>4. CASE GotNull /\ Top.child = 1 /\ ReturnNull
  BY <1>3, <1>4, TheDebt, NullAgrees
<1>5. CASE GotNode /\ Top.child = 1 /\ Again(reply.text)
  <2>1. whole = Adopt(reply.text, Ast[<<Top.node, 1, begin>>])
    BY <1>3, <1>5, TheDebt
  <2>2. begin \in Top.backup .. End /\ reply.text \in Seq(Nat)
    <3>1. reply.from \in Top.backup .. End /\ reply.from \in 1 .. begin
      BY <1>5, TheDebt, TheTop DEF Waits, Replied, Simulating
    <3>. QED
      BY <1>5, <3>1, TheDebt
  <2>. QED
    BY <1>1, <1>5, <2>1, <2>2, AgainAgrees
<1>6. CASE EndOfRound
  BY <1>1, <1>6, EndOfRoundAgrees
<1>. QED
  BY <1>2, <1>4, <1>5, <1>6 DEF ParseOneOrMore

\* Every step.
LEMMA StepAgrees ==
  ASSUME SpanInv, AgreeInv, AstSolved, AreNodes(Nodes), [Next]_vars
  PROVE  AgreeInv'
<1>1. CASE stack # <<>> /\ Step(Term(Top.node)) /\ UNCHANGED <<sample, outcome>>
  <2>1. Simulating
    BY <1>1 DEF Simulating
  <2>. QED
    BY <1>1, <2>1, CharacterAgrees, StringAgrees, RuleAgrees, AndAgrees, OrAgrees, NotAgrees,
       ZeroOrMoreAgrees, OneOrMoreAgrees, ZeroOrOneAgrees DEF Step
<1>2. CASE UNCHANGED <<sample, stack, begin, reply>> /\ (outcome' = outcome \/ ParserReturns)
  <2>1. CallersOwe'
    <3>1. ASSUME NEW i \in 2 .. Len(stack') PROVE Owes(stack'[i], stack'[i - 1].backup)
      BY <1>2 DEF AgreeInv, CallersOwe
    <3>. QED
      BY <1>2, <3>1, CallersOweNext
  <2>2. stack' # <<>> => StartsAtRoot'
    BY <1>2 DEF AgreeInv, StartsAtRoot
  <2>3. reply' # NoReply => Answered'
    <3>1. PICK c, at : c = Top /\ at = reply.from
      OBVIOUS
    <3>2. Top' = c /\ reply'.from = at /\ Answer' = Answer
      BY <1>2, <3>1 DEF Top, Answer, GotNode
    <3>3. Owes(c, at)' = Owes(c, at) /\ AstRoot' = AstRoot /\ Ast' = Ast /\ Called(c)' = Called(c)
      BY <1>2, SameDebts, SameAst DEF Called, Op
    <3>. QED
      BY <1>2, <3>1, <3>2, <3>3 DEF AgreeInv, Answered
  <2>4. CASE outcome' = outcome
    BY <1>2, <2>1, <2>2, <2>3, <2>4, SameDebts DEF AgreeInv, NoReply
  <2>5. CASE ParserReturns
    <3>1. AstRoot = Answer
      BY <2>5 DEF ParserReturns, AgreeInv, SpanInv, Answered, Replied, NoReply
    <3>2. outcome' = "accepted" <=> AstAccepts(AstRoot)
      BY <2>5, <3>1 DEF ParserReturns, AstAccepts, Answer, Failed, Node, Fails
    <3>. QED
      BY <1>2, <2>1, <2>2, <2>3, <2>5, <3>2, SameDebts DEF AgreeInv, NoReply, ParserReturns
  <2>. QED
    BY <1>2, <2>4, <2>5
<1>. QED
  BY <1>1, <1>2 DEF Next, ParserReturns, vars

LEMMA InitAgrees ==
  ASSUME Init, AreNodes(Nodes)
  PROVE  AgreeInv
<1>1. /\ stack = <<Frame(Root(sample.grammar, sample.rule), 1)>> /\ Len(stack) = 1
      /\ stack[1] = Frame(Root(sample.grammar, sample.rule), 1)
  BY DEF Init
<1>2. StartsAtRoot
  BY <1>1 DEF StartsAtRoot, Frame
<1>. QED
  BY <1>1, <1>2 DEF Init, AgreeInv, CallersOwe

LEMMA AstIsThere ==
  ASSUME AreNodes(Nodes), AreNullable(Nodes, Nullable), AreRanked(Nodes, Nullable, Rank), SpanInv
  PROVE  AstSolved
<1>1. End \in Nat
  BY DEF SpanInv, AreNodes, End, Input
<1>. QED
  BY <1>1, AstIsSolved DEF AstSolved

\* parse.hpp, which moves one iterator through the calls and puts it back, and
\* parse_ast.hpp, which passes positions to functions, are the same parser: node
\* for node, and on which inputs they accept.
THEOREM ParsersAgree ==
  ASSUME AreNodes(Nodes), AreNullable(Nodes, Nullable), AreRanked(Nodes, Nullable, Rank)
  PROVE  Spec => []TheParsersAgree
<1>1. Init => SpanInv /\ AgreeInv
  BY InitSpans, InitAgrees
<1>2. SpanInv /\ AgreeInv /\ [Next]_vars => (SpanInv /\ AgreeInv)'
  BY StepKeepsSpans, AstIsThere, StepAgrees
<1>3. SpanInv /\ AgreeInv => TheParsersAgree
  <2>1. ASSUME SpanInv, AgreeInv, stack = <<>> PROVE AstRoot = Answer
    BY <2>1 DEF AgreeInv, SpanInv, Answered, Replied, NoReply
  <2>. QED
    BY <2>1 DEF TheParsersAgree, Agrees, AgreeInv, Answer
<1>. QED
  BY <1>1, <1>2, <1>3, PTL DEF Spec
=============================================================================
