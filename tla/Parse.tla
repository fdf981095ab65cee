-------------------------------- MODULE Parse --------------------------------
(***************************************************************************)
(* The recursive descent of src/include/xtd/parse.hpp over the rules of a  *)
(* grammar, one call or return of a rule's parse() at a time.              *)
(*                                                                         *)
(* A frame of the stack is a parse() in progress: the node of the grammar  *)
(* it parses, backup (where begin stood when it was called), the child it  *)
(* is parsing, loop_backup in a repetition, and the positions of the       *)
(* characters its own children have matched so far.  The iterator begin is *)
(* passed by reference through all of them.  reply is what the last        *)
(* parse() returned: nullptr or an AST node, with the span it was called   *)
(* on and the text of its leaves.                                          *)
(***************************************************************************)
EXTENDS Grammar, FiniteSets

CONSTANTS
  Grammars,   \* what each namespace of xtd::Grammars declares
  Samples     \* the parses to run

VARIABLES sample, stack, begin, reply, outcome
vars == <<sample, stack, begin, reply, outcome>>

Input == sample.input
End == Len(Input) + 1
Blank(i) == Input[i] \in sample.whitespace

(* skip_ws                                                                 *)
SkipWs(p) ==
  CHOOSE q \in p .. End : /\ \A i \in p .. q - 1 : Blank(i)
                          /\ q = End \/ ~Blank(q)

(* A node of a grammar: a rule of a namespace and the way down from it.    *)
Root(grammar, rule) == [grammar |-> grammar, rule |-> rule, way |-> <<>>]
Term(node) ==
  LET down[n \in 0 .. Len(node.way)] ==
        IF n = 0 THEN Grammars[node.grammar][node.rule]
                 ELSE down[n - 1].of[node.way[n]]
  IN down[Len(node.way)]
Child(node, i) == [node EXCEPT !.way = Append(@, i)]

Top == Head(stack)
Frame(node, at) ==
  [node |-> node, backup |-> at, child |-> 0, loop_backup |-> 0, text |-> <<>>]

NoReply == [kind |-> "none", from |-> 0, text |-> <<>>]
Entered == Top.child = 0 /\ reply = NoReply
GotNull == reply.kind = "null"
GotNode == reply.kind = "node"

(* The top frame calls parse() of its i-th child, which will find begin    *)
(* at position at; text is what it has matched so far.  A repetition has   *)
(* one child, and mark tells its first call from the rounds of its loop.   *)
CallAs(mark, i, at, text) ==
  LET caller == [Top EXCEPT !.child = mark, !.loop_backup = at, !.text = text]
  IN /\ stack' = <<Frame(Child(Top.node, i), at), caller>> \o Tail(stack)
     /\ begin' = at
     /\ reply' = NoReply
Call(i, at, text) == CallAs(i, i, at, text)

(* It returns its node, or nullptr after begin = backup.                   *)
Return(kind, at, text) ==
  /\ stack' = Tail(stack)
  /\ begin' = at
  /\ reply' = [kind |-> kind, from |-> Top.backup, text |-> text]
ReturnNode(at, text) == Return("node", at, text)
ReturnNull == Return("null", Top.backup, <<>>)

Added == Top.text \o reply.text     \* add_child
Arity(term) == Len(term.of)

-----------------------------------------------------------------------------
(* character, characters: one character of the class, in either case when  *)
(* the parser ignores it.                                                  *)
InClass(codes, c) ==
  \/ Codes(c) \subseteq codes
  \/ sample.ignore_case /\ swap_codes(Codes(c)) \subseteq codes

ParseCharacter(term) ==
  /\ term.op = "class"
  /\ LET at == SkipWs(begin)
     IN IF at # End /\ InClass(term.codes, Input[at])
          THEN ReturnNode(at + 1, <<at>>)
          ELSE ReturnNull

(* Mutant: the literal is compared exactly even where case is ignored.     *)
ParseStringExactCase(term) ==
  /\ term.op = "string"
  /\ LET at == SkipWs(begin)
         lit == term.tokens
     IN IF /\ at + Len(lit) <= End
           /\ \A i \in 1 .. Len(lit) : char_match(Input[at + i - 1], lit[i], FALSE)
          THEN ReturnNode(at + Len(lit), [i \in 1 .. Len(lit) |-> at + i - 1])
          ELSE ReturnNull

ParseString(term) ==
  /\ term.op = "string"
  /\ LET at == SkipWs(begin)
         lit == term.tokens
     IN IF /\ at + Len(lit) <= End
           /\ \A i \in 1 .. Len(lit) :
                char_match(Input[at + i - 1], lit[i], sample.ignore_case)
          THEN ReturnNode(at + Len(lit), [i \in 1 .. Len(lit) |-> at + i - 1])
          ELSE ReturnNull

(* Mutant: a rule that calls itself where it should call what it names.    *)
ParseRuleOfItself(term) ==
  /\ term.op = "rule"
  /\ \/ /\ Entered
        /\ LET own == Root(Top.node.grammar, Top.node.rule)
               caller == [Top EXCEPT !.child = 1]
           IN stack' = <<Frame(own, begin), caller>> \o Tail(stack)
        /\ UNCHANGED <<begin, reply>>
     \/ GotNull /\ ReturnNull
     \/ GotNode /\ ReturnNode(begin, reply.text)

(* A named rule delegates to its implementation and adopts its node.       *)
ParseRule(term) ==
  /\ term.op = "rule"
  /\ \/ /\ Entered
        /\ LET caller == [Top EXCEPT !.child = 1]
           IN stack' = <<Frame(Root(term.grammar, term.rule), begin), caller>>
                         \o Tail(stack)
        /\ UNCHANGED <<begin, reply>>
     \/ GotNull /\ ReturnNull
     \/ GotNode /\ ReturnNode(begin, reply.text)

(* Mutant: a sequence that fails leaves begin where its last child did.    *)
ParseAndConsumes(term) ==
  /\ term.op = "and"
  /\ \/ Entered /\ Arity(term) = 0 /\ ReturnNode(begin, <<>>)
     \/ Entered /\ Arity(term) > 0 /\ Call(1, begin, <<>>)
     \/ GotNull /\ Return("null", begin, <<>>)
     \/ GotNode /\ Top.child < Arity(term) /\ Call(Top.child + 1, begin, Added)
     \/ GotNode /\ Top.child = Arity(term) /\ ReturnNode(begin, Added)

(* try_all: the children in sequence, all or nothing.                      *)
ParseAnd(term) ==
  /\ term.op = "and"
  /\ \/ Entered /\ Arity(term) = 0 /\ ReturnNode(begin, <<>>)
     \/ Entered /\ Arity(term) > 0 /\ Call(1, begin, <<>>)
     \/ GotNull /\ ReturnNull
     \/ GotNode /\ Top.child < Arity(term) /\ Call(Top.child + 1, begin, Added)
     \/ GotNode /\ Top.child = Arity(term) /\ ReturnNode(begin, Added)

(* try_any: the first alternative that matches.                            *)
ParseOr(term) ==
  /\ term.op = "or"
  /\ \/ Entered /\ Call(1, begin, <<>>)
     \/ GotNull /\ Top.child < Arity(term) /\ Call(Top.child + 1, Top.backup, <<>>)
     \/ GotNull /\ Top.child = Arity(term) /\ ReturnNull
     \/ GotNode /\ ReturnNode(begin, reply.text)

(* while (begin != end) of the repetitions: another round.                 *)
Again(text) == IF begin # End THEN CallAs(2, 1, begin, text)
                              ELSE ReturnNode(begin, text)

(* Mutant: no guard against rounds without progress.                       *)
EndOfRoundUnguarded ==
  /\ Top.child = 2
  /\ \/ GotNull /\ ReturnNode(Top.loop_backup, Top.text)
     \/ GotNode /\ Again(Added)

(* A child that fails ends the loop where its round began; one that makes  *)
(* no progress ends it too and is not added.                               *)
EndOfRound ==
  /\ Top.child = 2
  /\ \/ GotNull /\ ReturnNode(Top.loop_backup, Top.text)
     \/ GotNode /\ begin = Top.loop_backup /\ ReturnNode(begin, Top.text)
     \/ GotNode /\ begin # Top.loop_backup /\ Again(Added)

ParseZeroOrMore(term) ==
  /\ term.op = "zero_or_more"
  /\ \/ Entered /\ Again(<<>>)
     \/ EndOfRound

(* The first match is mandatory, and is added even when it is empty.       *)
ParseOneOrMore(term) ==
  /\ term.op = "one_or_more"
  /\ \/ Entered /\ Call(1, begin, <<>>)
     \/ GotNull /\ Top.child = 1 /\ ReturnNull
     \/ GotNode /\ Top.child = 1 /\ Again(reply.text)
     \/ EndOfRound

ParseZeroOrOne(term) ==
  /\ term.op = "zero_or_one"
  /\ \/ Entered /\ Call(1, begin, <<>>)
     \/ GotNull /\ ReturnNode(Top.backup, <<>>)
     \/ GotNode /\ ReturnNode(begin, reply.text)

(* Negative lookahead: try_seq runs on a copy of begin, so nothing is      *)
(* consumed; it fails only when every child has matched in turn.           *)
ParseNot(term) ==
  /\ term.op = "not"
  /\ \/ Entered /\ Call(1, SkipWs(begin), <<>>)
     \/ GotNull /\ ReturnNode(Top.backup, <<>>)
     \/ GotNode /\ Top.child < Arity(term) /\ Call(Top.child + 1, begin, <<>>)
     \/ GotNode /\ Top.child = Arity(term) /\ ReturnNull

(* parser::parse: the start rule must match, and must match all there is.  *)
ParserReturns ==
  /\ stack = <<>> /\ outcome = "parsing"
  /\ outcome' = IF GotNode /\ begin = End THEN "accepted" ELSE "rejected"
  /\ UNCHANGED <<stack, begin, reply>>

-----------------------------------------------------------------------------
Init ==
  /\ sample \in Samples
  /\ stack = <<Frame(Root(sample.grammar, sample.rule), 1)>>
  /\ begin = 1
  /\ reply = NoReply
  /\ outcome = "parsing"

Step(term) ==
  \/ ParseCharacter(term) \/ ParseString(term) \/ ParseRule(term)
  \/ ParseAnd(term) \/ ParseOr(term) \/ ParseNot(term)
  \/ ParseZeroOrMore(term) \/ ParseOneOrMore(term) \/ ParseZeroOrOne(term)

Next == \/ stack # <<>> /\ Step(Term(Top.node)) /\ UNCHANGED <<sample, outcome>>
        \/ ParserReturns /\ UNCHANGED sample

Spec == Init /\ [][Next]_vars /\ WF_vars(Next)

-----------------------------------------------------------------------------
(* What the properties ask of grammars.                                    *)

Combinators == {"and", "or", "not", "zero_or_one", "zero_or_more", "one_or_more"}

(* The nodes of a parse: those of the rules, and the operands of each.     *)
AreNodes(nodes) ==
  /\ \A s \in Samples : Len(s.input) \in Nat /\ Root(s.grammar, s.rule) \in nodes
  /\ \A node \in nodes :
       LET term == Term(node) IN
         /\ term.op \in Combinators \cup {"class", "string", "rule"}
         /\ term.op = "string" => Len(term.tokens) \in Nat
         /\ term.op = "rule" => Root(term.grammar, term.rule) \in nodes
         /\ term.op \in Combinators =>
              /\ Arity(term) \in Nat /\ (term.op # "and" => Arity(term) >= 1)
              /\ \A i \in 1 .. Arity(term) : Child(node, i) \in nodes

(* A literal has no white space in it, unless it starts with it: then it   *)
(* never matches, because white space has been skipped.                    *)
Solid(tokens, s) ==
  \/ \A blank \in s.whitespace, i \in 1 .. Len(tokens) :
       ~char_match(blank, tokens[i], s.ignore_case)
  \/ /\ Len(tokens) > 0
     /\ \A p \in 1 .. Len(s.input) :
          char_match(s.input[p], tokens[1], s.ignore_case) => s.input[p] \in s.whitespace
LiteralsAreSolid(nodes) ==
  \A node \in nodes :
    LET term == Term(node)
    IN term.op = "string" => \A s \in Samples : Solid(term.tokens, s)

(* A set of nodes that no other node may match the empty text without.     *)
MayBeEmpty(node, nullable) ==
  LET term == Term(node) IN
    \/ term.op = "string" /\ Len(term.tokens) = 0
    \/ term.op = "rule" /\ Root(term.grammar, term.rule) \in nullable
    \/ term.op = "and" /\ \A i \in 1 .. Arity(term) : Child(node, i) \in nullable
    \/ /\ term.op \in {"or", "one_or_more"}
       /\ \E i \in 1 .. Arity(term) : Child(node, i) \in nullable
    \/ term.op \in {"not", "zero_or_one", "zero_or_more"}
AreNullable(nodes, nullable) ==
  \A node \in nodes : MayBeEmpty(node, nullable) => node \in nullable

(* What a node may call before it has consumed anything.  A rank that goes *)
(* down with these calls is what a grammar without left recursion has.     *)
LeftCalls(node, nullable) ==
  LET term == Term(node) IN
    IF term.op = "rule" THEN {Root(term.grammar, term.rule)}
    ELSE IF term.op \in Combinators
    THEN {Child(node, i) :
            i \in {j \in 1 .. Arity(term) : term.op \in {"and", "not"} =>
                    \A k \in 1 .. j - 1 : Child(node, k) \in nullable}}
    ELSE {}
AreRanked(nodes, nullable, rank) ==
  /\ rank \in [nodes -> Nat]
  /\ \A node \in nodes :
       \A callee \in LeftCalls(node, nullable) : rank[callee] < rank[node]

-----------------------------------------------------------------------------
(* text is the positions from one up to another that are not white space,  *)
(* in order.                                                               *)
IsSpan(text, from, to) ==
  /\ \A i, j \in DOMAIN text : i < j => text[i] < text[j]
  /\ {text[i] : i \in DOMAIN text} = {p \in from .. to - 1 : ~Blank(p)}

(* A parse() that returns nullptr has put begin back where it found it,    *)
(* and one that returns a node has moved it over exactly the characters of *)
(* the node's leaves, in order, and the white space before them: no child  *)
(* of an alternative that was given up is left in the tree or skipped      *)
(* (rule_base's contract, and the backup of every combinator).             *)
ReplyIsItsSpan ==
  /\ GotNull => begin = reply.from
  /\ GotNode => IsSpan(reply.text, reply.from, begin)

(* No rule is being parsed at the position where it is already being       *)
(* parsed further down the stack: no grammar is left-recursive, which      *)
(* would be a recursion of parse() that nothing ends.                      *)
NoLeftRecursion ==
  \A i \in 2 .. Len(stack) : stack[i].node = Top.node => stack[i].backup # Top.backup

(* Every parse ends: no repetition goes round on a child that matches      *)
(* without consuming.                                                      *)
ParseEnds == <>(outcome # "parsing")
=============================================================================
