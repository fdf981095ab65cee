------------------------------- MODULE ParseAst -------------------------------
(***************************************************************************)
(* src/include/xtd/parse_ast.hpp: the library's other parser over the same *)
(* combinators.  Its rules are static functions that hold no state.  They  *)
(* call each other through one function of places: <<node, 0, p>> is the   *)
(* node's parse() called at position p, and <<node, i, p>> what is left of *)
(* it from its i-th operand on (try_all, try_any, try_seq, the loop of a   *)
(* repetition).                                                            *)
(***************************************************************************)
EXTENDS Parse

CONSTANT Nodes      \* the nodes of the grammars

Places == Nodes \X Nat \X (1 .. End)

(* It returns false, or true with the position where begin ends up and the *)
(* characters under the ast_node that it makes.                            *)
Fails == [kind |-> "null", end |-> 0, text |-> <<>>]
Node(end, text) == [kind |-> "node", end |-> end, text |-> text]
Failed(result) == result.kind = "null"
Adopt(text, rest) ==
  IF Failed(rest) THEN Fails ELSE Node(rest.end, text \o rest.text)

AstCharacters(codes, p) ==
  LET at == SkipWs(p)
  IN IF at # End /\ InClass(codes, Input[at]) THEN Node(at + 1, <<at>>) ELSE Fails

AstString(tokens, p) ==
  LET at == SkipWs(p)
      stop == at + Len(tokens)
  IN IF /\ stop <= End
        /\ \A i \in at .. stop - 1 :
             char_match(Input[i], tokens[i - at + 1], sample.ignore_case)
       THEN Node(stop, [i \in 1 .. Len(tokens) |-> at + i - 1])
       ELSE Fails

AstRule(ast, term, p) == ast[<<Root(term.grammar, term.rule), 0, p>>]

AstNot(ast, node, p) ==
  IF Failed(ast[<<node, 1, SkipWs(p)>>]) THEN Node(p, <<>>) ELSE Fails

AstAnd(ast, term, node, i, p) ==
  IF i > Arity(term) THEN Node(p, <<>>)
  ELSE LET first == ast[<<Child(node, i), 0, p>>]
       IN IF Failed(first) THEN Fails
          ELSE Adopt(first.text, ast[<<node, i + 1, first.end>>])

AstOr(ast, term, node, i, p) ==
  IF i > Arity(term) THEN Fails
  ELSE LET first == ast[<<Child(node, i), 0, p>>]
       IN IF Failed(first) THEN ast[<<node, i + 1, p>>] ELSE first

(* The loop of the repetitions, which a child that fails or makes no       *)
(* progress ends.                                                          *)
AstLoop(ast, node, p) ==
  IF p = End THEN Node(p, <<>>)
  ELSE LET next == ast[<<Child(node, 1), 0, p>>]
       IN IF Failed(next) \/ next.end = p THEN Node(p, <<>>)
          ELSE Adopt(next.text, ast[<<node, 1, next.end>>])

AstOneOrMore(ast, node, p) ==
  LET first == ast[<<Child(node, 1), 0, p>>]
  IN IF Failed(first) THEN Fails
     ELSE Adopt(first.text, ast[<<node, 1, first.end>>])

AstZeroOrOne(ast, node, p) ==
  LET child == ast[<<Child(node, 1), 0, p>>]
  IN IF Failed(child) THEN Node(p, <<>>) ELSE child

AstCall(ast, term, node, p) ==
  CASE term.op = "class" -> AstCharacters(term.codes, p)
    [] term.op = "string" -> AstString(term.tokens, p)
    [] term.op = "rule" -> AstRule(ast, term, p)
    [] term.op = "not" -> AstNot(ast, node, p)
    [] term.op \in {"and", "or", "zero_or_more"} -> ast[<<node, 1, p>>]
    [] term.op = "one_or_more" -> AstOneOrMore(ast, node, p)
    [] term.op = "zero_or_one" -> AstZeroOrOne(ast, node, p)

AstRest(ast, term, node, i, p) ==
  CASE term.op \in {"and", "not"} -> AstAnd(ast, term, node, i, p)
    [] term.op = "or" -> AstOr(ast, term, node, i, p)
    [] term.op \in {"zero_or_more", "one_or_more"} -> AstLoop(ast, node, p)
    [] OTHER -> Fails

AstAt(ast, term, node, i, p) ==
  IF i = 0 THEN AstCall(ast, term, node, p) ELSE AstRest(ast, term, node, i, p)

Ast[at \in Places] == AstAt(Ast, Term(at[1]), at[1], at[2], at[3])

(* parser::parse of parse_ast.hpp: all of the input or nothing.            *)
AstRoot == Ast[<<Root(sample.grammar, sample.rule), 0, 1>>]
AstAccepts(root) == ~Failed(root) /\ root.end = End

-----------------------------------------------------------------------------
(* The two parsers agree: the calls, backups and replies of parse.hpp end  *)
(* where the functions of parse_ast.hpp do, with the same characters under *)
(* the root in the same order, and they accept the same inputs ("an        *)
(* alternative implementation to xtd/parse.hpp", parse_ast.hpp:4).  How    *)
(* the nodes between the root and the characters nest is not compared.     *)
Agrees(root) ==
  /\ stack = <<>> => root = IF GotNode THEN Node(begin, reply.text) ELSE Fails
  /\ outcome # "parsing" => (outcome = "accepted" <=> AstAccepts(root))
TheParsersAgree == Agrees(AstRoot)
=============================================================================
