----------------------------- MODULE Recognition -----------------------------
(***************************************************************************)
(* The same terms read as the ABNF they were written from: any alternative *)
(* and any number of rounds may be taken.  A parse takes the first         *)
(* alternative that matches and as many rounds as match, for good, so what *)
(* it accepts is derivable; the converse is what the order of the          *)
(* alternatives of each grammar is to ensure.                              *)
(***************************************************************************)
EXTENDS ParseAst

CONSTANTS
  ExactRules,      \* <<grammar, rule>> whose order of alternatives is argued
                   \* to lose nothing
  ListedAsSafe     \* ... and those RFC5322.hpp:7-12 lists

Ends(node) == IF Failed(node) THEN {} ELSE {node.end}

(* Everywhere the ABNF may stop matching from p.                           *)
RECURSIVE Prefixes(_, _), PrefixesOfAll(_, _), Rounds(_, _)
Prefixes(term, p) ==
  CASE term.op = "class" -> Ends(AstCharacters(term.codes, p))
    [] term.op = "string" -> Ends(AstString(term.tokens, p))
    [] term.op = "rule" -> Prefixes(Grammars[term.grammar][term.rule], p)
    [] term.op = "and" -> PrefixesOfAll(term.of, {p})
    [] term.op = "or" ->
         UNION {Prefixes(term.of[i], p) : i \in DOMAIN term.of}
    [] term.op = "zero_or_one" -> {p} \union Prefixes(term.of[1], p)
    [] term.op = "zero_or_more" -> Rounds(term.of[1], {p})
    [] term.op = "one_or_more" -> Rounds(term.of[1], Prefixes(term.of[1], p))
    [] term.op = "not" ->
         IF PrefixesOfAll(term.of, {SkipWs(p)}) = {} THEN {p} ELSE {}
PrefixesOfAll(terms, ps) ==
  IF terms = <<>> \/ ps = {} THEN ps
  ELSE PrefixesOfAll(Tail(terms), UNION {Prefixes(Head(terms), p) : p \in ps})
Rounds(term, ps) ==
  LET more == ps \union UNION {Prefixes(term, p) : p \in ps}
  IN IF more = ps THEN ps ELSE Rounds(term, more)

Derivable == End \in Prefixes(Grammars[sample.grammar][sample.rule], 1)
Parsed(rules) == outcome # "parsing" /\ <<sample.grammar, sample.rule>> \in rules

-----------------------------------------------------------------------------
(* Nothing is accepted that the ABNF does not derive, and the rules whose  *)
(* order of alternatives the sources argue for accept all that it derives: *)
(* no alternative takes a prefix away from a later one (RFC3986.hpp:8-10,  *)
(* RFC5536.hpp:21-24, RFC5646.hpp:12 and the comment above its regular).   *)
OrderedChoiceIsExact ==
  /\ outcome = "accepted" => Derivable
  /\ Parsed(ExactRules) => (Derivable => outcome = "accepted")

(* "Since the modern forms are strict subsets of the liberal obsolete      *)
(* forms, ordered choice here is safe: whichever succeeds first is a valid *)
(* parse" (RFC5322.hpp:11-13): what those rules derive is accepted.        *)
OrderedChoiceIsSafe ==
  Parsed(ListedAsSafe) => (Derivable => outcome = "accepted")

(* "Subtags use not_<ALPHA>/not_<alphanum> boundaries so a longer subtag is *)
(* not partially absorbed by a shorter NALPHA alternative"                  *)
(* (RFC5646.hpp:13-14): a tag that langtag derives is accepted.             *)
SubtagsStayWhole ==
  Parsed({<<"RFC5646", "langtag">>}) => (Derivable => outcome = "accepted")
=============================================================================
