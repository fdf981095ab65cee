------------------------------- MODULE MCParse -------------------------------
(***************************************************************************)
(* The inputs that the grammars are run on: for a rule, every word over a  *)
(* few characters up to some length, between a prefix and a suffix.        *)
(***************************************************************************)
EXTENDS Recognition

Seqs == INSTANCE SequencesExt

Mail == INSTANCE RFC5322
News == INSTANCE RFC5536
Uri == INSTANCE RFC3986
Core == INSTANCE RFC5234
Http == INSTANCE RFC7230
Semantics == INSTANCE RFC7231
Conditional == INSTANCE RFC7232
LanguageTag == INSTANCE RFC5646
DomainName == INSTANCE RFC1035

AllGrammars ==
  [ RFC5322 |-> Mail!Rules, RFC5536 |-> News!Rules, RFC3986 |-> Uri!Rules,
    RFC5234 |-> Core!Rules, RFC7230 |-> Http!Rules, RFC7231 |-> Semantics!Rules,
    RFC7232 |-> Conditional!Rules, RFC7233 |-> Conditional!Rules7233,
    RFC4647 |-> LanguageTag!Rules4647, RFC5646 |-> LanguageTag!Rules,
    RFC1035 |-> DomainName!Rules ]

(* The nodes of the grammars: a rule, and a way down through operands.     *)
Operands(term) == IF term.op \in Combinators THEN 1 .. Arity(term) ELSE {}
IsNode(node) ==
  LET below[n \in 0 .. Len(node.way)] ==
        \/ n = 0
        \/ /\ below[n - 1]
           /\ node.way[n] \in Operands(Term([node EXCEPT !.way = SubSeq(@, 1, n - 1)]))
  IN node.rule \in DOMAIN AllGrammars[node.grammar] /\ below[Len(node.way)]
GrammarNodes ==
  {node \in [grammar : DOMAIN AllGrammars, rule : STRING, way : Seq(Nat)] : IsNode(node)}

(* All of them, those that may match the empty text, and the longest chain *)
(* of calls from each before anything is consumed.                         *)
RECURSIVE Below(_), Grow(_), Levels(_, _)
Below(node) ==
  LET term == Term(node)
  IN {node} \union IF term.op \in Combinators
                   THEN UNION {Below(Child(node, i)) : i \in 1 .. Arity(term)} ELSE {}
AllNodes ==
  UNION {UNION {Below(Root(grammar, rule)) : rule \in DOMAIN AllGrammars[grammar]} :
           grammar \in DOMAIN AllGrammars}

Grow(nullable) ==
  LET more == {node \in AllNodes : MayBeEmpty(node, nullable)}
  IN IF more = nullable THEN nullable ELSE Grow(more)
AllNullable == Grow({})

Levels(calls, ranked) ==
  LET next == {node \in DOMAIN calls \ ranked : calls[node] \subseteq ranked}
  IN IF next = {} THEN <<>> ELSE <<next>> \o Levels(calls, ranked \union next)
AllRanks ==
  LET levels == Levels([node \in AllNodes |-> LeftCalls(node, AllNullable)], {})
  IN [node \in UNION {levels[n] : n \in DOMAIN levels} |->
        CHOOSE n \in DOMAIN levels : node \in levels[n]]

Words(chunks, most) == UNION {[1 .. n -> chunks] : n \in 0 .. most}
Spelled(chunks) == Seqs!FlattenSeq([i \in DOMAIN chunks |-> Letters(chunks[i])])
Inputs(grammar, rule, prefix, chunks, most, suffix) ==
  { [ grammar |-> grammar, rule |-> rule,
      input |-> Spelled(<<prefix>> \o w \o <<suffix>>),
      whitespace |-> {}, ignore_case |-> FALSE ] : w \in Words(chunks, most) }

(* With the parser's default white space, and ignoring case.               *)
Lax(samples) ==
  {[s EXCEPT !.whitespace = {" ", "\t", "\n", "\r"}, !.ignore_case = TRUE] : s \in samples}

(* Rules whose header argues for the order of their alternatives, with the *)
(* inputs on which the alternatives have a prefix in common.               *)
Argued ==
  UNION
  { Inputs("RFC3986", "dec_octet", "", {"0", "2", "5"}, 4, ""),
    Inputs("RFC3986", "ls32", "", {"25", "6", ".", ":"}, 5, ""),
    Inputs("RFC3986", "ls32", "1.1.1.", {"2", "5", ":"}, 3, ""),
    Inputs("RFC3986", "IPv6address", "", {"1", ":"}, 7, ""),
    Inputs("RFC3986", "IPv6address", "1:1", {":1", "::", "1.1.1.1"}, 4, ""),
    Inputs("RFC3986", "IPv6address", "1:1:1:1:1", {":1", "::", "1.1.1.1"}, 3, ""),
    Inputs("RFC5536", "value", "", {"a", " ", "\""}, 4, ""),
    Inputs("RFC5536", "id_right", "", {"a", ".", "[", "]"}, 4, ""),
    Inputs("RFC5646", "language", "", {"ab", "c", "-"}, 5, ""),
    Inputs("RFC5646", "regular", "zh-min", {"-", "nan", "a"}, 2, "") }

OtherSamples ==
  UNION
  { Inputs("RFC3986", "URI_reference", "", {"a", ":", "/"}, 4, ""),
    Inputs("RFC3986", "URI_reference", "//1.1.1.1", {"a", ":"}, 1, ""),
    Inputs("RFC5322", "addr_spec", "", {"a", ".", "@", " "}, 3, ""),
    Inputs("RFC5322", "fields", "", {"a", "\r"}, 1, ""),
    Inputs("RFC5322", "obs_unstruct", "", {"a", " ", "\r", "\n"}, 2, ""),
    Inputs("RFC5322", "zone", "", {" ", "U", "T", "("}, 2, ""),
    Inputs("RFC5536", "path_list", "a!.a", {"a", ".", "!", "1"}, 3, "!"),
    Inputs("RFC5536", "followup_to", "Followup-To: ", {"poster", ","}, 2, "\r\n"),
    Inputs("RFC5646", "Language_Tag", "", {"a", "-", "x", "1"}, 4, ""),
    Inputs("RFC5646", "Language_Tag", "zh-min", {"-", "nan", "a"}, 2, ""),
    Inputs("RFC7230", "header_field", "a:", {"a", " "}, 3, ""),
    Inputs("RFC7231", "accept", "", {"*", "/", ","}, 3, ""),
    Inputs("RFC7232", "If_Match", "", {"*", "\"", ","}, 3, ""),
    Inputs("RFC7233", "Range", "bytes=", {"1", "-", ","}, 3, ""),
    Inputs("RFC4647", "language_range", "", {"a", "-", "*"}, 3, ""),
    Lax(Inputs("RFC1035", "domain", "", {"a", "A", ".", " "}, 3, "")),
    Lax(Inputs("RFC5322", "zone", " ", {"u", "T", " "}, 2, "")),
    Lax(Inputs("RFC5646", "privateuse", "X-", {"a", " ", "-"}, 2, "")) }

AllSamples == Argued \union OtherSamples

(* What the theorems about Parse ask of grammars holds of all of these.    *)
ASSUME GrammarsAssumption ==
  /\ AllNodes \subseteq Nodes
  /\ AreNodes(AllNodes)
  /\ LiteralsAreSolid(AllNodes)
  /\ AreNullable(AllNodes, AllNullable)
  /\ AreRanked(AllNodes, AllNullable, AllRanks)

ArguedRules ==
  { <<"RFC3986", "dec_octet">>, <<"RFC3986", "ls32">>, <<"RFC3986", "IPv6address">>,
    <<"RFC5536", "value">>, <<"RFC5536", "id_right">>,
    <<"RFC5646", "language">>, <<"RFC5646", "regular">> }

(* Alternations that RFC5322.hpp:8-10 names.                                *)
ModernOrObsolete == {<<"RFC5322", rule>> : rule \in {"domain", "phrase", "FWS"}}
ObsoleteSamples ==
  UNION
  { Inputs("RFC5322", "domain", "", {"a", ".", " "}, 4, ""),
    Inputs("RFC5322", "phrase", "", {"a", "."}, 2, ""),
    Inputs("RFC5322", "FWS", "", {"\r", "\n", " "}, 4, "") }

(* Tags that begin like one with a language and a region.                   *)
TagSamples == Inputs("RFC5646", "langtag", "pt", {"-", "ao", "1990"}, 3, "")
=============================================================================
