------------------------------- MODULE Grammar -------------------------------
(***************************************************************************)
(* The combinators of src/include/xtd/parse.hpp as terms.  In C++ a rule   *)
(* is a type and its right-hand side a nest of templates; here it is a     *)
(* value, and a grammar is a record that gives every named rule its term.  *)
(* a & b is and_<a, b> and a | b is or_<a, b>; both are n-ary, as there.   *)
(*                                                                         *)
(* The input of a parse is a sequence of characters, each one a string of  *)
(* length one or the name of a character that cannot be written.           *)
(***************************************************************************)
EXTENDS Integers, Sequences, TLC

Printable == <<"!", "\"", "#", "$", "%", "&", "'", "(", ")", "*", "+", ",",
  "-", ".", "/", "0", "1", "2", "3", "4", "5", "6", "7", "8", "9", ":", ";",
  "<", "=", ">", "?", "@", "A", "B", "C", "D", "E", "F", "G", "H", "I", "J",
  "K", "L", "M", "N", "O", "P", "Q", "R", "S", "T", "U", "V", "W", "X", "Y",
  "Z", "[", "\\", "]", "^", "_", "grave", "a", "b", "c", "d", "e", "f", "g", "h",
  "i", "j", "k", "l", "m", "n", "o", "p", "q", "r", "s", "t", "u", "v", "w",
  "x", "y", "z", "{", "|", "}", "~">>

Control == "NUL" :> 0 @@ "SOH" :> 1 @@ "\t" :> 9 @@ "\n" :> 10 @@ "VT" :> 11 @@ "\f" :> 12
             @@ "\r" :> 13 @@ " " :> 32 @@ "DEL" :> 127

Code == Control @@ [c \in {Printable[i] : i \in DOMAIN Printable} |->
                      32 + CHOOSE i \in DOMAIN Printable : Printable[i] = c]

Codes(c) == {Code[c]}

(* The characters of a literal.                                            *)
Letters(literal) == [i \in 1 .. Len(literal) |-> SubSeq(literal, i, i)]

UpperLetters == {Printable[i] : i \in 33..58}
to_lower_ch(c) == IF c \in UpperLetters THEN Printable[Code[c]] ELSE c
swap_codes(codes) == {IF n \in 65..90 THEN n + 32
                      ELSE IF n \in 97..122 THEN n - 32 ELSE n : n \in codes}
char_match(a, b, ignore_case) ==
  IF ignore_case THEN to_lower_ch(a) = to_lower_ch(b) ELSE a = b

-----------------------------------------------------------------------------
(* Terminals: characters<first, last>, character<c>, and a set of codes;   *)
(* STRING(name, "lit").                                                    *)
Class(codes) == [op |-> "class", codes |-> codes]
Chars(first, last) == Class(first .. last)
Ch(c) == Class(Codes(c))
Lit(literal) == [op |-> "string", tokens |-> Letters(literal)]

(* A reference to a named rule of a grammar.                               *)
Ref(grammar, rule) == [op |-> "rule", grammar |-> grammar, rule |-> rule]

Opt(t) == [op |-> "zero_or_one", of |-> <<t>>]
Star(t) == [op |-> "zero_or_more", of |-> <<t>>]
Plus(t) == [op |-> "one_or_more", of |-> <<t>>]
Not(ts) == [op |-> "not", of |-> ts]
Empty == [op |-> "and", of |-> <<>>]

Parts(op, t) == IF t.op = op THEN t.of ELSE <<t>>
a & b == [op |-> "and", of |-> Parts("and", a) \o Parts("and", b)]

(* An or_ of terminals that take one character is one such terminal.       *)
a | b == IF a.op = "class" /\ b.op = "class"
           THEN Class(a.codes \union b.codes)
           ELSE [op |-> "or", of |-> Parts("or", a) \o Parts("or", b)]

(* The bounded repetitions the grammars expand by hand: n copies in a row, *)
(* and up to n of them as zero_or_one_s inside one another.                *)
Times(n, t) == [op |-> "and", of |-> [i \in 1 .. n |-> t]]
AtMost(n, t) ==
  LET upTo[i \in 0 .. n] == IF i = 0 THEN Empty ELSE Opt(t & upTo[i - 1])
  IN upTo[n]
=============================================================================
