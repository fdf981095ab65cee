------------------------------- MODULE RFC5234 --------------------------------
(*****************************************************************************)
(* RFC5234.hpp: the core rules of ABNF, which every other grammar imports.   *)
(*****************************************************************************)
EXTENDS Grammar

R(rule) == Ref("RFC5234", rule)

CR == Ch("\r")
LF == Ch("\n")
SP == Ch(" ")
HTAB == Ch("\t")
DQUOTE == Ch("\"")
DIGIT == Chars(48, 57)
ALPHA_UPPER == Chars(65, 90)
ALPHA_LOWER == Chars(97, 122)
HEX_LOWER == Chars(97, 102)
HEX_UPPER == Chars(65, 70)
VCHAR == Chars(33, 126)
OCTET == Class({0, 255})  \* '\xff' is -1 in a signed char, below '\x00'
CTL_LOW == Chars(0, 31)
CTL_DEL == Ch("DEL")
ALPHA == Chars(65, 90) | Chars(97, 122)
HEXDIG == Chars(48, 57) | Chars(97, 102) | Chars(65, 70)
CTL == Chars(0, 31) | Ch("DEL")
WSP == Ch(" ") | Ch("\t")

(* CRLF and linear white space.                                              *)
Rules5234 == [
  CRLF |-> Ch("\r") & Ch("\n"),
  LWSP |-> Star(WSP | R("CRLF") & WSP) ]

Rules == Rules5234
===============================================================================
