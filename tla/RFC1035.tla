------------------------------- MODULE RFC1035 --------------------------------
(*****************************************************************************)
(* RFC1035.hpp: a domain name.                                               *)
(*****************************************************************************)
EXTENDS Grammar

R(rule) == Ref("RFC1035", rule)

letter == Chars(97, 122) | Chars(65, 90)
let_dig == letter | Chars(48, 57)
let_dig_hyp == let_dig | Ch("-")
label == letter & Star(let_dig_hyp)
subdomain == label & Star(Ch(".") & label)

(* 2.3.1: the preferred name syntax.                                         *)
Rules1035 == [
  domain |-> subdomain ]

Rules == Rules1035
===============================================================================
