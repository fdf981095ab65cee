------------------------------- MODULE RFC3986 --------------------------------
(*****************************************************************************)
(* RFC3986.hpp: the generic syntax of a URI.                                 *)
(*****************************************************************************)
EXTENDS Grammar

R(rule) == Ref("RFC3986", rule)

Alpha == Chars(97, 122) | Chars(65, 90)
AlphaNumeric == Alpha | Chars(48, 57)
HexDigit == Chars(48, 57) | Chars(97, 102) | Chars(65, 70)
sub_delims == Ch("!") | Ch("$") | Ch("&") | Ch("'") | Ch("(") | Ch(")")
              | Ch("*") | Ch("+") | Ch(",") | Ch(";") | Ch("=")
unreserved == AlphaNumeric | Ch("-") | Ch(".") | Ch("_") | Ch("~")
h16 == Times(4, HexDigit) | Times(3, HexDigit) | HexDigit & HexDigit
       | HexDigit
ColonColon == Lit("::")
h16_colon(n) == Times(n, h16 & Ch(":"))
h16_run(n) == IF n = 1 THEN h16 ELSE h16_colon(n - 1) & h16

\* Mutant: the shortest run of groups is tried first.
ipv6_pref_shortest_first(n) ==
  Opt([op |-> "or", of |-> [i \in 1 .. n + 1 |-> h16_run(i)]])

ipv6_pref(n) ==  \* longest first
  Opt([op |-> "or", of |-> [i \in 1 .. n + 1 |-> h16_run(n + 2 - i)]])

(* Scheme, authority and the forms of a host.                                *)
Hosts == [
  pct_encoded |-> Ch("%") & HexDigit & HexDigit,
  scheme |-> Alpha & Star(AlphaNumeric | Ch("+") | Ch("-") | Ch(".")),
  userinfo |-> Star(unreserved | R("pct_encoded") | sub_delims | Ch(":")),
  port |-> Star(Chars(48, 57)),
  dec_octet |-> Lit("25") & (Ch("0") | Ch("1") | Ch("2") | Ch("3")
      | Ch("4") | Ch("5")) | Ch("2") & (Ch("0") | Ch("1") | Ch("2") | Ch("3")
      | Ch("4")) & Chars(48, 57) | Ch("1") & Chars(48, 57) & Chars(48, 57)
      | (Ch("1") | Ch("2") | Ch("3") | Ch("4") | Ch("5") | Ch("6") | Ch("7")
      | Ch("8") | Ch("9")) & Chars(48, 57) | Chars(48, 57),
  IPv4address |-> R("dec_octet") & Ch(".") & R("dec_octet") & Ch(".")
      & R("dec_octet") & Ch(".") & R("dec_octet"),
  ls32 |-> R("IPv4address") | h16 & Ch(":") & h16,
  IPv6address |-> h16_colon(6) & R("ls32") | ColonColon & h16_colon(5)
      & R("ls32") | Opt(h16) & ColonColon & h16_colon(4) & R("ls32")
      | ipv6_pref(1) & ColonColon & h16_colon(3) & R("ls32") | ipv6_pref(2)
      & ColonColon & h16_colon(2) & R("ls32") | ipv6_pref(3) & ColonColon
      & h16_colon(1) & R("ls32") | ipv6_pref(4) & ColonColon & R("ls32")
      | ipv6_pref(5) & ColonColon & h16 | ipv6_pref(6) & ColonColon,
  IPvFuture |-> Ch("v") & Plus(HexDigit) & Ch(".") & Plus(unreserved
      | sub_delims | Ch(":")),
  IP_literal |-> Ch("[") & (R("IPv6address") | R("IPvFuture")) & Ch("]"),
  reg_name |-> Star(unreserved | R("pct_encoded") | sub_delims),
  host |-> R("IP_literal") | R("IPv4address") | R("reg_name"),
  authority |-> Opt(R("userinfo") & Ch("@")) & R("host") & Opt(Ch(":")
      & R("port")) ]

(* Paths, query and fragment, and the references made of them.               *)
Paths == [
  pchar |-> unreserved | R("pct_encoded") | sub_delims | Ch(":") | Ch("@"),
  segment |-> Star(R("pchar")),
  segment_nz |-> Plus(R("pchar")),
  segment_nz_nc |-> Plus(unreserved | R("pct_encoded") | sub_delims
      | Ch("@")),
  path_empty |-> Empty,
  path_abempty |-> Star(Ch("/") & R("segment")),
  path_absolute |-> Ch("/") & Opt(R("segment_nz") & Star(Ch("/")
      & R("segment"))),
  path_noscheme |-> R("segment_nz_nc") & Star(Ch("/") & R("segment")),
  path_rootless |-> R("segment_nz") & Star(Ch("/") & R("segment")),
  path |-> R("path_abempty") | R("path_absolute") | R("path_noscheme")
      | R("path_rootless") | R("path_empty"),
  query |-> Star(R("pchar") | Ch("/") | Ch("?")),
  fragment |-> Star(R("pchar") | Ch("/") | Ch("?")),
  hier_part |-> Lit("//") & R("authority") & R("path_abempty")
      | R("path_absolute") | R("path_rootless") | R("path_empty"),
  relative_part |-> Lit("//") & R("authority") & R("path_abempty")
      | R("path_absolute") | R("path_noscheme") | R("path_empty"),
  URI |-> R("scheme") & Ch(":") & R("hier_part") & Opt(Ch("?") & R("query"))
      & Opt(Ch("#") & R("fragment")),
  absolute_URI |-> R("scheme") & Ch(":") & R("hier_part") & Opt(Ch("?")
      & R("query")),
  relative_ref |-> R("relative_part") & Opt(Ch("?") & R("query"))
      & Opt(Ch("#") & R("fragment")),
  URI_reference |-> R("URI") | R("relative_ref") ]

Rules == Hosts @@ Paths
===============================================================================
