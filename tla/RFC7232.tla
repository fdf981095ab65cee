------------------------------- MODULE RFC7232 --------------------------------
(*****************************************************************************)
(* RFC7232.hpp and RFC7233.hpp: HTTP/1.1 conditional and range requests.     *)
(*****************************************************************************)
EXTENDS Grammar

Http == INSTANCE RFC7230

R(rule) == Ref("RFC7232", rule)
R7233(rule) == Ref("RFC7233", rule)

DIGIT == Http!DIGIT
OWS == Http!OWS
SP == Http!SP
VCHAR == Http!VCHAR
obs_text == Ref("RFC7230", "obs_text")
DQUOTE == Http!DQUOTE
token == Ref("RFC7230", "token")
HTTP_date == Ref("RFC7231", "HTTP_date")

(* Entity tags and the conditions made of them.                              *)
Rules7232 == [
  etagc |-> Ch("!") | Chars(35, 126) | obs_text,
  opaque_tag |-> DQUOTE & Star(R("etagc")) & DQUOTE,
  entity_tag |-> Opt(Lit("W/")) & R("opaque_tag"),
  ETag |-> R("entity_tag"),
  If_Match |-> Ch("*") | Star(Ch(",") & OWS) & R("entity_tag") & Star(OWS
      & Ch(",") & Opt(OWS & R("entity_tag"))),
  If_None_Match |-> Ch("*") | Star(Ch(",") & OWS) & R("entity_tag") & Star(OWS
      & Ch(",") & Opt(OWS & R("entity_tag"))),
  If_Modified_Since |-> HTTP_date,
  If_Unmodified_Since |-> HTTP_date,
  Last_Modified |-> HTTP_date ]

(* Byte ranges and the requests of them.                                     *)
Ranges == [
  bytes_unit |-> Lit("bytes"),
  other_range_unit |-> token,
  range_unit |-> R7233("bytes_unit") | R7233("other_range_unit"),
  first_byte_pos |-> Plus(DIGIT),
  last_byte_pos |-> Plus(DIGIT),
  suffix_length |-> Plus(DIGIT),
  complete_length |-> Plus(DIGIT),
  byte_range_spec |-> R7233("first_byte_pos") & Ch("-") & Opt(R7233("last_byte_pos")),
  suffix_byte_range_spec |-> Ch("-") & R7233("suffix_length"),
  byte_range_set |-> Star(Ch(",") & OWS) & (R7233("suffix_byte_range_spec")
      | R7233("byte_range_spec")) & Star(OWS & Ch(",") & Opt(OWS
      & (R7233("suffix_byte_range_spec") | R7233("byte_range_spec")))),
  byte_ranges_specifier |-> R7233("bytes_unit") & Ch("=") & R7233("byte_range_set"),
  other_range_set |-> Plus(VCHAR),
  other_ranges_specifier |-> R7233("other_range_unit") & Ch("=")
      & R7233("other_range_set"),
  Range |-> R7233("byte_ranges_specifier") | R7233("other_ranges_specifier") ]

(* What a response says of its range.                                        *)
ContentRanges == [
  acceptable_ranges |-> Lit("none") | Star(Ch(",") & OWS)
      & R7233("range_unit") & Star(OWS & Ch(",") & Opt(OWS & R7233("range_unit"))),
  Accept_Ranges |-> R7233("acceptable_ranges"),
  byte_range |-> R7233("first_byte_pos") & Ch("-") & R7233("last_byte_pos"),
  byte_range_resp |-> R7233("byte_range") & Ch("/") & (R7233("complete_length")
      | Ch("*")),
  unsatisfied_range |-> Ch("*") & Ch("/") & R7233("complete_length"),
  byte_content_range |-> R7233("bytes_unit") & SP & (R7233("unsatisfied_range")
      | R7233("byte_range_resp")),
  other_range_resp |-> Star(Chars(1, 127)),
  other_content_range |-> R7233("other_range_unit") & SP & R7233("other_range_resp"),
  Content_Range |-> R7233("byte_content_range") | R7233("other_content_range"),
  If_Range |-> R("entity_tag") | HTTP_date ]

Rules7233 == Ranges @@ ContentRanges
Rules == Rules7232
===============================================================================
