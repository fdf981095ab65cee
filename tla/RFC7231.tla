------------------------------- MODULE RFC7231 --------------------------------
(*****************************************************************************)
(* RFC7231.hpp: HTTP/1.1 semantics and content.                              *)
(*****************************************************************************)
EXTENDS Grammar

Http == INSTANCE RFC7230

R(rule) == Ref("RFC7231", rule)

language_range == Ref("RFC4647", "language_range")
language_tag == Ref("RFC5646", "Language_Tag")
mailbox == Ref("RFC5322", "mailbox")
OWS == Http!OWS
RWS == Http!RWS
URI_reference == Ref("RFC3986", "URI_reference")
absolute_URI == Ref("RFC3986", "absolute_URI")
comment == Ref("RFC7230", "comment")
field_name == Ref("RFC7230", "field_name")
partial_URI == Ref("RFC7230", "partial_URI")
quoted_string == Ref("RFC7230", "quoted_string")
token == Ref("RFC7230", "token")
DIGIT == Http!DIGIT
SP == Http!SP
digit_2 == DIGIT & DIGIT
digit_4 == Times(4, DIGIT)
up_to_3DIGIT == AtMost(3, DIGIT)
up_to_3zero == AtMost(3, Ch("0"))

(* Dates.                                                                    *)
Dates == [
  day_name |-> Lit("Mon") | Lit("Tue") | Lit("Wed")
      | Lit("Thu") | Lit("Fri") | Lit("Sat") | Lit("Sun"),
  day_name_1 |-> Lit("Monday") | Lit("Tuesday") | Lit("Wednesday")
      | Lit("Thursday") | Lit("Friday") | Lit("Saturday")
      | Lit("Sunday"),
  month |-> Lit("Jan") | Lit("Feb") | Lit("Mar") | Lit("Apr")
      | Lit("May") | Lit("Jun") | Lit("Jul") | Lit("Aug")
      | Lit("Sep") | Lit("Oct") | Lit("Nov") | Lit("Dec"),
  day |-> digit_2,
  hour |-> digit_2,
  minute |-> digit_2,
  second |-> digit_2,
  year |-> digit_4,
  date1 |-> R("day") & SP & R("month") & SP & R("year"),
  date2 |-> R("day") & Ch("-") & R("month") & Ch("-") & digit_2,
  date3 |-> R("month") & SP & (digit_2 | SP & DIGIT),
  time_of_day |-> R("hour") & Ch(":") & R("minute") & Ch(":") & R("second"),
  IMF_fixdate |-> R("day_name") & Ch(",") & SP & R("date1") & SP
      & R("time_of_day") & SP & Lit("GMT"),
  rfc850_date |-> R("day_name_1") & Ch(",") & SP & R("date2") & SP
      & R("time_of_day") & SP & Lit("GMT"),
  asctime_date |-> R("day_name") & SP & R("date3") & SP & R("time_of_day")
      & SP & R("year"),
  obs_date |-> R("rfc850_date") | R("asctime_date"),
  HTTP_date |-> R("IMF_fixdate") | R("obs_date") ]

(* Media types, weights and products.                                        *)
MediaTypes == [
  qvalue |-> Ch("0") & Opt(Ch(".") & up_to_3DIGIT) | Ch("1") & Opt(Ch(".")
      & up_to_3zero),
  weight |-> OWS & Ch(";") & OWS & Ch("q") & Ch("=") & R("qvalue"),
  parameter |-> token & Ch("=") & (token | quoted_string),
  type |-> token,
  subtype |-> token,
  media_type |-> R("type") & Ch("/") & R("subtype") & Star(OWS & Ch(";") & OWS
      & R("parameter")),
  media_range |-> (Lit("*/*") | R("type") & Lit("/*")
      | R("type") & Ch("/") & R("subtype")) & Star(OWS & Ch(";") & OWS
      & R("parameter")),
  accept_ext |-> OWS & Ch(";") & OWS & token & Opt(Ch("=") & (token
      | quoted_string)),
  accept_params |-> R("weight") & Star(R("accept_ext")),
  charset |-> token,
  content_coding |-> token,
  codings |-> Lit("identity") | Ch("*") | R("content_coding"),
  method |-> token,
  product_version |-> token,
  product |-> token & Opt(Ch("/") & R("product_version")),
  delay_seconds |-> Plus(DIGIT) ]

(* The values of the headers of a request.                                   *)
Requests == [
  accept |-> Opt((Ch(",") | R("media_range") & Opt(R("accept_params")))
      & Star(OWS & Ch(",") & Opt(OWS & R("media_range")
      & Opt(R("accept_params"))))),
  Accept_Charset |-> Star(Ch(",") & OWS) & (R("charset") | Ch("*"))
      & Opt(R("weight")) & Star(OWS & Ch(",") & Opt(OWS & (R("charset")
      | Ch("*")) & Opt(R("weight")))),
  Accept_Encoding |-> Opt((Ch(",") | R("codings") & Opt(R("weight")))
      & Star(OWS & Ch(",") & Opt(OWS & R("codings") & Opt(R("weight"))))),
  Accept_Language |-> Star(Ch(",") & OWS) & language_range & Opt(R("weight"))
      & Star(OWS & Ch(",") & Opt(OWS & language_range & Opt(R("weight")))),
  Allow |-> Opt((Ch(",") | R("method")) & Star(OWS & Ch(",") & Opt(OWS
      & R("method")))),
  Content_Encoding |-> Star(Ch(",") & OWS) & R("content_coding") & Star(OWS
      & Ch(",") & Opt(OWS & R("content_coding"))),
  Content_Language |-> Star(Ch(",") & OWS) & language_tag & Star(OWS & Ch(",")
      & Opt(OWS & language_tag)),
  Content_Location |-> absolute_URI | partial_URI ]

(* The values of the other headers.                                          *)
Responses == [
  Content_Type |-> R("media_type"),
  Date |-> R("HTTP_date"),
  Expect |-> Lit("100-continue"),
  From |-> mailbox,
  Location |-> URI_reference,
  Max_Forwards |-> Plus(DIGIT),
  Referer |-> absolute_URI | partial_URI,
  Retry_After |-> R("HTTP_date") | R("delay_seconds"),
  Server |-> R("product") & Star(RWS & (R("product") | comment)),
  User_Agent |-> R("product") & Star(RWS & (R("product") | comment)),
  Vary |-> Ch("*") | Star(Ch(",") & OWS) & field_name & Star(OWS & Ch(",")
      & Opt(OWS & field_name)) ]

Rules == Dates @@ MediaTypes @@ Requests @@ Responses
===============================================================================
