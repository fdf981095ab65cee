------------------------------- MODULE RFC7230 --------------------------------
(*****************************************************************************)
(* RFC7230.hpp: HTTP/1.1 message syntax and routing.                         *)
(*****************************************************************************)
EXTENDS Grammar

Core == INSTANCE RFC5234

R(rule) == Ref("RFC7230", rule)

CRLF == Ref("RFC5234", "CRLF")
SP == Core!SP
HTAB == Core!HTAB
DIGIT == Core!DIGIT
ALPHA == Core!ALPHA
VCHAR == Core!VCHAR
HEXDIG == Core!HEXDIG
DQUOTE == Core!DQUOTE
absolute_URI == Ref("RFC3986", "absolute_URI")
authority == Ref("RFC3986", "authority")
fragment == Ref("RFC3986", "fragment")
path_abempty == Ref("RFC3986", "path_abempty")
port == Ref("RFC3986", "port")
query == Ref("RFC3986", "query")
relative_part == Ref("RFC3986", "relative_part")
segment == Ref("RFC3986", "segment")
uri_host == Ref("RFC3986", "host")
any_octet == Chars(0, 127) | Chars(128, 255)
AlphaNumeric == ALPHA | DIGIT
OWS == Star(SP | HTAB)
RWS == Plus(SP | HTAB)
BWS == OWS
up_to_3DIGIT == AtMost(3, DIGIT)
up_to_3zero == AtMost(3, Ch("0"))

(* 3.2.6, 2.6 and 2.7: components of a field, protocol version, URIs.        *)
Components == [
  tchar |-> Ch("!") | Ch("#") | Ch("$") | Ch("%") | Ch("&") | Ch("'")
      | Ch("*") | Ch("+") | Ch("-") | Ch(".") | Ch("^") | Ch("_")
      | Ch("grave") | Ch("|") | Ch("~") | AlphaNumeric,
  token |-> Plus(R("tchar")),
  obs_text |-> Chars(128, 255),
  qdtext |-> HTAB | SP | Ch("!") | Chars(35, 91) | Chars(93, 126)
      | R("obs_text"),
  quoted_pair |-> Ch("\\") & (HTAB | SP | VCHAR | R("obs_text")),
  quoted_string |-> DQUOTE & Star(R("qdtext") | R("quoted_pair")) & DQUOTE,
  ctext |-> HTAB | SP | Chars(33, 39) | Chars(42, 91) | Chars(93, 126)
      | R("obs_text"),
  comment |-> Ch("(") & Star(R("ctext") | R("quoted_pair") | R("comment"))
      & Ch(")"),
  HTTP_version |-> Lit("HTTP") & Ch("/") & DIGIT & Ch(".") & DIGIT,
  absolute_path |-> Plus(Ch("/") & segment),
  partial_URI |-> relative_part & Opt(Ch("?") & query),
  http_URI |-> Lit("http://") & authority & path_abempty
      & Opt(Ch("?") & query) & Opt(Ch("#") & fragment),
  https_URI |-> Lit("https://") & authority & path_abempty
      & Opt(Ch("?") & query) & Opt(Ch("#") & fragment) ]

(* 3.1 to 3.3: the start line, header fields and the body.                   *)
StartLine == [
  method |-> R("token"),
  origin_form |-> R("absolute_path") & Opt(Ch("?") & query),
  absolute_form |-> absolute_URI,
  authority_form |-> authority,
  asterisk_form |-> Ch("*"),
  request_target |-> R("origin_form") | R("absolute_form")
      | R("authority_form") | R("asterisk_form"),
  request_line |-> R("method") & SP & R("request_target") & SP
      & R("HTTP_version") & CRLF,
  status_code |-> Times(3, DIGIT),
  reason_phrase |-> Star(HTAB | SP | VCHAR | R("obs_text")),
  status_line |-> R("HTTP_version") & SP & R("status_code") & SP
      & R("reason_phrase") & CRLF,
  start_line |-> R("request_line") | R("status_line"),
  field_name |-> R("token"),
  field_vchar |-> VCHAR | R("obs_text"),
  field_content |-> R("field_vchar") & Opt(Plus(SP | HTAB)
      & R("field_vchar")),
  obs_fold |-> CRLF & Plus(SP | HTAB),
  field_value |-> Star(R("field_content") | R("obs_fold")),
  header_field |-> R("field_name") & Ch(":") & OWS & R("field_value") & OWS,
  message_body |-> Star(any_octet),
  HTTP_message |-> R("start_line") & Star(R("header_field") & CRLF) & CRLF
      & Opt(R("message_body")) ]

(* 4: transfer codings, and the chunked one.                                 *)
TransferCodings == [
  transfer_parameter |-> R("token") & BWS & Ch("=") & BWS & (R("token")
      | R("quoted_string")),
  transfer_extension |-> R("token") & Star(OWS & Ch(";") & OWS
      & R("transfer_parameter")),
  transfer_coding |-> Lit("chunked") | Lit("compress")
      | Lit("deflate") | Lit("gzip") | R("transfer_extension"),
  rank |-> Ch("0") & Opt(Ch(".") & up_to_3DIGIT) | Ch("1") & Opt(Ch(".")
      & up_to_3zero),
  t_ranking |-> OWS & Ch(";") & OWS & Ch("q") & Ch("=") & R("rank"),
  t_codings |-> Lit("trailers") | R("transfer_coding")
      & Opt(R("t_ranking")),
  chunk_size |-> Plus(HEXDIG),
  chunk_ext_name |-> R("token"),
  chunk_ext_val |-> R("token") | R("quoted_string"),
  chunk_ext |-> Star(Ch(";") & R("chunk_ext_name") & Opt(Ch("=")
      & R("chunk_ext_val"))),
  chunk_data |-> Plus(any_octet),
  chunk |-> R("chunk_size") & Opt(R("chunk_ext")) & CRLF & R("chunk_data")
      & CRLF,
  last_chunk |-> Plus(Ch("0")) & Opt(R("chunk_ext")) & CRLF,
  trailer_part |-> Star(R("header_field") & CRLF),
  chunked_body |-> Star(R("chunk")) & R("last_chunk") & R("trailer_part")
      & CRLF ]

(* 5.4, 6.1 and the appendix: values of the headers.                         *)
HeaderValues == [
  Host |-> uri_host & Opt(Ch(":") & port),
  connection_option |-> R("token"),
  Connection |-> Star(Ch(",") & OWS) & R("connection_option") & Star(OWS
      & Ch(",") & Opt(OWS & R("connection_option"))),
  Content_Length |-> Plus(DIGIT),
  TE |-> Opt((Ch(",") | R("t_codings")) & Star(OWS & Ch(",") & Opt(OWS
      & R("t_codings")))),
  Trailer |-> Star(Ch(",") & OWS) & R("field_name") & Star(OWS & Ch(",")
      & Opt(OWS & R("field_name"))),
  Transfer_Encoding |-> Star(Ch(",") & OWS) & R("transfer_coding") & Star(OWS
      & Ch(",") & Opt(OWS & R("transfer_coding"))),
  protocol_name |-> R("token"),
  protocol_version |-> R("token"),
  protocol |-> R("protocol_name") & Opt(Ch("/") & R("protocol_version")),
  Upgrade |-> Star(Ch(",") & OWS) & R("protocol") & Star(OWS & Ch(",")
      & Opt(OWS & R("protocol"))),
  pseudonym |-> R("token"),
  received_protocol |-> Opt(R("protocol_name") & Ch("/"))
      & R("protocol_version"),
  received_by |-> uri_host & Opt(Ch(":") & port) | R("pseudonym"),
  Via |-> Star(Ch(",") & OWS) & R("received_protocol") & RWS
      & R("received_by") & Opt(RWS & R("comment")) & Star(OWS & Ch(",")
      & Opt(OWS & R("received_protocol") & RWS & R("received_by") & Opt(RWS
      & R("comment")))) ]

Rules == Components @@ StartLine @@ TransferCodings @@ HeaderValues
===============================================================================
