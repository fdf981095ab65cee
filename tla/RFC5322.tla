------------------------------- MODULE RFC5322 --------------------------------
(*****************************************************************************)
(* RFC5322.hpp: the Internet message format.                                 *)
(*****************************************************************************)
EXTENDS Grammar

Core == INSTANCE RFC5234

R(rule) == Ref("RFC5322", rule)

CR == Core!CR
LF == Core!LF
CRLF == Ref("RFC5234", "CRLF")
SP == Core!SP
WSP == Core!WSP
DIGIT == Core!DIGIT
ALPHA == Core!ALPHA
VCHAR == Core!VCHAR
DQUOTE == Core!DQUOTE
obs_NO_WS_CTL == Chars(1, 8) | Ch("VT") | Ch("\f") | Chars(14, 31) | Ch("DEL")
obs_ctext == obs_NO_WS_CTL
obs_qtext == obs_NO_WS_CTL
obs_utext == Ch("NUL") | obs_NO_WS_CTL | VCHAR
text == Chars(1, 9) | Ch("VT") | Ch("\f") | Chars(14, 127)
ctext == Chars(33, 39) | Chars(42, 91) | Chars(93, 126) | obs_ctext
qtext == Ch("!") | Chars(35, 91) | Chars(93, 126) | obs_qtext
dtext == Chars(33, 90) | Chars(94, 126) | R("obs_dtext")
ftext == Chars(33, 57) | Chars(59, 126)
atext == ALPHA | DIGIT | Ch("!") | Ch("#") | Ch("$") | Ch("%") | Ch("&")
         | Ch("'") | Ch("*") | Ch("+") | Ch("-") | Ch("/") | Ch("=") | Ch("?")
         | Ch("^") | Ch("_") | Ch("grave") | Ch("{") | Ch("}") | Ch("|")
         | Ch("~")
fields_resent == Plus(R("resent_date") | R("resent_from") | R("resent_sender")
                 | R("resent_to") | R("resent_cc") | R("resent_bcc")
                 | R("resent_msg_id"))
fields_block == R("trace") & Star(R("optional_field")) | fields_resent
fields_named == R("orig_date") | R("from") | R("sender") | R("reply_to")
                | R("to") | R("cc") | R("bcc") | R("message_id")
                | R("in_reply_to") | R("references") | R("subject")
                | R("comments") | R("keywords") | R("optional_field")
obs_body_inner == Star(LF) & Star(CR) & Star((Ch("NUL") | text) & Star(LF)
    & Star(CR))
obs_unstruct_inner == Star(LF) & Star(CR) & Star(obs_utext & Star(LF)
    & Star(CR))
obs_fields_alt == R("obs_return") | R("obs_received") | R("obs_orig_date")
    | R("obs_from") | R("obs_sender") | R("obs_reply_to") | R("obs_to")
    | R("obs_cc") | R("obs_bcc") | R("obs_message_id") | R("obs_in_reply_to")
    | R("obs_references") | R("obs_subject") | R("obs_comments")
    | R("obs_keywords") | R("obs_resent_date") | R("obs_resent_from")
    | R("obs_resent_send") | R("obs_resent_rply") | R("obs_resent_to")
    | R("obs_resent_cc") | R("obs_resent_bcc") | R("obs_resent_mid")
    | R("obs_optional")
message_field == fields_block | fields_named | obs_fields_alt

(* 3.2: quoted characters, folding white space, comments, atoms.             *)
Lexical == [
  quoted_pair |-> Ch("\\") & (VCHAR | WSP) | R("obs_qp"),
  FWS |-> Opt(Star(WSP) & CRLF) & Plus(WSP) | R("obs_FWS"),
  ccontent |-> ctext | R("quoted_pair") | R("comment"),
  comment |-> Ch("(") & Star(Opt(R("FWS")) & R("ccontent")) & Opt(R("FWS"))
      & Ch(")"),
  CFWS |-> Plus(Opt(R("FWS")) & R("comment")) & Opt(R("FWS")) | R("FWS"),
  atom |-> Opt(R("CFWS")) & Plus(atext) & Opt(R("CFWS")),
  dot_atom_text |-> Plus(atext) & Star(Ch(".") & Plus(atext)),
  dot_atom |-> Opt(R("CFWS")) & R("dot_atom_text") & Opt(R("CFWS")),
  qcontent |-> qtext | R("quoted_pair"),
  quoted_string |-> Opt(R("CFWS")) & DQUOTE & Star(Opt(R("FWS"))
      & R("qcontent")) & Opt(R("FWS")) & DQUOTE & Opt(R("CFWS")),
  word |-> R("atom") | R("quoted_string"),
  phrase |-> Plus(R("word")) | R("obs_phrase"),
  unstructured |-> Star(Opt(R("FWS")) & VCHAR) & Star(WSP) | R("obs_unstruct") ]

(* 3.3: date and time.                                                       *)
DateTime == [
  date_time |-> Opt(R("day_of_week") & Ch(",")) & R("date") & R("time")
      & Opt(R("CFWS")),
  day_of_week |-> Opt(R("FWS")) & R("day_name") | R("obs_day_of_week"),
  day_name |-> Lit("Mon") | Lit("Tue") | Lit("Wed")
      | Lit("Thu") | Lit("Fri") | Lit("Sat") | Lit("Sun"),
  date |-> R("day") & R("month") & R("year"),
  day |-> Opt(R("FWS")) & (DIGIT & DIGIT | DIGIT) & R("FWS") | R("obs_day"),
  month |-> Lit("Jan") | Lit("Feb") | Lit("Mar") | Lit("Apr")
      | Lit("May") | Lit("Jun") | Lit("Jul") | Lit("Aug")
      | Lit("Sep") | Lit("Oct") | Lit("Nov") | Lit("Dec"),
  year |-> R("FWS") & (Times(4, DIGIT) & Star(DIGIT)) & R("FWS")
      | R("obs_year"),
  time |-> R("time_of_day") & R("zone"),
  time_of_day |-> R("hour") & Ch(":") & R("minute") & Opt(Ch(":")
      & R("second")),
  hour |-> DIGIT & DIGIT | R("obs_hour"),
  minute |-> DIGIT & DIGIT | R("obs_minute"),
  second |-> DIGIT & DIGIT | R("obs_second"),
  zone |-> R("FWS") & (Ch("+") | Ch("-")) & Times(4, DIGIT) | R("FWS")
      & R("obs_zone") | R("obs_zone") ]

(* 3.4 and 3.5: addresses, and the message as a whole.                       *)
Addresses == [
  address |-> R("mailbox") | R("group"),
  mailbox |-> R("name_addr") | R("addr_spec"),
  name_addr |-> Opt(R("display_name")) & R("angle_addr"),
  angle_addr |-> Opt(R("CFWS")) & Ch("<") & R("addr_spec") & Ch(">")
      & Opt(R("CFWS")) | R("obs_angle_addr"),
  group |-> R("display_name") & Ch(":") & Opt(R("group_list")) & Ch(";")
      & Opt(R("CFWS")),
  display_name |-> R("phrase"),
  mailbox_list |-> R("mailbox") & Star(Ch(",") & R("mailbox"))
      | R("obs_mbox_list"),
  address_list |-> R("address") & Star(Ch(",") & R("address"))
      | R("obs_addr_list"),
  group_list |-> R("mailbox_list") | R("CFWS") | R("obs_group_list"),
  addr_spec |-> R("local_part") & Ch("@") & R("domain"),
  local_part |-> R("dot_atom") | R("quoted_string") | R("obs_local_part"),
  domain |-> R("dot_atom") | R("domain_literal") | R("obs_domain"),
  domain_literal |-> Opt(R("CFWS")) & Ch("[") & Star(Opt(R("FWS")) & dtext)
      & Opt(R("FWS")) & Ch("]") & Opt(R("CFWS")),
  body |-> Star(Star(text) & CRLF) & Star(text) | R("obs_body") ]

(* 3.6.1 to 3.6.5: the fields of a message.                                  *)
Fields == [
  fields |-> Star(fields_block) & Star(fields_named),
  orig_date |-> Lit("Date:") & R("date_time") & CRLF,
  from |-> Lit("From:") & R("mailbox_list") & CRLF,
  sender |-> Lit("Sender:") & R("mailbox") & CRLF,
  reply_to |-> Lit("Reply-To:") & R("address_list") & CRLF,
  to |-> Lit("To:") & R("address_list") & CRLF,
  cc |-> Lit("Cc:") & R("address_list") & CRLF,
  bcc |-> Lit("Bcc:") & Opt(R("address_list") | R("CFWS")) & CRLF,
  message_id |-> Lit("Message-ID:") & R("msg_id") & CRLF,
  in_reply_to |-> Lit("In-Reply-To:") & Plus(R("msg_id")) & CRLF,
  references |-> Lit("References:") & Plus(R("msg_id")) & CRLF,
  msg_id |-> Opt(R("CFWS")) & Ch("<") & R("id_left") & Ch("@") & R("id_right")
      & Ch(">") & Opt(R("CFWS")),
  id_left |-> R("dot_atom_text") | R("obs_id_left"),
  id_right |-> R("dot_atom_text") | R("no_fold_literal") | R("obs_id_right"),
  no_fold_literal |-> Ch("[") & Star(dtext) & Ch("]"),
  subject |-> Lit("Subject:") & R("unstructured") & CRLF,
  comments |-> Lit("Comments:") & R("unstructured") & CRLF,
  keywords |-> Lit("Keywords:") & R("phrase") & Star(Ch(",")
      & R("phrase")) & CRLF ]

(* 3.6.6 to 3.6.8: resent, trace and optional fields.                        *)
TraceFields == [
  resent_date |-> Lit("Resent-Date:") & R("date_time") & CRLF,
  resent_from |-> Lit("Resent-From:") & R("mailbox_list") & CRLF,
  resent_sender |-> Lit("Resent-Sender:") & R("mailbox") & CRLF,
  resent_to |-> Lit("Resent-To:") & R("address_list") & CRLF,
  resent_cc |-> Lit("Resent-Cc:") & R("address_list") & CRLF,
  resent_bcc |-> Lit("Resent-Bcc:") & Opt(R("address_list")
      | R("CFWS")) & CRLF,
  resent_msg_id |-> Lit("Resent-Message-ID:") & R("msg_id") & CRLF,
  trace |-> Opt(R("Return")) & Plus(R("received")),
  Return |-> Lit("Return-Path:") & R("path") & CRLF,
  path |-> R("angle_addr") | Opt(R("CFWS")) & Ch("<") & Opt(R("CFWS"))
      & Ch(">") & Opt(R("CFWS")),
  received |-> Lit("Received:") & Star(R("received_token")) & Ch(";")
      & R("date_time") & CRLF,
  received_token |-> R("word") | R("angle_addr") | R("addr_spec")
      | R("domain"),
  optional_field |-> R("field_name") & Ch(":") & R("unstructured") & CRLF,
  field_name |-> Plus(ftext) ]

(* 4.1 to 4.3: obsolete tokens, white space and dates.                       *)
ObsoleteLexical == [
  obs_qp |-> Ch("\\") & (Ch("NUL") | obs_NO_WS_CTL | LF | CR),
  obs_body |-> Star(obs_body_inner | CRLF),
  obs_unstruct |-> Star(obs_unstruct_inner | R("FWS")),
  obs_phrase |-> R("word") & Star(R("word") | Ch(".") | R("CFWS")),
  obs_phrase_list |-> Opt(R("phrase") | R("CFWS")) & Star(Ch(",")
      & Opt(R("phrase") | R("CFWS"))),
  obs_FWS |-> Plus(WSP) & Star(CRLF & Plus(WSP)),
  obs_day_of_week |-> Opt(R("CFWS")) & R("day_name") & Opt(R("CFWS")),
  obs_day |-> Opt(R("CFWS")) & (DIGIT & DIGIT | DIGIT) & Opt(R("CFWS")),
  obs_year |-> Opt(R("CFWS")) & (DIGIT & DIGIT & Star(DIGIT))
      & Opt(R("CFWS")),
  obs_hour |-> Opt(R("CFWS")) & (DIGIT & DIGIT) & Opt(R("CFWS")),
  obs_minute |-> Opt(R("CFWS")) & (DIGIT & DIGIT) & Opt(R("CFWS")),
  obs_second |-> Opt(R("CFWS")) & (DIGIT & DIGIT) & Opt(R("CFWS")),
  obs_zone |-> Lit("UT") | Lit("GMT") | Lit("EST")
      | Lit("EDT") | Lit("CST") | Lit("CDT") | Lit("MST")
      | Lit("MDT") | Lit("PST") | Lit("PDT") | Chars(65, 73)
      | Chars(75, 90) | Chars(97, 105) | Chars(107, 122) ]

(* 4.4: obsolete addresses.                                                  *)
ObsoleteAddresses == [
  obs_angle_addr |-> Opt(R("CFWS")) & Ch("<") & R("obs_route")
      & R("addr_spec") & Ch(">") & Opt(R("CFWS")),
  obs_route |-> R("obs_domain_list") & Ch(":"),
  obs_domain_list |-> Star(R("CFWS") | Ch(",")) & Ch("@") & R("domain")
      & Star(Ch(",") & Opt(R("CFWS")) & Opt(Ch("@") & R("domain"))),
  obs_mbox_list |-> Star(Opt(R("CFWS")) & Ch(",")) & R("mailbox")
      & Star(Ch(",") & Opt(R("mailbox") | R("CFWS"))),
  obs_addr_list |-> Star(Opt(R("CFWS")) & Ch(",")) & R("address")
      & Star(Ch(",") & Opt(R("address") | R("CFWS"))),
  obs_group_list |-> Plus(Opt(R("CFWS")) & Ch(",")) & Opt(R("CFWS")),
  obs_local_part |-> R("word") & Star(Ch(".") & R("word")),
  obs_domain |-> R("atom") & Star(Ch(".") & R("atom")),
  obs_dtext |-> obs_NO_WS_CTL | R("quoted_pair"),
  obs_fields |-> Star(obs_fields_alt),
  message |-> Star(message_field) & Opt(CRLF & R("body")) ]

(* 4.5.1 to 4.5.5: obsolete fields.                                          *)
ObsoleteFields == [
  obs_orig_date |-> Lit("Date") & Star(WSP) & Ch(":") & R("date_time")
      & CRLF,
  obs_from |-> Lit("From") & Star(WSP) & Ch(":") & R("mailbox_list")
      & CRLF,
  obs_sender |-> Lit("Sender") & Star(WSP) & Ch(":") & R("mailbox")
      & CRLF,
  obs_reply_to |-> Lit("Reply-To") & Star(WSP) & Ch(":")
      & R("address_list") & CRLF,
  obs_to |-> Lit("To") & Star(WSP) & Ch(":") & R("address_list") & CRLF,
  obs_cc |-> Lit("Cc") & Star(WSP) & Ch(":") & R("address_list") & CRLF,
  obs_bcc |-> Lit("Bcc") & Star(WSP) & Ch(":") & (R("address_list")
      | Star(Opt(R("CFWS")) & Ch(",")) & Opt(R("CFWS"))) & CRLF,
  obs_message_id |-> Lit("Message-ID") & Star(WSP) & Ch(":") & R("msg_id")
      & CRLF,
  obs_in_reply_to |-> Lit("In-Reply-To") & Star(WSP) & Ch(":")
      & Star(R("phrase") | R("msg_id")) & CRLF,
  obs_references |-> Lit("References") & Star(WSP) & Ch(":")
      & Star(R("phrase") | R("msg_id")) & CRLF,
  obs_id_left |-> R("local_part"),
  obs_id_right |-> R("domain"),
  obs_subject |-> Lit("Subject") & Star(WSP) & Ch(":") & R("unstructured")
      & CRLF,
  obs_comments |-> Lit("Comments") & Star(WSP) & Ch(":")
      & R("unstructured") & CRLF,
  obs_keywords |-> Lit("Keywords") & Star(WSP) & Ch(":")
      & R("obs_phrase_list") & CRLF ]

(* 4.5.6 to 4.5.8: obsolete resent, trace and optional fields.               *)
ObsoleteTraceFields == [
  obs_resent_from |-> Lit("Resent-From") & Star(WSP) & Ch(":")
      & R("mailbox_list") & CRLF,
  obs_resent_send |-> Lit("Resent-Sender") & Star(WSP) & Ch(":")
      & R("mailbox") & CRLF,
  obs_resent_date |-> Lit("Resent-Date") & Star(WSP) & Ch(":")
      & R("date_time") & CRLF,
  obs_resent_to |-> Lit("Resent-To") & Star(WSP) & Ch(":")
      & R("address_list") & CRLF,
  obs_resent_cc |-> Lit("Resent-Cc") & Star(WSP) & Ch(":")
      & R("address_list") & CRLF,
  obs_resent_bcc |-> Lit("Resent-Bcc") & Star(WSP) & Ch(":")
      & (R("address_list") | Star(Opt(R("CFWS")) & Ch(",")) & Opt(R("CFWS")))
      & CRLF,
  obs_resent_mid |-> Lit("Resent-Message-ID") & Star(WSP) & Ch(":")
      & R("msg_id") & CRLF,
  obs_resent_rply |-> Lit("Resent-Reply-To") & Star(WSP) & Ch(":")
      & R("address_list") & CRLF,
  obs_return |-> Lit("Return-Path") & Star(WSP) & Ch(":") & R("path")
      & CRLF,
  obs_received |-> Lit("Received") & Star(WSP) & Ch(":")
      & Star(R("received_token")) & CRLF,
  obs_optional |-> R("field_name") & Star(WSP) & Ch(":") & R("unstructured")
      & CRLF ]

Rules == Lexical @@ DateTime @@ Addresses @@ Fields @@ TraceFields @@
            ObsoleteLexical @@ ObsoleteAddresses @@ ObsoleteFields @@
            ObsoleteTraceFields
===============================================================================
