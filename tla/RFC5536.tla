------------------------------- MODULE RFC5536 --------------------------------
(*****************************************************************************)
(* RFC5536.hpp: the format of a Netnews article.                             *)
(*****************************************************************************)
EXTENDS Grammar

Mail == INSTANCE RFC5322

R(rule) == Ref("RFC5536", rule)

CRLF == Ref("RFC5234", "CRLF")
SP == Mail!SP
WSP == Mail!WSP
FWS == Ref("RFC5322", "FWS")
CFWS == Ref("RFC5322", "CFWS")
DIGIT == Mail!DIGIT
ALPHA == Mail!ALPHA
VCHAR == Mail!VCHAR
quoted_string == Ref("RFC5322", "quoted_string")
dot_atom_text == Ref("RFC5322", "dot_atom_text")
phrase == Ref("RFC5322", "phrase")
date_time == Ref("RFC5322", "date_time")
mailbox == Ref("RFC5322", "mailbox")
mailbox_list == Ref("RFC5322", "mailbox_list")
address_list == Ref("RFC5322", "address_list")
body == Ref("RFC5322", "body")
IPv4address == Ref("RFC3986", "IPv4address")
IPv6address == Ref("RFC3986", "IPv6address")
tchar == ALPHA | DIGIT | Ch("!") | Ch("#") | Ch("$") | Ch("%") | Ch("&")
         | Ch("'") | Ch("*") | Ch("+") | Ch("-") | Ch(".") | Ch("^") | Ch("_")
         | Ch("grave") | Ch("{") | Ch("}") | Ch("|") | Ch("~")
mdtext == Chars(33, 61) | Chars(63, 90) | Chars(94, 126)
component_char == ALPHA | DIGIT | Ch("+") | Ch("-") | Ch("_")
alphanum == ALPHA | DIGIT
path_list_item == R("path_identity") & Opt(FWS) & (R("diag_other") & Ch("!")
    | R("diag_deprecated") & Ch("!") | Ch("!") & Ch("!") | Ch("!"))
fields_alt == R("approved") | R("archive") | R("control") | R("distribution")
              | R("expires") | R("followup_to") | R("injection_date")
              | R("injection_info") | R("lines") | R("newsgroups")
              | R("organization") | R("path") | R("summary") | R("supersedes")
              | R("user_agent") | R("xref")
article_header_alt == R("orig_date") | R("from") | R("message_id")
    | R("newsgroups") | R("path") | R("subject") | fields_alt | R("comments")
    | R("keywords") | R("reply_to") | R("sender") | Ref("RFC5322",
    "optional_field")

(* 2.2, 3.1: tokens and parameters, Message-ID, Date, From, Newsgroups.      *)
Mandatory == [
  unstructured |-> Star(WSP) & VCHAR & Star(Opt(FWS) & VCHAR) & Star(WSP),
  token |-> Plus(tchar),
  attribute |-> R("token"),
  value |-> R("token") | quoted_string,
  parameter |-> R("attribute") & Opt(CFWS) & Ch("=") & Opt(CFWS) & R("value"),
  no_fold_literal |-> Ch("[") & Star(mdtext) & Ch("]"),
  id_left |-> dot_atom_text,
  id_right |-> dot_atom_text | R("no_fold_literal"),
  msg_id_core |-> R("id_left") & Ch("@") & R("id_right"),
  msg_id |-> Ch("<") & R("msg_id_core") & Ch(">"),
  message_id |-> Lit("Message-ID:") & SP & Star(WSP) & R("msg_id")
      & Star(WSP) & CRLF,
  orig_date |-> Lit("Date:") & SP & date_time & CRLF,
  from |-> Lit("From:") & SP & mailbox_list & CRLF,
  component |-> Plus(component_char),
  newsgroup_name |-> R("component") & Star(Ch(".") & R("component")),
  newsgroup_list |-> Star(WSP) & R("newsgroup_name") & Star(Opt(FWS) & Ch(",")
      & Opt(FWS) & R("newsgroup_name")) & Star(WSP),
  newsgroups |-> Lit("Newsgroups:") & SP & R("newsgroup_list") & CRLF ]

(* 3.1.5 and 3.1.6: Path and Subject.                                        *)
Paths == [
  path_nodot |-> Plus(alphanum | Ch("-") | Ch("_")),
  label |-> alphanum & Star(alphanum | Ch("-")),
  toplabel |-> ALPHA & Star(alphanum | Ch("-")),
  path_identity |-> Plus(R("label") & Ch(".")) & R("toplabel")
      | R("path_nodot"),
  diag_keyword |-> Plus(ALPHA),
  diag_identity |-> R("path_identity") | IPv4address | IPv6address,
  diag_match |-> Ch("!"),
  diag_other |-> Ch("!") & Ch(".") & R("diag_keyword") & Opt(Ch(".")
      & R("diag_identity")) & Opt(FWS),
  diag_deprecated |-> Ch("!") & IPv4address & Opt(FWS),
  path_diagnostic |-> R("diag_other") | R("diag_deprecated")
      | R("diag_match"),
  path_list |-> Star(path_list_item),
  tail_entry |-> R("path_nodot"),
  path |-> Lit("Path:") & SP & Star(WSP) & R("path_list")
      & R("tail_entry") & Star(WSP) & CRLF,
  subject |-> Lit("Subject:") & SP & R("unstructured") & CRLF ]

(* 3.2.1 to 3.2.8: Approved to Injection-Info.                               *)
Optional == [
  approved |-> Lit("Approved:") & SP & mailbox_list & CRLF,
  archive_param |-> R("parameter"),
  archive |-> Lit("Archive:") & SP & Opt(CFWS) & (Lit("no")
      | Lit("yes")) & Star(Opt(CFWS) & Ch(";") & Opt(CFWS)
      & R("archive_param")) & Opt(CFWS) & CRLF,
  verb |-> R("token"),
  argument |-> Plus(VCHAR),
  control_command |-> R("verb") & Star(Plus(WSP) & R("argument")),
  control |-> Lit("Control:") & SP & Star(WSP) & R("control_command")
      & Star(WSP) & CRLF,
  dist_name |-> (ALPHA | DIGIT) & Star(component_char),
  dist_list |-> Star(WSP) & R("dist_name") & Star(Opt(FWS) & Ch(",")
      & Opt(FWS) & R("dist_name")) & Star(WSP),
  distribution |-> Lit("Distribution:") & SP & R("dist_list") & CRLF,
  expires |-> Lit("Expires:") & SP & date_time & CRLF,
  poster_text |-> Star(WSP) & Lit("poster") & Star(WSP),
  followup_to |-> Lit("Followup-To:") & SP & (R("newsgroup_list")
      | R("poster_text")) & CRLF,
  injection_date |-> Lit("Injection-Date:") & SP & date_time & CRLF,
  injection_info |-> Lit("Injection-Info:") & SP & Opt(CFWS)
      & R("path_identity") & Opt(CFWS) & Star(Ch(";") & Opt(CFWS)
      & R("parameter")) & Opt(CFWS) & CRLF ]

(* 3.2.9 to 3.3.1: Organization to Xref, and the obsolete Lines.             *)
OptionalRest == [
  organization |-> Lit("Organization:") & SP & R("unstructured")
      & CRLF,
  references |-> Lit("References:") & SP & Opt(CFWS) & R("msg_id")
      & Star(CFWS & R("msg_id")) & Opt(CFWS) & CRLF,
  summary |-> Lit("Summary:") & SP & R("unstructured") & CRLF,
  supersedes |-> Lit("Supersedes:") & SP & Star(WSP) & R("msg_id")
      & Star(WSP) & CRLF,
  product_version |-> Opt(CFWS) & R("token"),
  product |-> Opt(CFWS) & R("token") & Opt(Opt(CFWS) & Ch("/")
      & R("product_version")),
  user_agent |-> Lit("User-Agent:") & SP & Plus(R("product"))
      & Opt(CFWS) & CRLF,
  server_name |-> R("path_identity"),
  article_locator |-> Plus(Chars(33, 39) | Chars(41, 58) | Chars(60, 126)),
  location |-> R("newsgroup_name") & Ch(":") & R("article_locator"),
  xref |-> Lit("Xref:") & SP & Star(WSP) & R("server_name") & Plus(FWS
      & R("location")) & Star(WSP) & CRLF,
  lines |-> Lit("Lines:") & SP & Star(WSP) & Plus(DIGIT) & Star(WSP)
      & CRLF ]

(* The headers taken from RFC 5322, and the article as a whole.              *)
Article == [
  comments |-> Lit("Comments:") & SP & R("unstructured") & CRLF,
  keywords |-> Lit("Keywords:") & SP & phrase & Star(Ch(",") & phrase)
      & CRLF,
  reply_to |-> Lit("Reply-To:") & SP & address_list & CRLF,
  sender |-> Lit("Sender:") & SP & mailbox & CRLF,
  fields |-> Star(fields_alt),
  article_header |-> article_header_alt,
  article |-> Plus(R("article_header")) & Opt(CRLF & body) ]

Rules == Mandatory @@ Paths @@ Optional @@ OptionalRest @@ Article
===============================================================================
