------------------------------- MODULE RFC5646 --------------------------------
(*****************************************************************************)
(* RFC5646.hpp: a language tag; RFC4647.hpp: a language range.               *)
(*****************************************************************************)
EXTENDS Grammar

Core == INSTANCE RFC5234

R(rule) == Ref("RFC5646", rule)

ALPHA == Core!ALPHA
DIGIT == Core!DIGIT
alphanum == ALPHA | DIGIT
not_ALPHA == Not(<<ALPHA>>)
not_alphanum == Not(<<alphanum>>)
not_DIGIT == Not(<<DIGIT>>)
alpha_2_to_3 == ALPHA & ALPHA & Opt(ALPHA)
alpha_3 == Times(3, ALPHA)
alpha_4 == Times(4, ALPHA)
alpha_5_to_8 == Times(5, ALPHA) & AtMost(3, ALPHA)
digit_3 == Times(3, DIGIT)
alpha_2 == ALPHA & ALPHA
alphanum_1_to_8 == alphanum & AtMost(7, alphanum)
alphanum_2_to_8 == alphanum & alphanum & AtMost(6, alphanum)
alphanum_3 == Times(3, alphanum)
alphanum_5_to_8 == Times(5, alphanum) & AtMost(3, alphanum)
hyphen_alpha3_subtag == Ch("-") & alpha_3 & not_ALPHA
up_to_2_hyphen_alpha3 == AtMost(2, hyphen_alpha3_subtag)

(* 2.1: the tag and its subtags.                                             *)
Rules5646 == [
  singleton |-> DIGIT | Chars(65, 87) | Chars(89, 90) | Chars(97, 119)
      | Chars(121, 122),
  extlang |-> alpha_3 & not_ALPHA & up_to_2_hyphen_alpha3,
  language |-> alpha_5_to_8 & not_ALPHA | alpha_4 & not_ALPHA | alpha_2_to_3
      & not_ALPHA & Opt(Ch("-") & R("extlang")),
  script |-> alpha_4 & not_ALPHA,
  region |-> alpha_2 & not_ALPHA | digit_3 & not_DIGIT,
  variant |-> alphanum_5_to_8 & not_alphanum | DIGIT & alphanum_3
      & not_alphanum,
  extension |-> R("singleton") & Plus(Ch("-") & alphanum_2_to_8
      & not_alphanum),
  privateuse |-> Ch("x") & Plus(Ch("-") & alphanum_1_to_8 & not_alphanum),
  irregular |-> Lit("en-GB-oed") | Lit("i-default") | Lit("i-enochian")
      | Lit("i-klingon") | Lit("i-navajo") | Lit("i-ami") | Lit("i-bnn")
      | Lit("i-hak") | Lit("i-lux") | Lit("i-mingo") | Lit("i-pwn")
      | Lit("i-tao") | Lit("i-tay") | Lit("i-tsu") | Lit("sgn-BE-FR")
      | Lit("sgn-BE-NL") | Lit("sgn-CH-DE"),
  regular |-> Lit("art-lojban") | Lit("cel-gaulish") | Lit("no-bok")
      | Lit("no-nyn") | Lit("zh-guoyu") | Lit("zh-hakka") | Lit("zh-min-nan")
      | Lit("zh-xiang") | Lit("zh-min"),
  grandfathered |-> R("irregular") | R("regular"),
  langtag |-> R("language") & Opt(Ch("-") & R("script")) & Opt(Ch("-")
      & R("region")) & Star(Ch("-") & R("variant")) & Star(Ch("-")
      & R("extension")) & Opt(Ch("-") & R("privateuse")),
  Language_Tag |-> R("grandfathered") | R("privateuse") | R("langtag") ]

(* RFC4647.hpp: the basic language range of section 2.1.                     *)
alpha_1_to_8 == ALPHA & AtMost(7, ALPHA)

Rules4647 == [
  language_range |-> alpha_1_to_8 & Star(Ch("-") & alpha_1_to_8) | Ch("*") ]

Rules == Rules5646
===============================================================================
