-------------------------------- MODULE Lexer --------------------------------
(***************************************************************************)
(* jacoco-resources/prettify.js: the languages and their rules.            *)
(*                                                                         *)
(* A character of the model stands for a character or for a word that the  *)
(* rules know: "k" for a keyword, "S" for script, "Y" for style and "O"    *)
(* for onclick; "bq" is a back quote.  Texts have no backslashes, so that  *)
(* quotes are not escaped, and none of the words of the rules that are     *)
(* left out: for declarations, comments and xmp in markup.                 *)
(***************************************************************************)
EXTENDS Integers, Sequences, FiniteSets, FiniteSetsExt, SequencesExt

White == {" ", "\t", "\n"}
Quote == {"'", "\""}
Letter == {"x", "X", "k", "S", "Y", "O"}
Word == Letter \cup {"1"}
Char == White \cup Quote \cup Word
          \cup {"bq", "/", "*", "#", "<", ">", "&", "=", "@", "?"}

-----------------------------------------------------------------------------
(* Places in a text t: how far a run of characters of C goes from i on,    *)
(* and where word, a sequence, comes first from i on (0 if nowhere).       *)
From(t, i) == SubSeq(t, i, Len(t))
RunTo(t, i, C) == Max({i - 1} \cup {j \in i .. Len(t) : \A n \in i .. j : t[n] \in C})
At(t, i, word) == /\ i + Len(word) - 1 <= Len(t)
                  /\ SubSeq(t, i, i + Len(word) - 1) = word
Find(t, i, word) ==
  LET found == {j \in i .. Len(t) + 1 - Len(word) : At(t, j, word)}
  IN  IF found = {} THEN 0 ELSE Min(found)

IndexOf(t, word) == Find(t, 1, word) - 1

(* What ends at word, or at the end of the text. *)
Until(t, i, word) == LET j == Find(t, i, word)
                     IN  IF j = 0 THEN Len(t) ELSE j + Len(word) - 1

(* A string: to the same quote, or to the end of the text; only some may   *)
(* go over the end of a line.                                              *)
Quoted(t, quotes, multiLine) ==
  LET end == Until(t, 2, <<t[1]>>)
  IN  IF t[1] \in quotes /\ (multiLine \/ \A i \in 2 .. end : t[i] # "\n")
      THEN end ELSE 0

(* The same, or between three quotes, with fewer in a row inside; if they  *)
(* are not closed, to the end of the text, which is no quote then.         *)
TripleQuoted(t) ==
  LET three == <<t[1], t[1], t[1]>>
  IN  IF /\ t[1] \in Quote /\ At(t, 1, three)
         /\ Find(t, 4, three) # 0 \/ Len(t) = 3 \/ Last(t) # t[1]
      THEN Until(t, 4, three) ELSE Quoted(t, Quote, TRUE)

(* A verbatim string: to the last of an odd number of quotes, as a doubled *)
(* one is part of it.                                                      *)
Verbatim(t) ==
  LET ends == {j \in 3 .. Len(t) : \E i \in 3 .. j :
                 /\ i = 3 \/ t[i - 1] # "\""
                 /\ j = RunTo(t, i, {"\""}) /\ (j - i) % 2 = 0}
  IN  IF ~At(t, 1, <<"@", "\"">>) THEN 0
      ELSE IF ends = {} THEN Len(t) ELSE Min(ends)

Line(t) == RunTo(t, 1, Char \ {"\n"})

(* REGEX_LITERAL from i on: its end, or 0 *)
Literal(t, i) ==
  LET end == Find(t, i + 2, <<"/">>)
  IN  IF i <= Len(t) /\ t[i] = "/" /\ end # 0 /\ t[i + 1] \notin {"/", "*"}
      THEN end ELSE 0

(* REGEXP_PRECEDER_PATTERN: what comes before a regular expression, an     *)
(* operator or a keyword such as return, or nothing at the beginning of    *)
(* the text.  Where the regular expression begins, if there is one.        *)
Preceders ==
  {<<c>> : c \in {"/", "*", "#", "<", ">", "&", "=", "@", "?", "k"}}
    \cup {<<c, "=">> : c \in {"/", "*", "<", ">", "&", "="}}
    \cup {<<c, c>> : c \in {"<", ">", "&"}} \cup {<<c, c, "=">> : c \in {"<", ">", "&", "="}}
    \cup {<<">", ">", ">">>, <<">", ">", ">", "=">>}
LiteralPlace(t, start) ==
  LET before == {p \in Preceders : At(t, 1, p)} \cup (IF start THEN {<<>>} ELSE {})
      places == {i \in {RunTo(t, Len(p) + 1, White) + 1 : p \in before} : Literal(t, i) # 0}
  IN  IF places = {} THEN 0 ELSE Min(places)

(* Elements whose content is in another language: the place of the end    *)
(* tag.  The names in the tags end there.                                  *)
EndTag(t, name) ==
  LET open == Find(t, 3, <<">">>)
      ends == {j \in open + 1 .. Len(t) - 3 : /\ At(t, j, <<"<", "/", name>>)
                                             /\ t[j + 3] \notin Word}
  IN  IF At(t, 1, <<"<", name>>) /\ open # 0 /\ t[3] \notin Word /\ ends # {}
      THEN Min(ends) ELSE 0
Element(t, name) == IF EndTag(t, name) = 0 THEN 0
                    ELSE Find(t, EndTag(t, name), <<">">>)

(* An attribute: where its value begins, after = and spaces, or 0 *)
Value(t, i) == LET eq == RunTo(t, i, White) + 1
               IN  IF eq <= Len(t) /\ t[eq] = "=" THEN RunTo(t, eq + 1, White) + 1
                   ELSE 0

(* The end of the value, quoted or not, that begins at i.                  *)
ValueEnd(t, i) ==
  IF i = 0 \/ i > Len(t) THEN 0
  ELSE IF t[i] \in Quote
  THEN LET end == Find(t, i + 1, <<t[i]>>) IN IF end > i + 1 THEN end ELSE 0
  ELSE LET end == RunTo(t, i, Char \ (White \cup Quote \cup {">"}))
       IN  IF end >= i THEN end ELSE 0

(* The attribute called name with its value: 0, or where it ends. *)
Attribute(t, name) == IF t[1] = name THEN ValueEnd(t, Value(t, RunTo(t, 1, Word) + 1))
                      ELSE 0

(* A value without quotes, as uq.val: slashes at its end are no part. *)
Unquoted(t) ==
  LET i == Value(t, 1)
      end == RunTo(t, i, Char \ (White \cup Quote \cup {">"}))
      last == IF end < Len(t) /\ t[end + 1] \in White THEN end
              ELSE Max({i - 1} \cup {j \in i .. end : t[j] # "/"})
  IN  IF i = 0 \/ last < i THEN 0 ELSE last

-----------------------------------------------------------------------------
(* The length of what the pattern of a rule matches at the beginning of t, *)
(* or 0.  t is a token, or what is left of the text from its first or a    *)
(* later character on.                                                     *)
Length(rule, t, where) ==
  CASE rule = "space" -> RunTo(t, 1, White)
    [] rule = "string" -> Quoted(t, Quote, FALSE)
    [] rule = "multiLine" -> Quoted(t, Quote \cup {"bq"}, TRUE)
    [] rule = "tripleQuoted" -> TripleQuoted(t)
    [] rule = "verbatim" -> Verbatim(t)
    [] rule = "hash" -> IF t[1] = "#" THEN Line(t) ELSE 0
    [] rule = "include" -> LET end == RunTo(t, 2, Word) + 1
                           IN  IF /\ t[1] = "<" /\ end > 2 /\ t[2] \in Letter \ {"X"}
                              /\ At(t, end, <<">">>)
                           THEN end ELSE 0
    [] rule = "lineComment" -> IF At(t, 1, <<"/", "/">>) THEN Line(t) ELSE 0
    [] rule = "blockComment" -> IF At(t, 1, <<"/", "*">>) THEN Until(t, 3, <<"*", "/">>)
                                ELSE 0
    [] rule = "regexp" -> LET i == LiteralPlace(t, where # "later")
                        IN  IF i = 0 THEN 0 ELSE Literal(t, i)
    [] rule = "keyword" -> IF t[1] = "k" /\ RunTo(t, 1, Word) = 1 THEN 1 ELSE 0
    [] rule = "annotation" -> IF t[1] = "@" /\ Len(t) > 1 /\ t[2] \in Letter
                              THEN RunTo(t, 1, Word \cup {"@"}) ELSE 0
    [] rule = "type" -> LET lower == RunTo(t, 1, {"X"}) + 1
                        IN  IF lower > 1 /\ lower <= Len(t) /\ t[lower] \in Letter
                            THEN RunTo(t, 1, Word \cup {"@"}) ELSE 0
    [] rule = "word" -> IF t[1] \in Letter THEN RunTo(t, 1, Word \cup {"@"}) ELSE 0
    [] rule = "number" -> IF t[1] = "1" THEN RunTo(t, RunTo(t, 1, {"1"}) + 1, Letter)
                          ELSE 0
    [] rule = "punctuation" ->
         IF t[1] = "\n" THEN 0 ELSE RunTo(t, 2, {"*", "<", ">", "&", "=", "?"})
    [] rule = "text" -> RunTo(t, 1, Char \ {"<", "?"})
    [] rule = "instruction" -> IF At(t, 1, <<"<", "?">>) /\ Len(t) > 2
                               THEN Until(t, 4, <<"?", ">">>) ELSE 0
    [] rule = "delimiter" -> IF At(t, 1, <<"<", "?">>) \/ At(t, 1, <<"?", ">">>)
                             THEN 2 ELSE 0
    [] rule = "script" -> Element(t, "S")
    [] rule = "style" -> Element(t, "Y")
    [] rule = "tag" -> LET name == IF At(t, 1, <<"<", "/">>) THEN 3 ELSE 2
                           end == RunTo(t, 2, Char \ {"<", ">"}) + 1
                       IN  IF /\ t[1] = "<" /\ name < end /\ t[name] \in Letter
                              /\ At(t, end, <<">">>)
                           THEN end ELSE 0
    [] rule = "attribValue" -> IF t[1] \in Quote THEN Until(t, 2, <<t[1]>>) ELSE 0
    [] rule = "tagName" ->
         LET name == IF At(t, 1, <<"<", "/">>) THEN 3 ELSE 2
         IN  IF where # "later" /\ t[1] = "<" /\ name <= Len(t) /\ t[name] \in Letter
             THEN RunTo(t, name, Word)
             ELSE IF t \in {<<">">>, <<"/", ">">>} \/ (where = "token" /\ Last(t) = ">")
             THEN Len(t) ELSE 0
    [] rule = "attribName" ->
         IF \/ t[1] \in Letter \ {"O", "Y"}
            \/ t[1] = "Y" /\ (Len(t) = 1 \/ t[2] \notin White \cup {"="})
            \/ t = <<"O">> /\ where = "token"
         THEN RunTo(t, 1, Word) ELSE 0
    [] rule = "unquoted" -> Unquoted(t)
    [] rule = "tagPunctuation" -> RunTo(t, 1, {"=", "<", ">", "/"})
    [] rule = "onAttribute" -> Attribute(t, "O")
    [] rule = "styleAttribute" -> Attribute(t, "Y")
    [] rule \in {"atv", "str"} -> Len(t)

(* The groups 1 and 2 of what a rule matches of the token t: where 1       *)
(* begins, its length, and the length of 2                                 *)
Groups(rule, t) ==
  CASE rule = "regexp" ->
         LET i == LiteralPlace(t, TRUE) IN <<i, Literal(t, i) + 1 - i, 0>>
    [] rule = "instruction" ->
         LET end == Find(t, 4, <<"?", ">">>)
         IN  <<3, (IF end = 0 THEN Len(t) - 2 ELSE end - 3), 0>>
    [] rule \in {"script", "style"} ->
         LET i == Find(t, 3, <<">">>) + 1
             end == EndTag(t, IF rule = "script" THEN "S" ELSE "Y")
         IN  <<i, end - i, Find(t, end, <<">">>) + 1 - end>>
    [] rule = "tag" -> <<1, Len(t), 0>>
    [] rule = "unquoted" -> <<Value(t, 1), Unquoted(t) + 1 - Value(t, 1), 0>>
    [] rule \in {"onAttribute", "styleAttribute"} ->
         LET i == Value(t, RunTo(t, 1, Word) + 1)
             q == IF t[i] \in Quote THEN 1 ELSE 0
         IN  <<i + q, ValueEnd(t, i) + 1 - i - 2 * q, 0>>

-----------------------------------------------------------------------------
(* The style of each rule, or the language that its group 1 is in. *)
Embedded == [regexp |-> "regex", instruction |-> "", script |-> "js", style |-> "css",
             tag |-> "in.tag", unquoted |-> "uq.val", onAttribute |-> "js",
             styleAttribute |-> "css"]
Style == [space |-> "pln", string |-> "str", multiLine |-> "str",
          tripleQuoted |-> "str", verbatim |-> "str", hash |-> "com",
          include |-> "str", lineComment |-> "com", blockComment |-> "com",
          keyword |-> "kwd", annotation |-> "lit", type |-> "typ",
          word |-> "pln", number |-> "lit", punctuation |-> "pun",
          text |-> "pln", delimiter |-> "pun", attribValue |-> "atv",
          tagName |-> "tag", attribName |-> "atn", tagPunctuation |-> "pun",
          atv |-> "atv", str |-> "str", none |-> "pln"]

(* The characters that decide for a rule. *)
Shortcut(rule) == CASE rule = "space" -> White
                    [] rule \in {"string", "tripleQuoted", "attribValue"} -> Quote
                    [] rule = "multiLine" -> Quote \cup {"bq"}
                    [] rule = "hash" -> {"#"}
                    [] rule = "number" -> {"1"}
                    [] OTHER -> {}

When(condition, rules) == IF condition THEN rules ELSE <<>>

(* sourceDecorator: the rules of a programming language, those of          *)
(* shortcutStylePatterns first.                                            *)
SourceDecorator(options) ==
  [shortcut |->
     <<IF "tripleQuotedStrings" \in options THEN "tripleQuoted"
       ELSE IF "multiLineStrings" \in options THEN "multiLine" ELSE "string">>
       \o When("hashComments" \in options, <<"hash">>) \o <<"space">>,
   fallthrough |->
     When("verbatimStrings" \in options, <<"verbatim">>)
       \o When({"hashComments", "cStyleComments"} \subseteq options, <<"include">>)
       \o When("cStyleComments" \in options, <<"lineComment", "blockComment">>)
       \o When("regexLiterals" \in options, <<"regexp">>)
       \o <<"keyword", "annotation", "type", "word", "number", "punctuation">>]

MarkupRules ==
  [shortcut |-> <<>>,
   fallthrough |-> <<"text", "instruction", "delimiter", "script", "style", "tag">>]

TagRules ==
  [shortcut |-> <<"space", "attribValue">>,
   fallthrough |-> <<"tagName", "attribName", "unquoted", "tagPunctuation",
                     "onAttribute", "styleAttribute">>]

(* Everything is of one style. *)
WholeRules(rule) == [shortcut |-> <<>>, fallthrough |-> <<rule>>]

(* The calls of registerLangHandler when the script is loaded *)
Registrations ==
  << <<SourceDecorator({"hashComments", "cStyleComments", "multiLineStrings",
                        "regexLiterals"}), {"default-code"}>>,
     <<MarkupRules, {"default-markup", "htm", "html", "mxml", "xhtml", "xml", "xsl"}>>,
     <<TagRules, {"in.tag"}>>,
     <<WholeRules("atv"), {"uq.val"}>>,
     <<SourceDecorator({"hashComments", "cStyleComments"}),
       {"c", "cc", "cpp", "cxx", "cyc", "m"}>>,
     <<SourceDecorator({}), {"json"}>>,
     <<SourceDecorator({"hashComments", "cStyleComments", "verbatimStrings"}), {"cs"}>>,
     <<SourceDecorator({"cStyleComments"}), {"java"}>>,
     <<SourceDecorator({"hashComments", "multiLineStrings"}), {"bsh", "csh", "sh"}>>,
     <<SourceDecorator({"hashComments", "multiLineStrings", "tripleQuotedStrings"}),
       {"cv", "py"}>>,
     <<SourceDecorator({"hashComments", "multiLineStrings", "regexLiterals"}),
       {"perl", "pl", "pm"}>>,
     <<SourceDecorator({"hashComments", "multiLineStrings", "regexLiterals"}), {"rb"}>>,
     <<SourceDecorator({"cStyleComments", "regexLiterals"}), {"js"}>>,
     <<WholeRules("str"), {"regex"}>> >>

(* langHandlerRegistry: the first handler of an extension stays.           *)
LangHandlerRegistry ==
  [e \in UNION {r[2] : r \in Range(Registrations)} |->
     Registrations[Min({n \in DOMAIN Registrations : e \in Registrations[n][2]})][1]]

(* langHandlerForExtension: the rules for a text.  A text in an unknown    *)
(* language is markup if it begins with a < (after spaces).                *)
LangHandlerForExtension(extension, t) ==
  LET i == RunTo(t, 1, White) + 1
  IN  LangHandlerRegistry[
        IF extension \in DOMAIN LangHandlerRegistry THEN extension
        ELSE IF At(t, i, <<"<">>) THEN "default-markup" ELSE "default-code"]

-----------------------------------------------------------------------------
(* The rules of a list that match t, by their places in it *)
Applicable(rules, t, where) == {n \in DOMAIN rules : Length(rules[n], t, where) > 0}

(* The tokenizer: the length of the next token of the text of which t is   *)
(* left.  When no rule matches, it is one character.                       *)
TokenLength(lang, t, where) ==
  LET all == lang.shortcut \o lang.fallthrough
      found == Applicable(all, t, where)
  IN  IF found = {} THEN 1 ELSE Length(all[Min(found)], t, where)

(* The rule by which a token is styled: that of its first character, the   *)
(* last one with it, or the first that matches it.  The token was cut out  *)
(* with what comes after it in sight, and is matched here without.         *)
RuleOf(lang, token) ==
  LET all == lang.shortcut \o lang.fallthrough
      short == {n \in DOMAIN all : token[1] \in Shortcut(all[n])}
      found == Applicable(lang.fallthrough, token, "token")
  IN  IF short # {} THEN all[Max(short)]
      ELSE IF found # {} THEN lang.fallthrough[Min(found)] ELSE "none"

(* Mutant: the group 1 is looked up whether there is a group 2 or not. *)
EmbeddedLookedUp(rule, token) ==
  LET g == Groups(rule, token)
      start == IndexOf(token, SubSeq(token, g[1], g[1] + g[2] - 1))
  IN  <<start, start + g[2]>>

(* Where the group 1 of a token is, <<where it begins, its end>>, which is  *)
(* looked up in the token: the same text may come earlier.  Not so if      *)
(* there is a group 2, before which it ends.                               *)
Located(g, token) ==
  LET start == IF g[3] > 0 THEN Len(token) - g[3] - g[2]
               ELSE IndexOf(token, SubSeq(token, g[1], g[1] + g[2] - 1))
  IN  <<start, start + g[2]>>

(* The token's part in another language *)
EmbeddedPart(rule, token) == Located(Groups(rule, token), token)

=============================================================================
