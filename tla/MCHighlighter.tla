---------------------------- MODULE MCHighlighter ----------------------------
(* Listings of up to three pieces of Java in every order, and longer ones  *)
(* in other languages; patterns in lists of up to two.                     *)
EXTENDS Highlighter

T(c) == [k |-> "text", c |-> c]
E(c) == [k |-> "entity", c |-> c]
Br == [k |-> "br"]
Comment == [k |-> "comment"]
CData(c) == [k |-> "cdata", c |-> c]
Tag(name) == [k |-> "tag", name |-> name, end |-> FALSE, noCode |-> FALSE]
End(name) == [k |-> "tag", name |-> name, end |-> TRUE, noCode |-> FALSE]
NoCode(name) == [k |-> "tag", name |-> name, end |-> FALSE, noCode |-> TRUE]

Pieces == {T("x"), T(" "), T("\t"), T("\n"), T("/"), Br, Tag("b"), End("b"),
           NoCode("b")}

Listing(html, lang, lineNums) ==
  [html |-> html, lang |-> lang, lineNums |-> lineNums, sourceNode |-> TRUE]

(* Html from characters, with < > and & as entities. *)
Html(text) == [i \in DOMAIN text |-> IF text[i] \in {"<", ">", "&"} THEN E(text[i])
                                     ELSE T(text[i])]

MCListings ==
  {Listing(html, "java", FALSE) : html \in UNION {[1 .. n -> Pieces] : n \in 0 .. 3}}
  \cup {Listing(html, "java", TRUE) : html \in UNION {[1 .. n -> Pieces] : n \in 0 .. 2}}
  \cup {Listing(html, "java", lineNums) : lineNums \in BOOLEAN, html \in {
    <<T("k"), T(" "), T("x"), T("\t"), Tag("b"), T("/"), T("/"), T("\t"), T("x"),
      Br, T(" "), T(" "), End("b"), T(" "), T("\"")>>,
    <<NoCode("b"), T(" "), Tag("b"), Comment, End("b"), Br, End("b"), T(" "),
      T("/"), T("*"), T("\n"), T("\t"), T("*"), T("/"), T("X"), T("x"), T("1")>>,
    <<CData("<"), CData(" "), CData(" "), CData("@"), E("nbsp"), T("x"), Comment, T("\""), T("\n"), T("\""),
      NoCode("i"), T("\t")>>}}
  \cup {Listing(Html(text), lang, FALSE) :
    lang \in {"", "xml", "js", "cs", "py", "sh", "c", "css"}, text \in {
    <<"<", "S", ">", "<", "/", "S", ">", "x">>,
    <<"<", "S", ">", "x", "=", "/", "S", "/", "<", "/", "S", ">">>,
    <<"<", "x", " ", "O", "=", "\"", "x", "=", "1", "\"", " ", "x", "=", "x", "/", ">">>,
    <<"<", "x", " ", "x", "=", "x", "/", "/", " ", "O", ">", "<", "/", "x", ">">>,
    <<"<", "Y", ">", "x", "<", "/", "Y", ">", "&", "<", "x", "=", ">">>,
    <<"<", "x", " ", "Y", "=", "'", "Y", "'", " ", "Y", "x", " ", "O", "=", "O", ">">>,
    <<"<", "?", "<", "x", ">", "k", "?", ">", "x", "<", "?">>,
    <<"<", "?", "?", ">">>,
    <<"#", "x", "\n", "k", " ", "/", "x", "/", "=", " ", "/", "/", "x">>,
    <<"/", "x", "/", "*", "/", " ", "/", "x", "/", "1">>,
    <<"'", "'", "'", "x", "'", "\n", "'", "'", "'", "x", "'", "'", "'", "'">>,
    <<"@", "\"", "\"", "\"", "x", "\"", "x", "=", "=", "=", " ", "/", "x", "/">>,
    <<"<", "S", "x", ">", "<", "S", ">", "x", "<", "/", "S", "x", ">", "<", "/", "S", ">">>,
    <<"'", "x", "\n", "'", "bq", "\n", "bq", "<", "x", ">", "@", "\"", "\n", "\"">>}}
  \cup {[Listing(Html(<<"k", " ", "x">>), "java", FALSE) EXCEPT !.sourceNode = FALSE]}

-----------------------------------------------------------------------------
Group == [k |-> "open"]
EndGroup == [k |-> "close"]
Start == [k |-> "caret"]
Ref(n) == [k |-> "ref", number |-> n]
Letters(code) == [k |-> "letter", code |-> code]
Escape(code) == [k |-> "escape", code |-> code]
Set(ranges) == [k |-> "set", ranges |-> ranges, inverse |-> FALSE]
NotIn(ranges) == [k |-> "set", ranges |-> ranges, inverse |-> TRUE]
Re(ignoreCase, parts) == [ignoreCase |-> ignoreCase, parts |-> parts]

Regexs == {
  Re(TRUE, <<Start, Group, Letters(97), EndGroup, Ref(1)>>),
  Re(TRUE, <<Start, Start, Set(<< <<97, 102>>, <<48, 57>> >>), Ref(1)>>),
  Re(TRUE, <<Start, NotIn(<< <<62, 62>>, <<80, 110>>, <<65, 122>> >>)>>),
  Re(TRUE, <<Set(<< <<94, 94>>, <<126, 126>> >>)>>),
  Re(FALSE, <<Start, Group, Set(<< <<97, 102>> >>), EndGroup, Group, Letters(120),
              EndGroup, Ref(2), Group, Ref(3), EndGroup>>),
  Re(FALSE, <<Start, Group, Group, EndGroup, EndGroup, Ref(1)>>),
  Re(FALSE, <<Start, Set(<< <<48, 57>>, <<33, 95>> >>)>>),
  Re(TRUE, <<Start, Escape(97), Letters(98)>>),
  Re(FALSE, <<Start, Escape(65)>>)}

MCPatternLists == UNION {[1 .. n -> Regexs] : n \in 1 .. 2}

=============================================================================
