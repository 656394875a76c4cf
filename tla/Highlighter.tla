----------------------------- MODULE Highlighter -----------------------------
(***************************************************************************)
(* jacoco-resources/prettify.js: applyDecorator, which turns the html of   *)
(* one element into html with a span around each token.  Its tags are      *)
(* taken out of the text (extractTags), the text is cut into tokens, some  *)
(* of them by the lexer of another language (decorate), and tags and text  *)
(* are put together again (recombineTagsAndDecorations).  Before, the      *)
(* script is loaded, which combines the patterns of each language.         *)
(*                                                                         *)
(* Html is a sequence of pieces: a "text" or "cdata" character, an         *)
(* "entity", a "br", a "comment" or a "tag".  The new html is a sequence   *)
(* of such pieces, spans and characters, each with the place in the text   *)
(* that it comes from.                                                     *)
(***************************************************************************)
EXTENDS Lexer, PrefixPatterns

CONSTANTS Listings,   \* the elements: [html, lang, lineNums, sourceNode]
          NoListing,
          PR_TAB_WIDTH,
          MaxDepth    \* bound of the model: calls that fit on the stack

Piece == [k : {"text", "cdata"}, c : Char]
           \cup [k : {"entity"}, c : Char \cup {"nbsp"}]
           \cup [k : {"br", "comment"}]
           \cup [k : {"tag"}, name : STRING, end : BOOLEAN, noCode : BOOLEAN]

ASSUME HighlightAssumption ==
  /\ PR_TAB_WIDTH \in Nat \ {0} /\ MaxDepth \in Nat \ {0}
  /\ \A l \in Listings : l.html \in Seq(Piece)

VARIABLES stage,        \* script, ready, lexing, joining, done or failed
          listing,      \* job
          source,       \* job.source
          tags,         \* job.extractedTags, with their places in source
          frames,       \* texts to decorate, those of the inmost calls first
          decorations,  \* styles with the places in source they begin at
          w             \* the variables of recombineTagsAndDecorations

highlightVars == <<stage, listing, source, tags, frames, decorations, w>>

Nothing == [tagPos |-> 1, decPos |-> 1, outputIdx |-> 0, open |-> "none",
            current |-> "none", lastWasSpace |-> TRUE, charInLine |-> 0, html |-> <<>>]

-----------------------------------------------------------------------------
(* htmlToText: &nbsp; is a space like others, and &amp; is replaced last,  *)
(* so that nothing is unescaped twice.                                     *)
HtmlToText(piece) == IF piece.k = "entity" /\ piece.c = "nbsp" THEN " " ELSE piece.c

(* textToHtml keeps a character what it is. *)
TextToHtml(c, at) == [k |-> "char", c |-> c, at |-> at]

IsTag(piece, name, end) == piece.k = "tag" /\ piece.name = name /\ piece.end = end

(* isNoCodeTag, and the tag that ends the section begun at i (or 0) *)
NoCodeEnd(html, i) ==
  LET Count(j, end) == Cardinality({n \in i .. j : IsTag(html[n], html[i].name, end)})
      ends == {j \in i .. Len(html) : Count(j, TRUE) = Count(j, FALSE)}
  IN  IF html[i].k # "tag" \/ ~html[i].noCode \/ ends = {} THEN 0 ELSE Min(ends)

(* The character that a piece is in the text. *)
Read(piece) == IF piece.k = "br" THEN "\n" ELSE HtmlToText(piece)

(* extractTags: a section without code is one tag, whose pieces are        *)
(* skipped.                                                                *)
ExtractPiece(so, html, i) ==
  LET end == Max({i, NoCodeEnd(html, i)})
  IN  CASE i < so.next -> so
        [] i >= so.next /\ html[i].k = "tag" ->
             [so EXCEPT !.tags = Append(@, [at |-> Len(so.source),
                                            html |-> SubSeq(html, i, end)]),
                        !.next = end + 1]
        [] i >= so.next /\ html[i].k = "comment" -> so
        [] OTHER -> [so EXCEPT !.source = Append(@, Read(html[i]))]

ExtractTags(html) ==
  LET upTo[i \in 0 .. Len(html)] ==
        IF i = 0 THEN [source |-> <<>>, tags |-> <<>>, next |-> 1]
        ELSE ExtractPiece(upTo[i - 1], html, i)
  IN  upTo[Len(html)]

-----------------------------------------------------------------------------
(* A call of a language's decorate function for a part of the source. *)
Call(text, at, lang, depth) ==
  [text |-> text, at |-> at, lang |-> lang, first |-> TRUE, depth |-> depth]

(* appendDecorations does nothing for an empty text. *)
AppendDecorations(text, at, lang, depth) ==
  IF text = <<>> THEN <<>> ELSE <<Call(text, at, lang, depth)>>

(* The left, the embedded and the right part of a token are decorated. *)
EmbeddedCalls(frame, token, rule) ==
  LET part == EmbeddedPart(rule, token)
      inner == SubSeq(token, part[1] + 1, part[2])
      lang == LangHandlerForExtension(Embedded[rule], inner)
      depth == frame.depth + 1
  IN  AppendDecorations(SubSeq(token, 1, part[1]), frame.at, frame.lang, depth)
        \o AppendDecorations(inner, frame.at + part[1], lang, depth)
        \o AppendDecorations(From(token, part[2] + 1), frame.at + part[2],
                             frame.lang, depth)

(* applyDecorator: the tags are extracted, and the text's language called. *)
ApplyDecorator(l) ==
  LET extracted == ExtractTags(l.html)
  IN  /\ stage = "ready"
      /\ stage' = "lexing"
      /\ listing' = l
      /\ source' = extracted.source
      /\ tags' = extracted.tags
      /\ frames' = <<Call(extracted.source, 0,
                          LangHandlerForExtension(l.lang, extracted.source), 1)>>
      /\ UNCHANGED <<decorations, w>>

Frame == Head(frames)

(* decorate begins with the style of plain text. *)
Begun == IF Frame.first THEN Append(decorations, [at |-> Frame.at, style |-> "pln"])
         ELSE decorations

(* decorate: the next token gets its style, or is decorated in its parts.  *)
Decorate ==
  /\ stage = "lexing" /\ frames # <<>>
  /\ Frame.text # <<>> /\ Frame.depth <= MaxDepth
  /\ LET length == TokenLength(Frame.lang, Frame.text,
                               IF Frame.first THEN "first" ELSE "later")
         token == SubSeq(Frame.text, 1, length)
         rule == RuleOf(Frame.lang, token)
         rest == [Frame EXCEPT !.text = From(@, length + 1), !.at = @ + length,
                               !.first = FALSE]
     IN  IF rule \in DOMAIN Embedded
         THEN /\ decorations' = Begun
              /\ frames' = EmbeddedCalls(Frame, token, rule) \o <<rest>> \o Tail(frames)
         ELSE /\ decorations' = Append(Begun, [at |-> Frame.at, style |-> Style[rule]])
              /\ frames' = <<rest>> \o Tail(frames)
  /\ UNCHANGED <<stage, listing, source, tags, w>>

(* decorate returns. *)
Return == /\ stage = "lexing" /\ frames # <<>>
          /\ Frame.text = <<>> /\ Frame.depth <= MaxDepth
          /\ decorations' = Begun
          /\ frames' = Tail(frames)
          /\ UNCHANGED <<stage, listing, source, tags, w>>

(* The catch of applyDecorator: the calls do not fit on the stack, or      *)
(* there is no element to look at (prettyPrintOne).  The html stays.       *)
Catch == /\ stage = "lexing"
         /\ \/ frames # <<>> /\ Frame.depth > MaxDepth
            \/ frames = <<>> /\ ~listing.sourceNode
         /\ stage' = "failed"
         /\ w' = [w EXCEPT !.html = listing.html]
         /\ UNCHANGED <<listing, source, tags, frames, decorations>>

-----------------------------------------------------------------------------
(* makeTabExpander: the characters of source between two places *)
ExpandChar(so, at) ==
  LET c == source[at]
      n == IF c = "\t" THEN PR_TAB_WIDTH - (so.charInLine % PR_TAB_WIDTH) ELSE 1
  IN  [chars |-> so.chars
                   \o [i \in 1 .. n |-> TextToHtml(IF c = "\t" THEN " " ELSE c, at - 1)],
       charInLine |-> IF c = "\n" THEN 0 ELSE so.charInLine + n]

Expanded(from, to, column) ==
  LET upTo[at \in from .. Len(source)] ==
        IF at = from THEN [chars |-> <<>>, charInLine |-> column]
        ELSE ExpandChar(upTo[at - 1], at)
  IN  upTo[to]

(* startOrSpaceRe or adjacentSpaceRe: a space at the beginning of a line   *)
(* or behind another becomes &#160;; last: the chunk before ended so.      *)
SpaceChar(before, char) ==
  IF char.c = " " /\ before THEN [char EXCEPT !.c = "nbsp"] ELSE char

(* Mutant: adjacentSpaceRe is used for every chunk. *)
SpacedAdjacent(chars, last) ==
  LET upTo[i \in 1 .. Len(chars)] ==
        SpaceChar(i # 1 /\ upTo[i - 1].c \in {" ", "\n"}, chars[i])
  IN  upTo

Spaced(chars, last) ==
  LET upTo[i \in 1 .. Len(chars)] ==
        SpaceChar(IF i = 1 THEN last ELSE upTo[i - 1].c \in {" ", "\n"}, chars[i])
  IN  upTo

Open(style) == <<[k |-> "span", style |-> style]>>
Close == <<[k |-> "/span"]>>

(* lineBreaker: a list item is not begun inside a span. *)
LineBreak(char, style) ==
  IF listing.lineNums
  THEN Close \o <<[char EXCEPT !.k = "item"]>> \o Open(style)
  ELSE <<[char EXCEPT !.k = "break"]>>

BreakChar(char, style) == IF char.c = "\n" THEN LineBreak(char, style) ELSE <<char>>

Broken(chars, style) ==
  LET upTo[i \in 0 .. Len(chars)] ==
        IF i = 0 THEN <<>> ELSE upTo[i - 1] \o BreakChar(chars[i], style)
  IN  upTo[Len(chars)]

(* Mutant: each chunk begins at a tab stop. *)
ChunkFromColumn0(to) == Expanded(w.outputIdx, to, 0)

(* tabExpander goes on in the column that the chunk before ended in. *)
Chunk(to) == Expanded(w.outputIdx, to, w.charInLine)

(* emitTextUpTo *)
EmitTextUpTo(to) ==
  IF to <= w.outputIdx THEN w
  ELSE LET chars == Spaced(Chunk(to).chars, w.lastWasSpace)
       IN  [w EXCEPT !.html = @ \o (IF w.open = w.current THEN <<>>
                                    ELSE (IF w.open = "none" THEN <<>> ELSE Close)
                                           \o Open(w.current))
                                \o Broken(chars, w.current),
                     !.open = w.current,
                     !.lastWasSpace = Last(chars).c \in {" ", "\n"},
                     !.charInLine = Chunk(to).charInLine,
                     !.outputIdx = to]

(* The decorations are complete: recombineTagsAndDecorations begins. *)
Join == /\ stage = "lexing" /\ frames = <<>> /\ listing.sourceNode
        /\ stage' = "joining"
        /\ UNCHANGED <<listing, source, tags, frames, decorations, w>>

(* outputTag: a tag comes before a decoration of the same place. *)
OutputTag == /\ w.tagPos <= Len(tags)
             /\ w.decPos <= Len(decorations) =>
                  tags[w.tagPos].at <= decorations[w.decPos].at

(* Mutant: the tag is put into the span that is open. *)
ConsumeTagInSpan ==
  /\ stage = "joining" /\ OutputTag
  /\ w' = [EmitTextUpTo(tags[w.tagPos].at) EXCEPT
             !.html = @ \o tags[w.tagPos].html,
             !.tagPos = @ + 1]
  /\ UNCHANGED <<stage, listing, source, tags, frames, decorations>>

(* A tag is consumed: the text before it, and the end of an open span. *)
ConsumeTag ==
  /\ stage = "joining" /\ OutputTag
  /\ LET emitted == EmitTextUpTo(tags[w.tagPos].at)
     IN  w' = [emitted EXCEPT
                 !.html = @ \o (IF emitted.open = "none" THEN <<>> ELSE Close)
                            \o tags[w.tagPos].html,
                 !.open = "none",
                 !.tagPos = @ + 1]
  /\ UNCHANGED <<stage, listing, source, tags, frames, decorations>>

(* A decoration is consumed: the text before it has the one before. *)
ConsumeDecoration ==
  /\ stage = "joining" /\ ~OutputTag /\ w.decPos <= Len(decorations)
  /\ w' = [EmitTextUpTo(decorations[w.decPos].at) EXCEPT
             !.current = decorations[w.decPos].style,
             !.decPos = @ + 1]
  /\ UNCHANGED <<stage, listing, source, tags, frames, decorations>>

(* The rest of the text, and job.prettyPrintedHtml *)
Finish ==
  /\ stage = "joining" /\ w.tagPos > Len(tags) /\ w.decPos > Len(decorations)
  /\ LET emitted == EmitTextUpTo(Len(source))
     IN  w' = [emitted EXCEPT
                 !.html = @ \o (IF emitted.open = "none" THEN <<>> ELSE Close),
                 !.open = "none"]
  /\ stage' = "done"
  /\ UNCHANGED <<listing, source, tags, frames, decorations>>

(* The job is left for that of another element. *)
NextElement == /\ stage \in {"done", "failed"}
               /\ stage' = "ready"
               /\ listing' = NoListing /\ source' = <<>> /\ tags' = <<>>
               /\ frames' = <<>> /\ decorations' = <<>> /\ w' = Nothing

-----------------------------------------------------------------------------
HighlightInit == /\ NotCombining
                 /\ stage = "script" /\ listing = NoListing /\ source = <<>>
                 /\ tags = <<>> /\ frames = <<>> /\ decorations = <<>> /\ w = Nothing

(* The script is loaded: createSimpleLexer combines a language's patterns. *)
LoadScript ==
  /\ stage = "script"
  /\ \/ \E list \in PatternLists : Combine(list) /\ UNCHANGED stage
     \/ RewriteNext /\ UNCHANGED stage
     \/ Combined /\ stage' = "ready"
  /\ UNCHANGED <<listing, source, tags, frames, decorations, w>>

Highlight == \/ \E l \in Listings : ApplyDecorator(l)
             \/ Decorate \/ Return \/ Catch
             \/ Join \/ ConsumeTag \/ ConsumeDecoration \/ Finish
             \/ NextElement

HighlightNext == LoadScript \/ (Highlight /\ UNCHANGED patternVars)

HighlightSpec == HighlightInit /\ [][HighlightNext]_<<highlightVars, patternVars>>

-----------------------------------------------------------------------------
(* What is to be read in html: its characters, <br> as the end of a line,  *)
(* with spaces up to the next tab stop for each tab, and its tags, with    *)
(* all that is in a section without code.                                  *)
Character(c) == [k |-> "char", c |-> c]

ReadPiece(so, html, i) ==
  LET section == IF i <= so.section THEN so.section ELSE NoCodeEnd(html, i)
      c == Read(html[i])
      n == IF c = "\t" THEN PR_TAB_WIDTH - (so.column % PR_TAB_WIDTH) ELSE 1
  IN  CASE i <= section \/ html[i].k = "tag" ->
             [so EXCEPT !.items = Append(@, html[i]), !.section = section]
        [] i > section /\ html[i].k = "comment" -> so
        [] OTHER ->
             [so EXCEPT !.items = @ \o [m \in 1 .. n |->
                                          Character(IF c = "\t" THEN " " ELSE c)],
                        !.column = IF c = "\n" THEN 0 ELSE @ + n]

Readable(html) ==
  LET upTo[i \in 0 .. Len(html)] ==
        IF i = 0 THEN [items |-> <<>>, column |-> 0, section |-> 0]
        ELSE ReadPiece(upTo[i - 1], html, i)
  IN  upTo[Len(html)].items

(* What is to be read in an item of the new html. *)
ReadItem(item) ==
  CASE item.k \in {"span", "/span"} -> <<>>
    [] item.k \in {"break", "item"} -> <<Character("\n")>>
    [] item.k = "char" -> <<Character(IF item.c = "nbsp" THEN " " ELSE item.c)>>
    [] OTHER -> <<item>>

NewReadable(html) == FlattenSeq([n \in DOMAIN html |-> ReadItem(html[n])])

(* applyDecorator: the new html reads as the old one, character by         *)
(* character and tag by tag, with tabs expanded over all spans and tags.   *)
HtmlKept == stage = "done" => NewReadable(w.html) = Readable(listing.html)

(* The style that the lexers gave to the character at a place. *)
StyleAt(at) == decorations[Max({d \in DOMAIN decorations :
                                  decorations[d].at <= at})].style

(* The span that is open behind the n-th item of the new html. *)
SpanAt(html, n) == LET marks == {m \in 1 .. n : html[m].k \in {"span", "/span"}}
                   IN  IF marks = {} \/ html[Max(marks)].k = "/span" THEN "none"
                       ELSE html[Max(marks)].style

(* recombineTagsAndDecorations: every character is in one span, that of    *)
(* the style that the lexers gave to its place; and no span is open where  *)
(* a tag or a list item begins, so that spans and tags are nested.         *)
SpansNest ==
  stage = "done" =>
    /\ SpanAt(w.html, Len(w.html)) = "none"
    /\ \A n \in DOMAIN w.html :
         LET item == w.html[n]
         IN  CASE item.k = "span" -> SpanAt(w.html, n - 1) = "none"
               [] item.k = "/span" -> SpanAt(w.html, n - 1) # "none"
               [] item.k \in {"char", "break"} -> SpanAt(w.html, n) = StyleAt(item.at)
               [] OTHER -> SpanAt(w.html, n) = "none"

(* emitTextUpTo: "It's necessary for IE though which seems to lose the     *)
(* preformattedness": through all chunks no plain space begins a line or   *)
(* follows another.                                                        *)
Shown(html, n) == {m \in 1 .. n : html[m].k \in {"char", "break", "item"}}
SpacesKept ==
  stage = "done" =>
    \A n \in Shown(w.html, Len(w.html)) :
      LET before == Shown(w.html, n - 1)
      IN  w.html[n].c = " " => /\ before # {}
                               /\ w.html[Max(before)].c \notin {" ", "\n"}

(* createSimpleLexer: whatever languages are in one another, the calls     *)
(* that are left tile the rest of the text, their decorations are in the   *)
(* order of the text, and no token is decorated as a part of itself        *)
(* without end ("cause us to infinitely recurse on the entire token").     *)
LexingTiles ==
  stage = "lexing" =>
    /\ \A i \in DOMAIN frames :
         LET f == frames[i]
             end == IF i = Len(frames) THEN Len(source) ELSE frames[i + 1].at
         IN  f.text = SubSeq(source, f.at + 1, end) /\ f.depth <= MaxDepth
    /\ \A i \in 1 .. Len(decorations) - 1 : decorations[i].at <= decorations[i + 1].at
    /\ frames # <<>> /\ decorations # <<>> => Last(decorations).at <= Frame.at

=============================================================================
