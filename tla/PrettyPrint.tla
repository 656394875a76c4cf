----------------------------- MODULE PrettyPrint -----------------------------
(***************************************************************************)
(* jacoco-resources/prettify.js: prettyPrint(), which decorates the source *)
(* listings of the page that is open.  It takes a list of elements when it *)
(* is called and works through it in slices of time, between which the     *)
(* browser does other things.  What it does to the text of one element is  *)
(* the subject of Highlighter.                                             *)
(*                                                                         *)
(* A Node is an element named pre, code or xmp.  Assigning innerHTML       *)
(* replaces the elements inside by new ones of the same markup: the old    *)
(* ones are orphans, which the list may still hold.                        *)
(***************************************************************************)
EXTENDS Integers, Sequences, FiniteSets, FiniteSetsExt

CONSTANTS Node,      \* the elements of the pages
          Tag,       \* [Node -> {"pre", "code", "xmp"}]
          Outer,     \* [Node -> SUBSET Node], those around it in the page as loaded
          Deep,      \* nodes that are inside another, but not its children
          Source,    \* nodes whose class has "source"
          Empty,     \* nodes without content
          Faulty,    \* nodes on which the language handler throws
          Wrapped,   \* nodes whose computed white-space is not "pre"
          Breaks,    \* [Node -> SUBSET Nat], where its content has newlines
          Xhtml      \* nodes of XHTML pages, whose tagName is in lower case

(* External: elements are nested like a tree, those of one page are all of *)
(* XHTML or none, one with another inside is not empty, the content of an  *)
(* xmp in HTML is text, and newlines are looked at in elements without     *)
(* others inside.                                                          *)
ASSUME PrintAssumption ==
  /\ Outer \in [Node -> SUBSET Node]
  /\ Tag \in [Node -> {"pre", "code", "xmp"}]
  /\ \A n \in Node : IsFiniteSet(Outer[n]) /\ n \notin Outer[n]
  /\ \A n \in Node : \A m \in Outer[n] : /\ Outer[m] \subseteq Outer[n]
                                         /\ m \in Xhtml <=> n \in Xhtml
                                         /\ Tag[m] = "xmp" => m \in Xhtml
                                         /\ m \notin Empty /\ Breaks[m] = {}
  /\ \A n \in Node : \A m, o \in Outer[n] : m = o \/ m \in Outer[o] \/ o \in Outer[m]

VARIABLES phase,     \* where prettyPrint() is
          elements,  \* the list of elements to rewrite
          k,         \* those dealt with
          worked,    \* the slice has dealt with one
          orphan,    \* nodes that were cut off from the one around them
          times,     \* [Node -> Nat], how often the text shown in it was decorated
          lines,     \* [Node -> {"kept", "collapsed"}], its newlines
          lastIndex  \* newlineRe.lastIndex

printVars == <<phase, elements, k, worked, orphan, times, lines, lastIndex>>

-----------------------------------------------------------------------------
(* The nodes around n in the tree that n is part of, which ends where it   *)
(* was cut off.                                                            *)
Around(n) == {m \in Outer[n] : \A o \in orphan \cap ({n} \cup Outer[n]) : m \notin Outer[o]}

Shown(n) == orphan \cap ({n} \cup Outer[n]) = {}

Inside(n) == {m \in Node : n \in Outer[m]}

Children(n) == {m \in Node : Outer[m] = Outer[n] \cup {n}}

(* isRawContent *)
Raw(n) == Tag[n] = "xmp" /\ n \notin Xhtml

(* Mutant: only upper-case names are compared, as the other tests do. *)
NestedUpper(n) == n \notin Xhtml /\ \E p \in Around(n) : p \in Source

(* Inside an element that is to be decorated, too.  The names are compared *)
(* in lower case.                                                          *)
Nested(n) == n \in Xhtml /\ \E p \in Around(n) : p \in Source

(* newlineRe.test(content): the search starts at lastIndex, since the      *)
(* regular expression has the flag g, and leaves it behind the match.      *)
Found(n) == {b \in Breaks[n] : b >= lastIndex}
Tested(n) == IF Found(n) = {} THEN 0 ELSE Min(Found(n)) + 1

IsPre(n) == Tag[n] = "pre" /\ n \notin Xhtml

(* getInnerHtml, isPreformatted: newlines are replaced by spaces where the *)
(* browser would show them so.                                             *)
GetInnerHtml(n) ==
  IF Raw(n) \/ IsPre(n) THEN UNCHANGED <<lines, lastIndex>>
  ELSE /\ lastIndex' = Tested(n)
       /\ lines' = [lines EXCEPT ![n] =
                      IF Found(n) # {} /\ n \in Wrapped THEN "collapsed" ELSE @]

(* What applyDecorator leaves when it caught an exception is the content   *)
(* as it was.                                                              *)
Decorated(n) ==
  times' = [m \in Node |->
              IF /\ Shown(n) /\ n \notin Faulty
                 /\ m = n \/ m \in Inside(n)
              THEN times[m] + 1 ELSE times[m]]

(* replaceWithPrettyPrintedHtml: an xmp is replaced by a new PRE in its    *)
(* parentNode.  If that is null, the exception ends prettyPrint().         *)
Replace(n) ==
  \/ n \in Empty /\ UNCHANGED <<orphan, times, phase>>
  \/ /\ n \notin Empty /\ ~Raw(n)
     /\ Decorated(n)
     /\ orphan' = orphan \cup Children(n)
     /\ UNCHANGED phase
  \/ /\ n \notin Empty /\ Raw(n) /\ n \notin orphan \ Deep
     /\ Decorated(n)
     /\ orphan' = orphan \cup {n}
     /\ UNCHANGED phase
  \/ /\ n \notin Empty /\ Raw(n) /\ n \in orphan \ Deep
     /\ phase' = "failed"
     /\ UNCHANGED <<orphan, times>>

-----------------------------------------------------------------------------
(* The page is loaded with its scripts, their variables as they begin. *)
Fresh == /\ phase = "loading"
         /\ elements = <<>> /\ k = 0 /\ worked = FALSE
         /\ orphan = {}
         /\ times = [n \in Node |-> 0]
         /\ lines = [n \in Node |-> "kept"]
         /\ lastIndex = 0

(* The next page takes its place. *)
Renew == /\ phase' = "loading"
         /\ elements' = <<>> /\ k' = 0 /\ worked' = FALSE
         /\ orphan' = {}
         /\ times' = [n \in Node |-> 0]
         /\ lines' = [n \in Node |-> "kept"]
         /\ lastIndex' = 0

(* prettyPrint() on a page where byTagName finds the nodes in found[tag]. *)
PrettyPrint(found) ==
  /\ phase = "loading"
  /\ phase' = "running"
  /\ elements' = found["pre"] \o found["code"] \o found["xmp"]
  /\ UNCHANGED <<k, worked, orphan, times, lines, lastIndex>>

Busy == phase = "running" /\ k < Len(elements)

Current == elements[k + 1]

Advance == /\ k' = k + 1
           /\ worked' = TRUE
           /\ UNCHANGED elements

(* doWork: an element that is not to be decorated *)
Skip == /\ Busy
        /\ Current \notin Source \/ Nested(Current)
        /\ Advance
        /\ UNCHANGED <<phase, orphan, times, lines, lastIndex>>

(* doWork: one that is *)
Rewrite == /\ Busy
           /\ Current \in Source /\ ~Nested(Current)
           /\ GetInnerHtml(Current)
           /\ Replace(Current)
           /\ Advance

(* Mutant: the continuation starts behind the element that was next. *)
PauseOnNext == /\ Busy /\ worked
               /\ phase' = "waiting"
               /\ k' = k + 1
               /\ UNCHANGED <<elements, worked, orphan, times, lines, lastIndex>>

(* doWork: the slice's 250 ms are over, and setTimeout is called. *)
Pause == /\ Busy /\ worked
         /\ phase' = "waiting"
         /\ UNCHANGED <<elements, k, worked, orphan, times, lines, lastIndex>>

(* Mutant: the rest is left to a timer that was not set. *)
ResumeOnce == /\ phase = "waiting" /\ k = 1
              /\ phase' = "running"
              /\ worked' = FALSE
              /\ UNCHANGED <<elements, k, orphan, times, lines, lastIndex>>

(* The timer fires. *)
Resume == /\ phase = "waiting"
          /\ phase' = "running"
          /\ worked' = FALSE
          /\ UNCHANGED <<elements, k, orphan, times, lines, lastIndex>>

(* opt_whenDone() *)
WhenDone == /\ phase = "running" /\ k = Len(elements)
            /\ phase' = "done"
            /\ UNCHANGED <<elements, k, worked, orphan, times, lines, lastIndex>>

PrintStep == Skip \/ Rewrite \/ Pause \/ Resume \/ WhenDone

-----------------------------------------------------------------------------
(* n is in a listing that comes after n in the list of elements. *)
OuterLater(n) ==
  \E i, j \in DOMAIN elements : /\ i < j
                                /\ elements[j] \in Source \cap Outer[elements[i]]
                                /\ n \in {elements[i]} \cup Inside(elements[i])

(* doWork: through all pauses the text of a listing is decorated only      *)
(* once, though a listing may be inside another.  In HTML, where Nested    *)
(* never holds, this is so because decorating the outer one first orphans  *)
(* the inner one; with a pre inside a code it is not.                      *)
PrettyOnce == \A n \in Node : \/ times[n] <= 1
                             \/ (n \notin Xhtml /\ OuterLater(n))

Listed == {elements[i] : i \in DOMAIN elements}

(* prettyPrint: when opt_whenDone is called, each listing of the page has  *)
(* been decorated, unless it is empty or the handler failed on it or on    *)
(* one around it.  It is not called at all only if an xmp was orphaned.    *)
WhenDoneLast ==
  /\ phase = "done" =>
       \A n \in Source \cap Listed : \/ times[n] > 0
                                     \/ n \in Empty
                                     \/ Faulty \cap ({n} \cup Outer[n]) # {}
  /\ phase = "failed" =>
       \E n \in Source \cap Listed : Raw(n) /\ Outer[n] \cap Source # {}

(* isPreformatted: "Are newlines and adjacent spaces significant in the    *)
(* given node's innerHTML?"  In decorated elements where they are not,     *)
(* they are gone.                                                          *)
NewlinesFollowStyle ==
  \A n \in Node : times[n] > 0 /\ n \in Wrapped /\ Breaks[n] # {} /\ Tag[n] = "code"
                    => lines[n] = "collapsed"

=============================================================================
