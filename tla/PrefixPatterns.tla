---------------------------- MODULE PrefixPatterns ----------------------------
(***************************************************************************)
(* jacoco-resources/prettify.js: combinePrefixPatterns, which makes one    *)
(* regular expression of those of a language, its alternatives: one that   *)
(* matches anywhere and that cuts the source text into tokens.             *)
(*                                                                         *)
(* A regex is a sequence of parts: "open" and "close" of a capturing       *)
(* group, "caret", "ref" (a backslash and a number), "letter", "escape" (a *)
(* letter written as its code, such as \x61) and "set", whose ranges of    *)
(* character codes are in the order of its text, their ends written as     *)
(* characters.  Parts that are never changed and match no letter are left  *)
(* out.  A part that is replaced by nothing keeps its place.               *)
(***************************************************************************)
EXTENDS Integers, Sequences, FiniteSets, FiniteSetsExt, SequencesExt

CONSTANTS PatternLists   \* the lists of regexes that are combined

Caret == 94
Upper == 65 .. 90
Lower == 97 .. 122

CodeRange == {r \in Nat \X Nat : r[1] <= r[2]}
Part == [k : {"open", "close", "caret"}]
          \cup [k : {"ref"}, number : Nat]
          \cup [k : {"letter", "escape"}, code : Upper \cup Lower]
          \cup [k : {"set"}, ranges : Seq(CodeRange), inverse : BOOLEAN]
Regex == [ignoreCase : BOOLEAN, parts : Seq(Part)]

ASSUME PatternAssumption == PatternLists \subseteq Seq(Regex)

VARIABLES regexs,              \* the list
          capturedGroupIndex,  \* the groups that capture so far
          rewritten            \* the alternatives so far

patternVars == <<regexs, capturedGroupIndex, rewritten>>

NotCombining == regexs = <<>> /\ capturedGroupIndex = 0 /\ rewritten = <<>>

-----------------------------------------------------------------------------
(* /[a-z]/i.test of the source without its escapes *)
HasLetters(re) ==
  \E i \in DOMAIN re.parts :
    \/ re.parts[i].k = "letter"
    \/ /\ re.parts[i].k = "set"
       /\ \E r \in Range(re.parts[i].ranges) : {r[1], r[2]} \cap (Upper \cup Lower) # {}

(* A letter of one that is case sensitive forbids the flag i. *)
NeedToFoldCase(list) == \E re \in Range(list) : ~re.ignoreCase /\ HasLetters(re)

IgnoreCase(list) == /\ ~NeedToFoldCase(list)
                    /\ \E re \in Range(list) : re.ignoreCase

-----------------------------------------------------------------------------
(* A range with the letters that it has in the other case. *)
Folded(r) ==
  {r} \cup (IF r[2] < 65 \/ r[1] > 90 THEN {}
            ELSE {<<Max({65, r[1]}) + 32, Min({r[2], 90}) + 32>>})
      \cup (IF r[2] < 97 \/ r[1] > 122 THEN {}
            ELSE {<<Max({97, r[1]}) - 32, Min({r[2], 122}) - 32>>})

Before(a, b) == a[1] < b[1] \/ (a[1] = b[1] /\ b[2] < a[2])

(* ranges.sort: the n-th comes behind n - 1 others. *)
Ordered(ranges) ==
  [n \in 1 .. Cardinality(ranges) |->
     CHOOSE r \in ranges : Cardinality({q \in ranges : Before(q, r)}) = n - 1]

(* A range that meets the last one extends it. *)
Merge(done, r) ==
  IF done # <<>> /\ r[1] <= done[Len(done)][2] + 1
  THEN [done EXCEPT ![Len(done)] = <<@[1], Max({@[2], r[2]})>>]
  ELSE Append(done, r)

Consolidated(ranges) ==
  LET upTo[n \in 0 .. Len(ranges)] ==
        IF n = 0 THEN <<>> ELSE Merge(upTo[n - 1], ranges[n])
  IN  upTo[Len(ranges)]

(* caseFoldCharset.  A caret is not escaped: as the least of the set it    *)
(* inverts it.                                                             *)
CaseFoldCharset(set) ==
  LET ranges == Ordered(UNION {Folded(r) : r \in Range(set.ranges)})
      consolidated == Consolidated(ranges)
  IN  [k |-> "set", ranges |-> consolidated,
       inverse |-> set.inverse \/ (consolidated # <<>> /\ consolidated[1][1] = Caret)]

FoldPart(part) ==
  CASE part.k = "set" -> CaseFoldCharset(part)
    [] part.k = "letter" -> [k |-> "set", inverse |-> FALSE,
                             ranges |-> Ordered(Folded(<<part.code, part.code>>))]
    [] OTHER -> part

-----------------------------------------------------------------------------
(* groupIndex at the part i: the groups opened by it and before it *)
GroupIndex(parts, i) == Cardinality({j \in 1 .. i : parts[j].k = "open"})

(* The part i is a back-reference, and not a character in octal. *)
BackReference(parts, i) == /\ parts[i].k = "ref"
                           /\ parts[i].number \in 1 .. GroupIndex(parts, i)

(* The groups that some part refers back to. *)
Captured(parts) == {parts[i].number : i \in {j \in DOMAIN parts : BackReference(parts, j)}}

(* capturedGroups: the number of a group in the combined regex, or 0 for   *)
(* one that need not capture                                               *)
Renumbered(parts, group) ==
  IF group \in Captured(parts)
  THEN capturedGroupIndex + Cardinality({g \in Captured(parts) : g <= group})
  ELSE 0

(* A reference gets the new number of the last group before it. *)
RenumberPart(parts, i) ==
  CASE parts[i].k = "open" /\ GroupIndex(parts, i) \notin Captured(parts)
         -> [k |-> "openNonCapturing"]
    [] BackReference(parts, i)
         -> [parts[i] EXCEPT !.number = Renumbered(parts, GroupIndex(parts, i))]
    [] OTHER -> parts[i]

(* A caret goes, unless another one follows it. *)
Unanchored(parts) ==
  [i \in DOMAIN parts |->
     IF parts[i].k = "caret" /\ (i = Len(parts) \/ parts[i + 1].k # "caret")
     THEN [k |-> "nothing"] ELSE parts[i]]

(* allowAnywhereFoldCaseAndRenumberGroups *)
Rewritten(re) ==
  LET renumbered == [i \in DOMAIN re.parts |-> RenumberPart(re.parts, i)]
      anywhere == Unanchored(renumbered)
  IN  IF re.ignoreCase /\ NeedToFoldCase(regexs)
      THEN [i \in DOMAIN anywhere |-> FoldPart(anywhere[i])]
      ELSE anywhere

-----------------------------------------------------------------------------
(* combinePrefixPatterns is called. *)
Combine(list) == /\ regexs = <<>>
                 /\ regexs' = list
                 /\ capturedGroupIndex' = 0
                 /\ rewritten' = <<>>

Combining == Len(rewritten) < Len(regexs)

Next1 == regexs[Len(rewritten) + 1]

(* Mutant: the groups of each regex are numbered from 1. *)
RewriteFromOne == /\ Combining
                  /\ rewritten' = Append(rewritten, Rewritten(Next1))
                  /\ UNCHANGED <<regexs, capturedGroupIndex>>

(* The next regex is rewritten, and its groups are counted. *)
RewriteNext == /\ Combining
               /\ rewritten' = Append(rewritten, Rewritten(Next1))
               /\ capturedGroupIndex' = capturedGroupIndex
                                          + Cardinality(Captured(Next1.parts))
               /\ UNCHANGED regexs

(* The tokenizer is made. *)
Combined == /\ regexs # <<>> /\ ~Combining
            /\ regexs' = <<>> /\ capturedGroupIndex' = 0 /\ rewritten' = <<>>

-----------------------------------------------------------------------------
(* Where the group g is opened. *)
OpenOf(parts, g) == CHOOSE i \in DOMAIN parts :
                      parts[i].k = "open" /\ GroupIndex(parts, i) = g

(* The groups of the alternatives before the n-th. *)
GroupsBefore(n) ==
  UNION {{<<m, j>> : j \in {j \in DOMAIN rewritten[m] : rewritten[m][j].k = "open"}} :
           m \in 1 .. n - 1}

(* The number of the group g of the regex n among all groups of the        *)
(* alternatives up to it.                                                  *)
NumberOf(n, g) == Cardinality(GroupsBefore(n))
                    + GroupIndex(rewritten[n], OpenOf(regexs[n].parts, g))

(* No regex refers back farther than to the last group opened before: its  *)
(* reference would get the wrong number.  No language has one.             *)
RefersToLast(parts, i) == parts[i].number = GroupIndex(parts, i)

(* Each reference back still means the group that it meant. *)
GroupsKept ==
  \A n \in DOMAIN rewritten :
    LET parts == regexs[n].parts
    IN  \A i \in DOMAIN parts :
          BackReference(parts, i) /\ RefersToLast(parts, i) =>
            rewritten[n][i].number = NumberOf(n, parts[i].number)

(* The codes that a part matches, with the flag i or without it. *)
OtherCase(c) == CASE c \in Upper -> c + 32
                  [] c \in Lower -> c - 32
                  [] OTHER -> c
Holds(part, c) == IF part.k \in {"letter", "escape"} THEN c = part.code
                  ELSE \E r \in Range(part.ranges) : c \in r[1] .. r[2]
Matches(part, c, i) ==
  (Holds(part, c) \/ (i /\ Holds(part, OtherCase(c))))
    # (part.k = "set" /\ part.inverse)

(* Parts that are changed: a set that begins with a caret when it is       *)
(* folded, one whose letters are only inside its ranges, which a flag i    *)
(* meets, and an escape when the flag i of its regex is lost ("TODO:       *)
(* handle letters in numeric escapes") or comes in.  No language has one.  *)
Misread(re, part) ==
  \/ /\ part.k = "set"
     /\ \/ Min({r[1] : r \in UNION {Folded(q) : q \in Range(part.ranges)}}) = Caret
        \/ /\ ~re.ignoreCase /\ ~HasLetters(re)
           /\ \E c \in Upper \cup Lower : Holds(part, c)
  \/ part.k = "escape" /\ re.ignoreCase # IgnoreCase(regexs)

(* Each letter, escape and set still matches what it matched, whichever of *)
(* the regexes ignore the case.                                            *)
CaseKept ==
  \A n \in DOMAIN rewritten :
    LET parts == regexs[n].parts
    IN  \A i \in DOMAIN parts :
          parts[i].k \in {"letter", "escape", "set"} /\ ~Misread(regexs[n], parts[i]) =>
            \A c \in 32 .. 126 :
              Matches(rewritten[n][i], c, IgnoreCase(regexs))
                = Matches(parts[i], c, regexs[n].ignoreCase)

(* combinePrefixPatterns: the combined regex matches what its regexes      *)
(* match ("globally matches the union"), though their groups are numbered  *)
(* through and some of them ignore the case.                               *)
PatternsUnite == GroupsKept /\ CaseKept

=============================================================================
