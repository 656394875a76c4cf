------------------------- MODULE Highlighter_proofs -------------------------
(***************************************************************************)
(* Proofs about Highlighter for all listings and lists of patterns.        *)
(* First functions that are computed from one number to the next; then the *)
(* lexers, whose groups fit into their tokens, and extractTags; then       *)
(* decorate, whose calls tile the text and fit on the stack; then          *)
(* recombineTagsAndDecorations, whose html is walked over item by item and *)
(* reads as the old one; and combinePrefixPatterns, whose rewritten        *)
(* patterns match what the old ones did.                                   *)
(***************************************************************************)
EXTENDS Highlighter, SequenceTheorems, FiniteSetTheorems, WellFoundedInduction, TLAPS

(* Some numbers, if there are any, have a least one. *)
LEMMA LeastNumber ==
  ASSUME NEW T, T \subseteq Nat, T # {}
  PROVE  \E d \in T : \A e \in T : ~(e < d)
<1> DEFINE less == OpToRel(<, Nat)
<1>1. IsWellFoundedOn(less, Nat)
  BY NatLessThanWellFounded
<1>2. \A e, d \in Nat : e < d => <<e, d>> \in less
  BY DEF OpToRel
<1> HIDE DEF less
<1>3. \E d \in T : \A e \in T : ~(<<e, d>> \in less)
  BY <1>1, WFMin, Zenon
<1> QED
  BY <1>2, <1>3

(* Counting up from a: what holds for a and for the number behind each     *)
(* that it holds for, holds up to b.                                       *)
LEMMA Upwards ==
  ASSUME NEW a \in Int, NEW b \in Int, NEW P, a \in P,
         \A i \in a .. b - 1 : i \in P => i + 1 \in P
  PROVE  a .. b \subseteq P
<1> SUFFICES ASSUME NEW u \in a .. b, u \notin P PROVE FALSE
  OBVIOUS
<1> DEFINE T == {k \in Nat : a + k <= b /\ a + k \notin P}
<1>1. T \subseteq Nat /\ u - a \in T
  <2>1. u - a \in Nat /\ a + (u - a) = u /\ u <= b
    OBVIOUS
  <2> QED BY <2>1
<1>2. PICK d \in T : \A e \in T : ~(e < d)
  <2> HIDE DEF T
  <2> QED BY <1>1, LeastNumber
<1>3. d \in Nat /\ a + d <= b /\ a + d \notin P
  OBVIOUS
<1>4. d # 0
  <2> SUFFICES ASSUME d = 0 PROVE FALSE
    OBVIOUS
  <2>1. a + d = a
    BY <1>3
  <2> QED BY <1>3, <2>1
<1>5. d - 1 \in Nat /\ d - 1 < d /\ a + (d - 1) \in a .. b - 1 /\ a + (d - 1) + 1 = a + d
  BY <1>3, <1>4
<1>6. d - 1 \notin T
  BY <1>2, <1>5
<1>7. a + (d - 1) \in P
  BY <1>3, <1>5, <1>6
<1> QED
  BY <1>3, <1>5, <1>7

(* What is computed from a number to the next one. *)
Computes(f, a, b, base, step) ==
  f = [i \in a .. b |-> IF i = a THEN base ELSE step[<<i, f[i - 1]>>]]

(* A recursive function exists, and its values are of the type of its      *)
(* steps.                                                                  *)
LEMMA RecursionExists ==
  ASSUME NEW D, NEW a \in Int, NEW b \in Int, NEW base \in D,
         NEW step \in [(a + 1 .. b) \X D -> D]
  PROVE  \E f \in [a .. b -> D] : Computes(f, a, b, base, step)
<1> DEFINE P == {c \in a .. b : \E f \in [a .. c -> D] : Computes(f, a, c, base, step)}
<1> SUFFICES ASSUME a <= b PROVE TRUE /\ \E f \in [a .. b -> D] : Computes(f, a, b, base, step)
  <2>1. CASE a <= b
    BY <2>1
  <2>2. CASE ~(a <= b)
    <3>1. a .. b = {}
      BY <2>2
    <3> DEFINE f == [i \in a .. b |-> base]
    <3>2. f \in [a .. b -> D] /\ Computes(f, a, b, base, step)
      BY <3>1 DEF Computes
    <3> QED BY <3>2
  <2> QED BY <2>1, <2>2
<1>1. a \in P
  <2> DEFINE f == [i \in a .. a |-> base]
  <2>1. f \in [a .. a -> D] /\ Computes(f, a, a, base, step)
    <3>1. \A i \in a .. a : i = a
      OBVIOUS
    <3> QED BY <3>1 DEF Computes
  <2> QED BY <2>1
<1>2. ASSUME NEW c \in a .. b - 1, c \in P
      PROVE  c + 1 \in P
  <2>1. PICK f \in [a .. c -> D] : Computes(f, a, c, base, step)
    BY <1>2
  <2> DEFINE g == [i \in a .. c + 1 |-> IF i = c + 1 THEN step[<<c + 1, f[c]>>] ELSE f[i]]
  <2>2. c \in Int /\ c + 1 \in a + 1 .. b /\ c \in a .. c /\ f[c] \in D
    OBVIOUS
  <2>3. step[<<c + 1, f[c]>>] \in D
    BY <2>2
  <2>4. g \in [a .. c + 1 -> D]
    <3>1. \A i \in a .. c + 1 : i # c + 1 => i \in a .. c
      BY <2>2
    <3> QED BY <2>3, <3>1
  <2>5. ASSUME NEW i \in a .. c + 1
        PROVE  g[i] = IF i = a THEN base ELSE step[<<i, g[i - 1]>>]
    <3>1. CASE i = c + 1
      <4>1. i # a /\ i - 1 = c /\ c # c + 1 /\ c \in a .. c + 1
        BY <2>2, <3>1
      <4>2. g[c] = f[c]
        BY <4>1
      <4> QED BY <3>1, <4>1, <4>2
    <3>2. CASE i # c + 1
      <4>1. i \in a .. c /\ (i # a => i - 1 \in a .. c /\ i - 1 # c + 1)
        BY <2>2, <3>2
      <4>2. f[i] = IF i = a THEN base ELSE step[<<i, f[i - 1]>>]
        BY <2>1, <4>1 DEF Computes
      <4>3. g[i] = f[i] /\ (i # a => g[i - 1] = f[i - 1])
        BY <3>2, <4>1, <2>2
      <4> QED BY <4>2, <4>3
    <3> QED BY <3>1, <3>2
  <2>6. Computes(g, a, c + 1, base, step)
    <3> DEFINE h == [i \in a .. c + 1 |-> IF i = a THEN base ELSE step[<<i, g[i - 1]>>]]
    <3> HIDE DEF g
    <3>1. \A i \in a .. c + 1 : g[i] = h[i]
      BY <2>5
    <3>2. g = h
      BY <2>4, <3>1
    <3> QED BY <3>2 DEF Computes
  <2> HIDE DEF g
  <2>7. c + 1 \in a .. b
    BY <2>2
  <2> QED BY <2>4, <2>6, <2>7
<1> HIDE DEF P
<1>3. a .. b \subseteq P
  BY <1>1, <1>2, Upwards
<1>4. b \in P
  BY <1>3
<1> QED
  BY <1>4 DEF P

(* A recursive definition on the integers from a to b has its values in D, *)
(* and its equations hold, if its step stays in D.                         *)
LEMMA RecursionType ==
  ASSUME NEW D, NEW a \in Int, NEW b \in Int, NEW base \in D,
         NEW step \in [(a + 1 .. b) \X D -> D], NEW f, Computes(f, a, b, base, step)
  PROVE  /\ f \in [a .. b -> D]
         /\ a <= b => f[a] = base
         /\ \A i \in a + 1 .. b : f[i] = step[<<i, f[i - 1]>>]
<1> DEFINE P == {i \in a .. b : f[i] \in D}
<1>1. \A i \in a .. b : f[i] = IF i = a THEN base ELSE step[<<i, f[i - 1]>>]
  BY DEF Computes
<1>2. a <= b => a \in P
  <2>1. a <= b => a \in a .. b
    OBVIOUS
  <2>2. a <= b => f[a] = base
    BY <1>1, <2>1
  <2> QED BY <2>1, <2>2
<1>3. ASSUME NEW i \in a .. b - 1, i \in P
      PROVE  i + 1 \in P
  <2>1. f[i] \in D
    BY <1>3
  <2>2. i + 1 \in a + 1 .. b /\ i + 1 \in a .. b /\ i + 1 # a /\ (i + 1) - 1 = i
    OBVIOUS
  <2>3. f[i + 1] = step[<<i + 1, f[i]>>]
    BY <1>1, <2>2
  <2>4. step[<<i + 1, f[i]>>] \in D
    BY <2>1, <2>2
  <2> QED BY <2>2, <2>3, <2>4
<1>4. a <= b => a .. b \subseteq P
  <2> HIDE DEF P
  <2> QED BY <1>2, <1>3, Upwards
<1>5. \A i \in a .. b : f[i] \in D
  BY <1>4
<1>6. f = [i \in a .. b |-> f[i]]
  BY DEF Computes
<1>7. \A i \in a + 1 .. b : i \in a .. b /\ i # a
  OBVIOUS
<1>8. a <= b => a \in a .. b
  OBVIOUS
<1> QED BY <1>1, <1>5, <1>6, <1>7, <1>8

(* Two recursive functions, step by step *)
Alike(f, g, a, b) == /\ a <= b => f[a] = g[a]
                     /\ \A i \in a + 1 .. b : f[i - 1] = g[i - 1] => f[i] = g[i]
Agree(f, g, a, b) == \A i \in a .. b : f[i] = g[i]

(* Two of them agree as far as their steps do. *)
LEMMA AlikeAgree ==
  ASSUME NEW a \in Int, NEW b \in Int, NEW f, NEW g, Alike(f, g, a, b)
  PROVE  Agree(f, g, a, b)
<1> DEFINE P == {i \in a .. b : f[i] = g[i]}
<1>1. a <= b => a \in P
  <2>1. a <= b => f[a] = g[a] /\ a \in a .. b
    BY DEF Alike
  <2> QED BY <2>1
<1>2. ASSUME NEW i \in a .. b - 1, i \in P
      PROVE  i + 1 \in P
  <2>1. i + 1 \in a + 1 .. b /\ i + 1 \in a .. b /\ (i + 1) - 1 = i
    OBVIOUS
  <2>2. f[(i + 1) - 1] = g[(i + 1) - 1] => f[i + 1] = g[i + 1]
    BY <2>1 DEF Alike
  <2> QED BY <1>2, <2>1, <2>2
<1>3. a <= b => a .. b \subseteq P
  <2> HIDE DEF P
  <2> QED BY <1>1, <1>2, Upwards
<1> QED BY <1>3 DEF Agree

(* The least and the greatest of some numbers *)
LEMMA MinIs ==
  ASSUME NEW T, T \subseteq Nat, T # {}
  PROVE  Min(T) \in T /\ \A x \in T : Min(T) <= x
<1>1. PICK d \in T : \A e \in T : ~(e < d)
  BY LeastNumber
<1>2. \A e \in T : d <= e
  BY <1>1
<1> QED BY <1>2 DEF Min

(* Max of a nonempty set of integers with an upper bound is a member, and  *)
(* none is greater.                                                        *)
LEMMA MaxIs ==
  ASSUME NEW T, T \subseteq Int, T # {}, NEW b \in Int, \A x \in T : x <= b
  PROVE  Max(T) \in T /\ \A x \in T : x <= Max(T)
<1> DEFINE U == {b - x : x \in T}
<1>1. U \subseteq Nat /\ U # {}
  <2>1. \A x \in T : b - x \in Nat
    OBVIOUS
  <2>2. PICK y \in T : TRUE
    OBVIOUS
  <2>3. b - y \in U
    OBVIOUS
  <2> QED BY <2>1, <2>3
<1>2. PICK d \in U : \A e \in U : ~(e < d)
  <2> HIDE DEF U
  <2> QED BY <1>1, LeastNumber
<1>3. PICK m \in T : d = b - m
  OBVIOUS
<1>4. \A x \in T : m >= x
  <2> TAKE x \in T
  <2>1. b - x \in U
    OBVIOUS
  <2>2. ~(b - x < b - m)
    BY <1>2, <1>3, <2>1
  <2> QED BY <2>2
<1> QED BY <1>4 DEF Max

(* A member that none exceeds is the Max of its set. *)
LEMMA MaxUnique ==
  ASSUME NEW T, T \subseteq Int, NEW m \in T, \A x \in T : x <= m
  PROVE  Max(T) = m
<1>1. \A x \in T : m >= x
  OBVIOUS
<1>2. Max(T) \in T /\ \A x \in T : Max(T) >= x
  BY <1>1 DEF Max
<1>3. Max(T) >= m /\ m >= Max(T) /\ m \in Int /\ Max(T) \in Int
  BY <1>1, <1>2
<1> QED BY <1>3

-----------------------------------------------------------------------------
(* Places in a text *)
LEMMA RunToIs ==
  ASSUME NEW S, NEW t \in Seq(S), NEW i \in 1 .. Len(t) + 1, NEW C
  PROVE  /\ RunTo(t, i, C) \in i - 1 .. Len(t)
         /\ i <= Len(t) /\ t[i] \in C => RunTo(t, i, C) >= i
<1> DEFINE T == {i - 1} \cup {j \in i .. Len(t) : \A n \in i .. j : t[n] \in C}
<1>1. Len(t) \in Nat /\ T \subseteq i - 1 .. Len(t) /\ i - 1 \in T
  OBVIOUS
<1>2. i <= Len(t) /\ t[i] \in C => i \in T
  <2>1. \A n \in i .. i : n = i
    OBVIOUS
  <2> QED BY <1>1, <2>1
<1>3. RunTo(t, i, C) = Max(T)
  BY DEF RunTo
<1> HIDE DEF T
<1>4. Max(T) \in T /\ \A x \in T : x <= Max(T)
  <2>1. T \subseteq Int /\ T # {} /\ (\A x \in T : x <= Len(t)) /\ Len(t) \in Int
    BY <1>1
  <2> QED BY <2>1, MaxIs
<1> QED BY <1>1, <1>2, <1>3, <1>4

(* A place found is one that has room for the word; if the word is at a    *)
(* place from i on, one is found.                                          *)
LEMMA FindIs ==
  ASSUME NEW S, NEW t \in Seq(S), NEW i \in Nat \ {0}, NEW word, Len(word) \in Nat
  PROVE  /\ Find(t, i, word) \in Nat
         /\ Find(t, i, word) # 0 =>
              Find(t, i, word) \in i .. Len(t) + 1 - Len(word)
         /\ \A j \in i .. Len(t) + 1 - Len(word) :
              At(t, j, word) => Find(t, i, word) # 0
<1> DEFINE found == {j \in i .. Len(t) + 1 - Len(word) : At(t, j, word)}
<1>1. Len(t) \in Nat /\ found \subseteq i .. Len(t) + 1 - Len(word) /\ found \subseteq Nat
  OBVIOUS
<1>2. Find(t, i, word) = IF found = {} THEN 0 ELSE Min(found)
  BY DEF Find
<1>3. found # {} => Min(found) \in found
  <2> HIDE DEF found
  <2> QED BY <1>1, MinIs
<1>4. CASE found = {}
  <2>1. Find(t, i, word) = 0
    BY <1>2, <1>4
  <2>2. \A j \in i .. Len(t) + 1 - Len(word) : ~At(t, j, word)
    BY <1>4
  <2> QED BY <2>1, <2>2
<1>5. CASE found # {}
  <2>1. Find(t, i, word) \in i .. Len(t) + 1 - Len(word)
    <3> HIDE DEF found
    <3> QED BY <1>1, <1>2, <1>3, <1>5
  <2>2. Find(t, i, word) # 0
    BY <2>1, <1>1
  <2> HIDE DEF found
  <2> QED BY <2>1, <2>2, <1>1
<1> QED BY <1>4, <1>5

(* The same for words of a known length. *)
LEMMA FindWord ==
  ASSUME NEW S, NEW t \in Seq(S), NEW i \in Nat \ {0}, NEW word, NEW n \in Nat \ {0},
         Len(word) = n
  PROVE  /\ Find(t, i, word) \in Nat
         /\ Find(t, i, word) # 0 =>
              /\ Find(t, i, word) >= i
              /\ Find(t, i, word) + n <= Len(t) + 1
<1>1. Find(t, i, word) \in Nat
      /\ (Find(t, i, word) # 0 => Find(t, i, word) \in i .. Len(t) + 1 - Len(word))
  BY FindIs
<1> QED BY <1>1, LenProperties

(* Until stays within the text. *)
LEMMA UntilIs ==
  ASSUME NEW S, NEW t \in Seq(S), NEW i \in Nat \ {0}, NEW word, Len(word) \in Nat
  PROVE  Until(t, i, word) \in 0 .. Len(t)
<1>1. Len(t) \in Nat
  OBVIOUS
<1>2. Find(t, i, word) \in Nat
      /\ (Find(t, i, word) # 0 => Find(t, i, word) \in i .. Len(t) + 1 - Len(word))
  BY FindIs
<1> QED BY <1>1, <1>2 DEF Until

(* What stands in a text is found in it. *)
LEMMA IndexOfPart ==
  ASSUME NEW S, NEW t \in Seq(S), NEW i \in Nat \ {0}, NEW n \in Nat, i + n - 1 <= Len(t)
  PROVE  IndexOf(t, SubSeq(t, i, i + n - 1)) \in 0 .. Len(t) - n
<1> DEFINE word == SubSeq(t, i, i + n - 1)
<1>1. Len(t) \in Nat
  OBVIOUS
<1>2. Len(word) = n
  <2>1. CASE n = 0
    BY <2>1, <1>1, SubSeqProperties
  <2>2. CASE n # 0
    BY <2>2, <1>1, SubSeqProperties
  <2> QED BY <2>1, <2>2
<1>3. At(t, i, word)
  BY <1>2 DEF At
<1> HIDE DEF word
<1>4. i \in 1 .. Len(t) + 1 - Len(word)
  BY <1>1, <1>2
<1>5. Find(t, 1, word) # 0 /\ Find(t, 1, word) \in 1 .. Len(t) + 1 - Len(word)
  BY <1>2, <1>3, <1>4, FindIs
<1> QED BY <1>1, <1>2, <1>5 DEF IndexOf, word

(* A regex literal ends in the text, and has a character between its       *)
(* slashes.                                                                *)
LEMMA LiteralIs ==
  ASSUME NEW S, NEW t \in Seq(S), NEW i \in Nat \ {0}
  PROVE  /\ Literal(t, i) \in 0 .. Len(t)
         /\ Literal(t, i) # 0 => Literal(t, i) >= i + 2
<1>1. Len(t) \in Nat /\ Len(<<"/">>) = 1 /\ i + 2 \in Nat \ {0} /\ 1 \in Nat \ {0}
  OBVIOUS
<1>2. /\ Find(t, i + 2, <<"/">>) \in Nat
      /\ Find(t, i + 2, <<"/">>) # 0 =>
           /\ Find(t, i + 2, <<"/">>) >= i + 2
           /\ Find(t, i + 2, <<"/">>) + 1 <= Len(t) + 1
  BY <1>1, FindWord, Zenon
<1> QED BY <1>1, <1>2 DEF Literal

(* The place of a regex literal is one where a literal is, if there is any. *)
LEMMA LiteralPlaceIs ==
  ASSUME NEW S, NEW t \in Seq(S), t # <<>>, NEW start \in BOOLEAN
  PROVE  LiteralPlace(t, start) \in Nat
<1> DEFINE before == {p \in Preceders : At(t, 1, p)} \cup (IF start THEN {<<>>} ELSE {})
           behind(p) == RunTo(t, Len(p) + 1, White) + 1
           places == {i \in {behind(p) : p \in before} : Literal(t, i) # 0}
<1>1. Len(t) \in Nat
  OBVIOUS
<1>2. \A p \in Preceders : Len(p) \in Nat
  BY DEF Preceders
<1>3. \A p \in before : Len(p) + 1 \in 1 .. Len(t) + 1
  <2>1. \A p \in Preceders : At(t, 1, p) => Len(p) <= Len(t)
    BY <1>1, <1>2 DEF At
  <2>2. Len(<<>>) = 0
    OBVIOUS
  <2> QED BY <1>1, <1>2, <2>1, <2>2
<1>4. \A p \in before : behind(p) \in Nat
  <2> SUFFICES ASSUME NEW p \in before PROVE behind(p) \in Nat
    OBVIOUS
  <2> DEFINE k == Len(p) + 1
  <2>1. k \in 1 .. Len(t) + 1
    BY <1>3
  <2> HIDE DEF k
  <2>2. RunTo(t, k, White) \in k - 1 .. Len(t)
    BY <2>1, RunToIs
  <2>3. RunTo(t, k, White) + 1 \in Nat
    BY <1>1, <2>1, <2>2
  <2> QED BY <2>3 DEF k
<1>5. LiteralPlace(t, start) = IF places = {} THEN 0 ELSE Min(places)
  BY Zenon DEF LiteralPlace
<1> HIDE DEF before, behind
<1>6. places \subseteq Nat
  BY <1>4
<1> HIDE DEF places
<1>7. places # {} => Min(places) \in Nat
  BY <1>6, MinIs
<1> QED BY <1>5, <1>7

(* An end tag that is there comes behind a ">". *)
LEMMA EndTagIs ==
  ASSUME NEW S, NEW t \in Seq(S), NEW name, EndTag(t, name) # 0
  PROVE  /\ Find(t, 3, <<">">>) \in 3 .. Len(t)
         /\ EndTag(t, name) \in Find(t, 3, <<">">>) + 1 .. Len(t)
<1>1. Len(t) \in Nat /\ Len(<<">">>) = 1
  OBVIOUS
<1> DEFINE i == Find(t, 3, <<">">>)
           ends == {j \in i + 1 .. Len(t) - 3 : At(t, j, <<"<", "/", name>>) /\ t[j + 3] \notin Word}
<1>2. i # 0 /\ ends # {} /\ EndTag(t, name) = Min(ends)
  BY DEF EndTag
<1>3. i \in 3 .. Len(t)
  <2>1. i \in Nat /\ (i # 0 => i >= 3 /\ i + 1 <= Len(t) + 1)
    <3>1. 1 \in Nat \ {0} /\ 3 \in Nat \ {0}
      OBVIOUS
    <3> QED BY <1>1, <3>1, FindWord, Zenon
  <2> QED BY <1>1, <1>2, <2>1
<1> HIDE DEF i
<1>4. ends \subseteq i + 1 .. Len(t) /\ ends \subseteq Nat
  BY <1>1, <1>3
<1> HIDE DEF ends
<1>5. Min(ends) \in ends
  BY <1>2, <1>4, MinIs
<1> QED BY <1>2, <1>3, <1>4, <1>5 DEF i

(* An element ends in the text, with the first ">" from its end tag on. *)
LEMMA ElementIs ==
  ASSUME NEW S, NEW t \in Seq(S), NEW name
  PROVE  /\ Element(t, name) \in 0 .. Len(t)
         /\ Element(t, name) # 0 =>
              /\ EndTag(t, name) # 0
              /\ Element(t, name) = Find(t, EndTag(t, name), <<">">>)
              /\ Element(t, name) \in EndTag(t, name) .. Len(t)
<1>1. Len(t) \in Nat /\ Len(<<">">>) = 1
  OBVIOUS
<1>2. CASE EndTag(t, name) = 0
  BY <1>1, <1>2 DEF Element
<1>3. CASE EndTag(t, name) # 0
  <2>1. EndTag(t, name) \in Nat \ {0}
    BY <1>1, <1>3, EndTagIs
  <2>2. Element(t, name) = Find(t, EndTag(t, name), <<">">>)
    BY <1>3 DEF Element
  <2>3. Element(t, name) \in Nat
        /\ (Element(t, name) # 0 => Element(t, name) \in EndTag(t, name) .. Len(t) + 1 - 1)
    BY <1>1, <2>1, <2>2, FindIs
  <2> QED BY <1>1, <1>3, <2>1, <2>2, <2>3
<1> QED BY <1>2, <1>3

(* The value of an attribute has a character at least, and ends in the     *)
(* text.                                                                   *)
LEMMA ValueIs ==
  ASSUME NEW S, NEW t \in Seq(S), NEW i \in 1 .. Len(t) + 1
  PROVE  Value(t, i) # 0 => Value(t, i) \in i + 1 .. Len(t) + 1
<1>1. Len(t) \in Nat
  OBVIOUS
<1> DEFINE eq == RunTo(t, i, White) + 1
<1>2. eq \in i .. Len(t) + 1
  BY <1>1, RunToIs
<1>3. Value(t, i) = IF eq <= Len(t) /\ t[eq] = "=" THEN RunTo(t, eq + 1, White) + 1 ELSE 0
  BY DEF Value
<1> HIDE DEF eq
<1>4. eq <= Len(t) => RunTo(t, eq + 1, White) \in eq .. Len(t)
  <2> SUFFICES ASSUME eq <= Len(t) PROVE RunTo(t, eq + 1, White) \in eq .. Len(t)
    OBVIOUS
  <2>1. eq + 1 \in 1 .. Len(t) + 1
    BY <1>1, <1>2
  <2> DEFINE next == eq + 1
  <2>2. next - 1 = eq
    BY <1>2
  <2> HIDE DEF next
  <2>3. RunTo(t, next, White) \in next - 1 .. Len(t)
    <3>1. next \in 1 .. Len(t) + 1
      BY <2>1 DEF next
    <3> QED BY <3>1, RunToIs
  <2> QED BY <2>2, <2>3 DEF next
<1> QED BY <1>1, <1>2, <1>3, <1>4

(* The value of an attribute, within its quotes if it has some, is not     *)
(* empty.                                                                  *)
LEMMA ValueEndIs ==
  ASSUME NEW S, NEW t \in Seq(S), NEW i \in Nat
  PROVE  /\ ValueEnd(t, i) \in 0 .. Len(t)
         /\ ValueEnd(t, i) # 0 =>
              /\ i \in 1 .. Len(t)
              /\ ValueEnd(t, i) >= IF t[i] \in Quote THEN i + 2 ELSE i
<1>1. Len(t) \in Nat
  OBVIOUS
<1>2. CASE i = 0 \/ i > Len(t)
  BY <1>1, <1>2 DEF ValueEnd
<1>3. CASE i \in 1 .. Len(t) /\ t[i] \in Quote
  <2>1. Len(<<t[i]>>) = 1
    OBVIOUS
  <2>2. /\ Find(t, i + 1, <<t[i]>>) \in Nat
        /\ Find(t, i + 1, <<t[i]>>) # 0 =>
             /\ Find(t, i + 1, <<t[i]>>) >= i + 1
             /\ Find(t, i + 1, <<t[i]>>) + 1 <= Len(t) + 1
    <3>1. i + 1 \in Nat \ {0} /\ 1 \in Nat \ {0}
      OBVIOUS
    <3> QED BY <2>1, <3>1, FindWord, Zenon
  <2>3. ValueEnd(t, i) = IF Find(t, i + 1, <<t[i]>>) > i + 1
                         THEN Find(t, i + 1, <<t[i]>>) ELSE 0
    BY <1>1, <1>3 DEF ValueEnd
  <2> QED BY <1>1, <1>3, <2>2, <2>3
<1>4. CASE i \in 1 .. Len(t) /\ t[i] \notin Quote
  <2> DEFINE end == RunTo(t, i, Char \ (White \cup Quote \cup {">"}))
  <2>1. end \in i - 1 .. Len(t)
    BY <1>1, <1>4, RunToIs
  <2>2. ValueEnd(t, i) = IF end >= i THEN end ELSE 0
    BY <1>1, <1>4 DEF ValueEnd
  <2> HIDE DEF end
  <2> QED BY <1>1, <1>4, <2>1, <2>2
<1> QED BY <1>1, <1>2, <1>3, <1>4

(* An attribute without quotes ends in the text, not before its value      *)
(* does.                                                                   *)
LEMMA UnquotedIs ==
  ASSUME NEW S, NEW t \in Seq(S), t # <<>>
  PROVE  /\ Unquoted(t) \in 0 .. Len(t)
         /\ Unquoted(t) # 0 => Value(t, 1) # 0 /\ Unquoted(t) >= Value(t, 1)
<1>1. Len(t) \in Nat /\ Len(t) >= 1
  OBVIOUS
<1> DEFINE i == Value(t, 1)
           end == RunTo(t, i, Char \ (White \cup Quote \cup {">"}))
           T == {i - 1} \cup {j \in i .. end : t[j] # "/"}
           last == IF end < Len(t) /\ t[end + 1] \in White THEN end ELSE Max(T)
<1>2. Unquoted(t) = IF i = 0 \/ last < i THEN 0 ELSE last
  BY DEF Unquoted
<1>3. CASE i = 0
  <2> HIDE DEF i, last
  <2> QED BY <1>1, <1>2, <1>3
<1>4. CASE i # 0
  <2>1. i \in 2 .. Len(t) + 1
    BY <1>1, <1>4, ValueIs
  <2>2. end \in i - 1 .. Len(t)
    BY <1>1, <2>1, RunToIs
  <2> HIDE DEF end, i
  <2>3. T \subseteq Int /\ T # {} /\ \A x \in T : x <= end
    BY <1>1, <2>1, <2>2
  <2>4. end \in Int
    BY <1>1, <2>1, <2>2
  <2>5. Max(T) \in T
    <3> HIDE DEF T
    <3> QED BY <2>3, <2>4, MaxIs
  <2>6. Max(T) \in Int /\ Max(T) <= end
    BY <2>3, <2>5
  <2>7. last \in Int /\ last <= Len(t)
    <3> HIDE DEF T
    <3> QED BY <1>1, <2>1, <2>2, <2>6
  <2> HIDE DEF last
  <2> QED BY <1>1, <1>2, <1>4, <2>1, <2>7 DEF i
<1> QED BY <1>3, <1>4

-----------------------------------------------------------------------------
(* The rules *)
Rule == {"space", "string", "multiLine", "tripleQuoted", "verbatim", "hash", "include", "lineComment",
         "blockComment", "regexp", "keyword", "annotation", "type", "word", "number",
         "punctuation", "text", "instruction", "delimiter", "script", "style", "tag",
         "attribValue", "tagName", "attribName", "unquoted", "tagPunctuation",
         "onAttribute", "styleAttribute", "atv", "str"}
Nesting == {"regexp", "instruction", "script", "style", "tag", "unquoted",
            "onAttribute", "styleAttribute"}

(* A rule has a style, or its token is decorated in parts. *)
LEMMA RuleStyles ==
  /\ DOMAIN Embedded = Nesting /\ Nesting \subseteq Rule
  /\ \A r \in (Rule \cup {"none"}) \ Nesting : r \in DOMAIN Style
BY DEF Embedded, Style, Nesting, Rule

(* A string ends in the text. *)
LEMMA QuotedIs ==
  ASSUME NEW S, NEW t \in Seq(S), t # <<>>, NEW quotes, NEW multiLine
  PROVE  Quoted(t, quotes, multiLine) \in 0 .. Len(t)
<1>1. Len(t) \in Nat /\ Len(<<t[1]>>) \in Nat /\ 2 \in Nat \ {0}
  OBVIOUS
<1>2. Until(t, 2, <<t[1]>>) \in 0 .. Len(t)
  BY <1>1, UntilIs
<1>3. Quoted(t, quotes, multiLine) \in {0, Until(t, 2, <<t[1]>>)}
  BY DEF Quoted
<1> QED BY <1>1, <1>2, <1>3

(* A string between three quotes ends in the text. *)
LEMMA TripleQuotedIs ==
  ASSUME NEW S, NEW t \in Seq(S), t # <<>>
  PROVE  TripleQuoted(t) \in 0 .. Len(t)
<1> DEFINE three == <<t[1], t[1], t[1]>>
<1>1. Len(three) \in Nat /\ 4 \in Nat \ {0}
  OBVIOUS
<1>2. TripleQuoted(t) \in {Until(t, 4, three), Quoted(t, Quote, TRUE)}
  BY DEF TripleQuoted
<1> HIDE DEF three
<1>3. Until(t, 4, three) \in 0 .. Len(t)
  BY <1>1, UntilIs
<1>4. Quoted(t, Quote, TRUE) \in 0 .. Len(t)
  BY QuotedIs
<1> QED BY <1>2, <1>3, <1>4

(* A verbatim string ends in the text. *)
LEMMA VerbatimIs ==
  ASSUME NEW S, NEW t \in Seq(S)
  PROVE  Verbatim(t) \in 0 .. Len(t)
<1> DEFINE ends == {j \in 3 .. Len(t) : \E i \in 3 .. j :
                      /\ i = 3 \/ t[i - 1] # "\""
                      /\ j = RunTo(t, i, {"\""}) /\ (j - i) % 2 = 0}
<1>1. Len(t) \in Nat
  OBVIOUS
<1>2. Verbatim(t) \in {0, Len(t)} \/ (ends # {} /\ Verbatim(t) = Min(ends))
  BY Zenon DEF Verbatim
<1>3. ends \subseteq 3 .. Len(t)
  OBVIOUS
<1> HIDE DEF ends
<1>4. ends \subseteq Nat
  BY <1>1, <1>3
<1>5. ends # {} => Min(ends) \in 0 .. Len(t)
  <2>1. ends # {} => Min(ends) \in ends
    BY <1>4, MinIs
  <2>2. 3 .. Len(t) \subseteq 0 .. Len(t)
    BY <1>1
  <2> QED BY <1>3, <2>1, <2>2, Zenon
<1>6. 0 \in 0 .. Len(t) /\ Len(t) \in 0 .. Len(t)
  BY <1>1
<1> QED BY <1>2, <1>5, <1>6, Zenon

(* No rule matches more than there is. *)
LEMMA LengthFits ==
  ASSUME NEW t \in Seq(Char), t # <<>>, NEW rule \in Rule, NEW where
  PROVE  Length(rule, t, where) \in 0 .. Len(t)
<1>1. Len(t) \in Nat /\ Len(t) >= 1 /\ 0 \in 0 .. Len(t) /\ 1 \in 0 .. Len(t)
      /\ Len(t) \in 0 .. Len(t) /\ 2 \in 1 .. Len(t) + 1 /\ 1 \in 1 .. Len(t) + 1
  OBVIOUS
<1>2. \A C : RunTo(t, 1, C) \in 0 .. Len(t)
  <2> TAKE C
  <2>1. RunTo(t, 1, C) \in 1 - 1 .. Len(t)
    BY <1>1, RunToIs
  <2> QED BY <2>1
<1>3. \A C : RunTo(t, 2, C) \in 1 .. Len(t)
  <2> TAKE C
  <2>1. RunTo(t, 2, C) \in 2 - 1 .. Len(t)
    BY <1>1, RunToIs
  <2> QED BY <2>1
<1>4. \A i \in Nat \ {0} : \A word : Len(word) \in Nat => Until(t, i, word) \in 0 .. Len(t)
  BY UntilIs
<1>5. {1, 2, 3, 4} \subseteq Nat \ {0}
  OBVIOUS
<1>6. /\ Len(<<"*", "/">>) \in Nat /\ Len(<<"?", ">">>) \in Nat
      /\ Len(<<t[1]>>) \in Nat
  OBVIOUS
<1> DEFINE L == Length(rule, t, where)
<1>a. CASE rule = "space"
  <2>1. L = RunTo(t, 1, White)
    BY <1>a DEF Length
  <2> QED BY <1>2, <2>1
<1>b. CASE rule = "string"
  <2>1. L = Quoted(t, Quote, FALSE)
    BY <1>b DEF Length
  <2> QED BY <2>1, QuotedIs
<1>c. CASE rule = "multiLine"
  <2>1. L = Quoted(t, Quote \cup {"bq"}, TRUE)
    BY <1>c DEF Length
  <2> QED BY <2>1, QuotedIs
<1>d. CASE rule = "verbatim"
  <2>1. L = Verbatim(t)
    BY <1>d DEF Length
  <2> QED BY <2>1, VerbatimIs
<1>10. CASE rule = "tripleQuoted"
  <2>1. L = TripleQuoted(t)
    BY <1>10 DEF Length
  <2> QED BY <2>1, TripleQuotedIs
<1>e. CASE rule = "hash"
  <2>1. L \in {0, RunTo(t, 1, Char \ {"\n"})}
    BY <1>e DEF Length, Line
  <2> QED BY <1>1, <1>2, <2>1
<1>f. CASE rule = "include"
  <2> DEFINE end == RunTo(t, 2, Word) + 1
  <2>1. L \in {0, end} /\ (L # 0 => At(t, end, <<">">>))
    BY <1>f DEF Length
  <2>2. L # 0 => end + 1 - 1 <= Len(t) /\ end \in Nat
    BY <1>3, <2>1 DEF At
  <2> HIDE DEF end
  <2> QED BY <1>1, <2>1, <2>2
<1>g. CASE rule = "lineComment"
  <2>1. L \in {0, RunTo(t, 1, Char \ {"\n"})}
    BY <1>g DEF Length, Line
  <2> QED BY <1>1, <1>2, <2>1
<1>h. CASE rule = "blockComment"
  <2>1. L \in {0, Until(t, 3, <<"*", "/">>)}
    BY <1>h DEF Length
  <2> QED BY <1>1, <1>4, <1>5, <1>6, <2>1
<1>i. CASE rule = "regexp"
  <2> DEFINE i == LiteralPlace(t, where # "later")
  <2>1. L = IF i = 0 THEN 0 ELSE Literal(t, i)
    BY <1>i DEF Length
  <2>2. i \in Nat
    BY LiteralPlaceIs
  <2> HIDE DEF i
  <2>3. i # 0 => Literal(t, i) \in 0 .. Len(t)
    BY <2>2, LiteralIs
  <2> QED BY <1>1, <2>1, <2>3
<1>j. CASE rule = "keyword"
  <2>1. L \in {0, 1}
    BY <1>j DEF Length
  <2> QED BY <1>1, <2>1
<1>k. CASE rule = "annotation"
  <2>1. L \in {0, RunTo(t, 1, Word \cup {"@"})}
    BY <1>k DEF Length
  <2> QED BY <1>1, <1>2, <2>1
<1>l. CASE rule = "type"
  <2>1. L \in {0, RunTo(t, 1, Word \cup {"@"})}
    BY <1>l DEF Length
  <2> QED BY <1>1, <1>2, <2>1
<1>m. CASE rule = "word"
  <2>1. L \in {0, RunTo(t, 1, Word \cup {"@"})}
    BY <1>m DEF Length
  <2> QED BY <1>1, <1>2, <2>1
<1>n. CASE rule = "number"
  <2> DEFINE next == RunTo(t, 1, {"1"}) + 1
  <2>1. L \in {0, RunTo(t, next, Letter)}
    BY <1>n DEF Length
  <2>2. RunTo(t, 1, {"1"}) \in 0 .. Len(t)
    BY <1>2
  <2>3. next \in 1 .. Len(t) + 1
    BY <1>1, <2>2
  <2> HIDE DEF next
  <2>4. RunTo(t, next, Letter) \in next - 1 .. Len(t)
    BY <2>3, RunToIs
  <2>5. RunTo(t, next, Letter) \in 0 .. Len(t)
    BY <1>1, <2>3, <2>4
  <2> QED BY <1>1, <2>1, <2>5
<1>o. CASE rule = "punctuation"
  <2>1. L \in {0, RunTo(t, 2, {"*", "<", ">", "&", "=", "?"})}
    BY <1>o DEF Length
  <2>2. RunTo(t, 2, {"*", "<", ">", "&", "=", "?"}) \in 1 .. Len(t)
    BY <1>3
  <2> QED BY <1>1, <2>1, <2>2
<1>p. CASE rule = "text"
  <2>1. L = RunTo(t, 1, Char \ {"<", "?"})
    BY <1>p DEF Length
  <2> QED BY <1>2, <2>1
<1>q. CASE rule = "instruction"
  <2>1. L \in {0, Until(t, 4, <<"?", ">">>)}
    BY <1>q DEF Length
  <2> QED BY <1>1, <1>4, <1>5, <1>6, <2>1
<1>r. CASE rule = "delimiter"
  <2>1. L \in {0, 2} /\ (L # 0 => At(t, 1, <<"<", "?">>) \/ At(t, 1, <<"?", ">">>))
    BY <1>r DEF Length
  <2>2. L # 0 => 2 <= Len(t)
    <3>1. \A x, y : At(t, 1, <<x, y>>) => 1 + 2 - 1 <= Len(t)
      BY DEF At
    <3> QED BY <1>1, <2>1, <3>1
  <2> QED BY <1>1, <2>1, <2>2
<1>s. CASE rule = "script"
  <2>1. L = Element(t, "S")
    BY <1>s DEF Length
  <2> QED BY <2>1, ElementIs
<1>t. CASE rule = "style"
  <2>1. L = Element(t, "Y")
    BY <1>t DEF Length
  <2> QED BY <2>1, ElementIs
<1>u. CASE rule = "tag"
  <2> DEFINE end == RunTo(t, 2, Char \ {"<", ">"}) + 1
  <2>1. L \in {0, end} /\ (L # 0 => At(t, end, <<">">>))
    BY <1>u DEF Length
  <2>2. L # 0 => end + 1 - 1 <= Len(t) /\ end \in Nat
    BY <1>3, <2>1 DEF At
  <2> HIDE DEF end
  <2> QED BY <1>1, <2>1, <2>2
<1>v. CASE rule = "attribValue"
  <2>1. L \in {0, Until(t, 2, <<t[1]>>)}
    BY <1>v DEF Length
  <2> QED BY <1>1, <1>4, <1>5, <1>6, <2>1
<1>w. CASE rule = "tagName"
  <2> DEFINE name == IF At(t, 1, <<"<", "/">>) THEN 3 ELSE 2
  <2>1. \/ L = RunTo(t, name, Word) /\ name <= Len(t)
        \/ L \in {0, Len(t)}
    BY <1>w DEF Length
  <2>2. name <= Len(t) => RunTo(t, name, Word) \in name - 1 .. Len(t)
    <3>1. name \in {2, 3}
      OBVIOUS
    <3> HIDE DEF name
    <3>2. name <= Len(t) => name \in 1 .. Len(t) + 1
      BY <1>1, <3>1
    <3> QED BY <3>2, RunToIs
  <2>3. name \in {2, 3}
    OBVIOUS
  <2> HIDE DEF name
  <2>4. name <= Len(t) => RunTo(t, name, Word) \in 0 .. Len(t)
    BY <1>1, <2>2, <2>3
  <2> QED BY <1>1, <2>1, <2>4
<1>x. CASE rule = "attribName"
  <2>1. L \in {0, RunTo(t, 1, Word)}
    BY <1>x DEF Length
  <2> QED BY <1>1, <1>2, <2>1
<1>y. CASE rule = "unquoted"
  <2>1. L = Unquoted(t)
    BY <1>y DEF Length
  <2> QED BY <2>1, UnquotedIs
<1>z. CASE rule = "tagPunctuation"
  <2>1. L = RunTo(t, 1, {"=", "<", ">", "/"})
    BY <1>z DEF Length
  <2> QED BY <1>2, <2>1
<1>7. \A name : Attribute(t, name) \in 0 .. Len(t)
  <2> TAKE name
  <2> DEFINE next == RunTo(t, 1, Word) + 1
             i == Value(t, next)
  <2>1. Attribute(t, name) \in {0, ValueEnd(t, i)}
    BY DEF Attribute
  <2>2. RunTo(t, 1, Word) \in 0 .. Len(t)
    BY <1>2
  <2>3. next \in 1 .. Len(t) + 1
    BY <1>1, <2>2
  <2> HIDE DEF next
  <2>4. i # 0 => i \in next + 1 .. Len(t) + 1
    BY <2>3, ValueIs
  <2> HIDE DEF i
  <2>5. i \in Nat
    BY <1>1, <2>3, <2>4
  <2>6. ValueEnd(t, i) \in 0 .. Len(t)
    BY <2>5, ValueEndIs
  <2> QED BY <1>1, <2>1, <2>6
<1>8. CASE rule \in {"onAttribute", "styleAttribute"}
  <2>1. L \in {Attribute(t, "O"), Attribute(t, "Y")}
    BY <1>8 DEF Length
  <2> QED BY <1>7, <2>1
<1>9. CASE rule \in {"atv", "str"}
  <2>1. L = Len(t)
    BY <1>9 DEF Length
  <2> QED BY <1>1, <2>1
<1> HIDE DEF L
<1>0. Length(rule, t, where) = L
  BY DEF L
<1> QED
  BY <1>0, <1>a, <1>b, <1>c, <1>d, <1>e, <1>f, <1>g, <1>h, <1>i, <1>j, <1>k, <1>l, <1>m,
     <1>n, <1>o, <1>p, <1>q, <1>r, <1>s, <1>t, <1>u, <1>v, <1>w, <1>x, <1>y, <1>z, <1>8,
     <1>9, <1>10 DEF Rule

-----------------------------------------------------------------------------
(* The groups 1 and 2 that a rule matches lie in the token one after the   *)
(* other.  Only group 1 of what has a group 2 may be empty; only that of a *)
(* tag or a regular expression may be the whole token.                     *)
GroupsFit(g, rule, token) ==
  /\ g[1] \in Nat \ {0} /\ g[2] \in Nat /\ g[3] \in Nat
  /\ g[1] + g[2] + g[3] - 1 <= Len(token)
  /\ g[3] = 0 => g[2] > 0
  /\ g[1] > 1 \/ (g[3] = 0 /\ rule \in {"tag", "regexp"})

(* The groups of a script or style element fit into its token. *)
LEMMA ElementGroups ==
  ASSUME NEW S, NEW t \in Seq(S), NEW name, Element(t, name) # 0, NEW rule
  PROVE  LET i == Find(t, 3, <<">">>) + 1
             end == EndTag(t, name)
         IN  GroupsFit(<<i, end - i, Find(t, end, <<">">>) + 1 - end>>, rule, t)
<1> DEFINE i == Find(t, 3, <<">">>) + 1
           end == EndTag(t, name)
           last == Find(t, end, <<">">>)
<1>1. Len(t) \in Nat
  OBVIOUS
<1>2. end # 0 /\ last = Element(t, name) /\ Element(t, name) \in end .. Len(t)
  BY ElementIs
<1>3. i - 1 \in 3 .. Len(t) /\ end \in i - 1 + 1 .. Len(t)
  <2>1. Find(t, 3, <<">">>) \in 3 .. Len(t) /\ end \in Find(t, 3, <<">">>) + 1 .. Len(t)
    BY <1>2, EndTagIs
  <2>2. i - 1 = Find(t, 3, <<">">>)
    BY <1>1, <2>1
  <2> HIDE DEF i
  <2> QED BY <2>1, <2>2
<1>4. i \in Int
  <2>1. Find(t, 3, <<">">>) \in Nat
    BY FindIs
  <2> QED BY <2>1
<1>5. i \in 4 .. end /\ end \in Nat /\ last \in end .. Len(t)
  <2> HIDE DEF i, end, last
  <2> QED BY <1>1, <1>2, <1>3, <1>4
<1> HIDE DEF i, end, last
<1>6. GroupsFit(<<i, end - i, last + 1 - end>>, rule, t)
  BY <1>1, <1>5 DEF GroupsFit
<1> QED BY <1>6 DEF i, end, last

(* The groups of an attribute fit into its token. *)
LEMMA AttributeGroups ==
  ASSUME NEW S, NEW t \in Seq(S), t # <<>>, NEW name, Attribute(t, name) # 0, NEW rule
  PROVE  LET i == Value(t, RunTo(t, 1, Word) + 1)
             q == IF t[i] \in Quote THEN 1 ELSE 0
         IN  GroupsFit(<<i + q, ValueEnd(t, i) + 1 - i - 2 * q, 0>>, rule, t)
<1> DEFINE next == RunTo(t, 1, Word) + 1
           i == Value(t, next)
           q == IF t[i] \in Quote THEN 1 ELSE 0
           end == ValueEnd(t, i)
<1>1. Len(t) \in Nat /\ 1 \in 1 .. Len(t) + 1
  OBVIOUS
<1>2. RunTo(t, 1, Word) \in 1 - 1 .. Len(t)
  BY <1>1, RunToIs
<1>3. next \in 1 .. Len(t) + 1
  BY <1>1, <1>2
<1>4. end # 0
  BY DEF Attribute
<1> HIDE DEF next
<1>5. i # 0 => i \in next + 1 .. Len(t) + 1
  BY <1>3, ValueIs
<1> HIDE DEF i
<1>6. i \in Nat
  BY <1>1, <1>3, <1>5
<1>7. end \in 0 .. Len(t) /\ i \in 1 .. Len(t) /\ end >= IF t[i] \in Quote THEN i + 2 ELSE i
  BY <1>4, <1>6, ValueEndIs
<1>8. q \in {0, 1} /\ end >= i + 2 * q /\ end \in Nat
  BY <1>1, <1>7
<1>9. i > 1
  BY <1>3, <1>5, <1>7
<1> HIDE DEF q, end
<1>10. GroupsFit(<<i + q, end + 1 - i - 2 * q, 0>>, rule, t)
  BY <1>1, <1>7, <1>8, <1>9 DEF GroupsFit
<1> QED BY <1>10 DEF next, i, q, end

(* The groups of each rule fit into its token, so that decorate's indexOf  *)
(* finds the embedded part where it is.                                    *)
LEMMA GroupsAreFit ==
  ASSUME NEW t \in Seq(Char), t # <<>>, NEW rule \in Nesting, Length(rule, t, "token") > 0
  PROVE  GroupsFit(Groups(rule, t), rule, t)
<1>1. Len(t) \in Nat /\ Len(t) >= 1
  OBVIOUS
<1> DEFINE L == Length(rule, t, "token")
<1>2. L # 0
  OBVIOUS
<1>a. CASE rule = "regexp"
  <2> DEFINE i == LiteralPlace(t, TRUE)
             n == Literal(t, i)
  <2>1. L = IF i = 0 THEN 0 ELSE n
    BY <1>a DEF Length
  <2>2. Groups(rule, t) = <<i, n + 1 - i, 0>>
    BY <1>a DEF Groups
  <2>3. i \in Nat
    BY LiteralPlaceIs
  <2> HIDE DEF i, L
  <2>4. i # 0 /\ n # 0
    BY <1>2, <2>1
  <2>5. n \in 0 .. Len(t) /\ n >= i + 2
    BY <2>3, <2>4, LiteralIs
  <2> HIDE DEF n
  <2> QED BY <1>1, <1>a, <2>2, <2>3, <2>4, <2>5 DEF GroupsFit
<1>b. CASE rule = "instruction"
  <2> DEFINE end == Find(t, 4, <<"?", ">">>)
  <2>1. Len(t) > 2
    BY <1>2, <1>b DEF Length
  <2>2. Groups(rule, t) = <<3, (IF end = 0 THEN Len(t) - 2 ELSE end - 3), 0>>
    BY <1>b DEF Groups
  <2>3. end \in Nat /\ (end # 0 => end >= 4 /\ end + 2 <= Len(t) + 1)
    <3>1. 4 \in Nat \ {0} /\ 2 \in Nat \ {0} /\ Len(<<"?", ">">>) = 2
      OBVIOUS
    <3> QED BY <3>1, FindWord, Zenon
  <2> HIDE DEF end
  <2> QED BY <1>1, <2>1, <2>2, <2>3 DEF GroupsFit
<1>c. CASE rule = "script"
  <2>1. L = Element(t, "S")
    BY <1>c DEF Length
  <2>2. Element(t, "S") # 0
    <3> HIDE DEF L
    <3> QED BY <1>2, <2>1
  <2>3. Groups(rule, t) = LET i == Find(t, 3, <<">">>) + 1
                              end == EndTag(t, "S")
                          IN  <<i, end - i, Find(t, end, <<">">>) + 1 - end>>
    BY <1>c DEF Groups
  <2> QED BY <2>2, <2>3, ElementGroups, Zenon
<1>d. CASE rule = "style"
  <2>1. L = Element(t, "Y")
    BY <1>d DEF Length
  <2>2. Element(t, "Y") # 0
    <3> HIDE DEF L
    <3> QED BY <1>2, <2>1
  <2>3. Groups(rule, t) = LET i == Find(t, 3, <<">">>) + 1
                              end == EndTag(t, "Y")
                          IN  <<i, end - i, Find(t, end, <<">">>) + 1 - end>>
    BY <1>d DEF Groups
  <2> QED BY <2>2, <2>3, ElementGroups, Zenon
<1>e. CASE rule = "tag"
  <2>1. Groups(rule, t) = <<1, Len(t), 0>>
    BY <1>e DEF Groups
  <2> QED BY <1>1, <1>e, <2>1 DEF GroupsFit
<1>f. CASE rule = "unquoted"
  <2> DEFINE i == Value(t, 1)
             n == Unquoted(t)
  <2>1. L = n
    BY <1>f DEF Length
  <2>2. Groups(rule, t) = <<i, n + 1 - i, 0>>
    BY <1>f DEF Groups
  <2>3. n # 0
    <3> HIDE DEF L, n
    <3> QED BY <1>2, <2>1
  <2>4. n \in 0 .. Len(t) /\ i # 0 /\ n >= i
    BY <2>3, UnquotedIs
  <2>5. i \in 2 .. Len(t) + 1
    <3>1. 1 \in 1 .. Len(t) + 1
      BY <1>1
    <3>2. i \in 1 + 1 .. Len(t) + 1
      BY <2>4, <3>1, ValueIs
    <3> QED BY <3>2
  <2> HIDE DEF i, n
  <2> QED BY <1>1, <2>2, <2>4, <2>5 DEF GroupsFit
<1>g. CASE rule \in {"onAttribute", "styleAttribute"}
  <2>1. PICK name : L = Attribute(t, name)
    BY <1>g DEF Length
  <2>2. Attribute(t, name) # 0
    <3> HIDE DEF L
    <3> QED BY <1>2, <2>1
  <2>3. Groups(rule, t) = LET i == Value(t, RunTo(t, 1, Word) + 1)
                              q == IF t[i] \in Quote THEN 1 ELSE 0
                          IN  <<i + q, ValueEnd(t, i) + 1 - i - 2 * q, 0>>
    BY <1>g DEF Groups
  <2> QED BY <2>2, <2>3, AttributeGroups, Zenon
<1> HIDE DEF L
<1> QED
  BY <1>a, <1>b, <1>c, <1>d, <1>e, <1>f, <1>g DEF Nesting

(* createSimpleLexer: the embedded part lies in its token, and it and what *)
(* is left and right of it are shorter, but for a tag and for a regular    *)
(* expression, which may be the whole token.                               *)
LEMMA EmbeddedPartFits ==
  ASSUME NEW t \in Seq(Char), t # <<>>, NEW rule \in Nesting, Length(rule, t, "token") > 0
  PROVE  LET p == EmbeddedPart(rule, t)
         IN  /\ p[1] \in 0 .. Len(t) - 1
             /\ p[2] \in 1 .. Len(t)
             /\ p[1] <= p[2]
             /\ p[2] - p[1] = Len(t) => rule \in {"tag", "regexp"}
<1>1. Len(t) \in Nat /\ Len(t) >= 1
  OBVIOUS
<1> DEFINE g == Groups(rule, t)
           start == IF g[3] > 0 THEN Len(t) - g[3] - g[2]
                    ELSE IndexOf(t, SubSeq(t, g[1], g[1] + g[2] - 1))
<1>2. EmbeddedPart(rule, t) = <<start, start + g[2]>>
  BY DEF EmbeddedPart, Located
<1>3. GroupsFit(g, rule, t)
  BY GroupsAreFit
<1> HIDE DEF g
<1> DEFINE a == g[1]
           b == g[2]
           c == g[3]
<1>4. /\ a \in Nat \ {0} /\ b \in Nat /\ c \in Nat
      /\ a + b + c - 1 <= Len(t)
      /\ c = 0 => b > 0
      /\ a > 1 \/ (c = 0 /\ rule \in {"tag", "regexp"})
  BY <1>3 DEF GroupsFit
<1>5. c > 0 => start = Len(t) - c - b
  OBVIOUS
<1>6. ~(c > 0) => start = IndexOf(t, SubSeq(t, a, a + b - 1))
  OBVIOUS
<1> HIDE DEF start, a, b, c
<1>7. start \in Int /\ 0 <= start /\ start <= Len(t) - b - c
  <2>1. CASE c > 0
    BY <1>1, <1>4, <1>5, <2>1
  <2>2. CASE ~(c > 0)
    <3>1. c = 0 /\ a + b - 1 <= Len(t)
      BY <1>1, <1>4, <2>2
    <3>2. start \in 0 .. Len(t) - b
      BY <1>4, <1>6, <2>2, <3>1, IndexOfPart
    <3> QED BY <1>1, <1>4, <3>1, <3>2
  <2> QED BY <2>1, <2>2
<1> DEFINE stop == start + b
<1>8. EmbeddedPart(rule, t) = <<start, stop>>
  BY <1>2 DEF b
<1>9. /\ start \in 0 .. Len(t) - 1 /\ stop \in 1 .. Len(t) /\ start <= stop
      /\ stop - start = b
  BY <1>1, <1>4, <1>5, <1>7
<1>10. b = Len(t) => rule \in {"tag", "regexp"}
  BY <1>1, <1>4
<1> HIDE DEF stop
<1> QED
  BY <1>8, <1>9, <1>10

-----------------------------------------------------------------------------
(* The languages *)
Lang == [shortcut : Seq(Rule), fallthrough : Seq(Rule)]

(* A language with a rule whose group 1 may be the whole token. *)
TakesWhole(lang) == \E n \in DOMAIN lang.fallthrough :
                      lang.fallthrough[n] \in {"tag", "regexp"}

(* sourceDecorator makes a language, whatever its options. *)
LEMMA SourceDecoratorType ==
  ASSUME NEW options PROVE SourceDecorator(options) \in Lang
<1>1. \A c, r : r \in Seq(Rule) => When(c, r) \in Seq(Rule)
  BY DEF When
<1> DEFINE a == IF "tripleQuotedStrings" \in options THEN "tripleQuoted"
                ELSE IF "multiLineStrings" \in options THEN "multiLine" ELSE "string"
           b == When("hashComments" \in options, <<"hash">>)
           c == When("verbatimStrings" \in options, <<"verbatim">>)
           d == When({"hashComments", "cStyleComments"} \subseteq options, <<"include">>)
           e == When("cStyleComments" \in options, <<"lineComment", "blockComment">>)
           f == When("regexLiterals" \in options, <<"regexp">>)
           g == <<"keyword", "annotation", "type", "word", "number", "punctuation">>
<1>2. /\ <<"hash">> \in Seq(Rule) /\ <<"verbatim">> \in Seq(Rule)
      /\ <<"include">> \in Seq(Rule) /\ <<"lineComment", "blockComment">> \in Seq(Rule)
      /\ <<"regexp">> \in Seq(Rule) /\ g \in Seq(Rule) /\ <<"space">> \in Seq(Rule)
      /\ <<a>> \in Seq(Rule)
  BY DEF Rule
<1>3. /\ b \in Seq(Rule) /\ c \in Seq(Rule) /\ d \in Seq(Rule) /\ e \in Seq(Rule)
      /\ f \in Seq(Rule)
  <2> HIDE DEF a, g
  <2> QED BY <1>1, <1>2, Zenon
<1>4. SourceDecorator(options)
        = [shortcut |-> <<a>> \o b \o <<"space">>, fallthrough |-> c \o d \o e \o f \o g]
  BY DEF SourceDecorator
<1> HIDE DEF a, b, c, d, e, f, g
<1>5. <<a>> \o b \o <<"space">> \in Seq(Rule)
  BY <1>2, <1>3, ConcatProperties
<1>6. c \o d \o e \o f \o g \in Seq(Rule)
  <2>1. c \o d \in Seq(Rule)
    BY <1>3, ConcatProperties
  <2>2. c \o d \o e \in Seq(Rule)
    BY <1>3, <2>1, ConcatProperties
  <2>3. c \o d \o e \o f \in Seq(Rule)
    BY <1>3, <2>2, ConcatProperties
  <2> QED BY <1>2, <2>3, ConcatProperties
<1> QED BY <1>4, <1>5, <1>6 DEF Lang

(* The rules that are registered without sourceDecorator are languages. *)
LEMMA OtherRulesType ==
  MarkupRules \in Lang /\ TagRules \in Lang /\ WholeRules("atv") \in Lang
    /\ WholeRules("str") \in Lang
BY DEF MarkupRules, TagRules, WholeRules, Lang, Rule

(* Each registration is of a language, and the languages of tags and of    *)
(* regex literals have no other.                                           *)
LEMMA RegistrationsAre ==
  /\ DOMAIN Registrations = 1 .. 14
  /\ \A n \in 1 .. 14 : Registrations[n][1] \in Lang
  /\ \A n \in 1 .. 14 : "in.tag" \in Registrations[n][2] <=> n = 3
  /\ \A n \in 1 .. 14 : "regex" \in Registrations[n][2] <=> n = 14
  /\ "default-code" \in Registrations[1][2] /\ "default-markup" \in Registrations[2][2]
  /\ Registrations[3][1] = TagRules /\ Registrations[14][1] = WholeRules("str")
<1>1. \A n \in 1 .. 14 : n \in {1, 2, 3, 4, 5, 6, 7, 8, 9, 10, 11, 12, 13, 14}
  OBVIOUS
<1>2. DOMAIN Registrations = 1 .. 14
  BY DEF Registrations
<1>3. \A n \in 1 .. 14 : \/ \E options : Registrations[n][1] = SourceDecorator(options)
                         \/ Registrations[n][1] \in {MarkupRules, TagRules,
                              WholeRules("atv"), WholeRules("str")}
  <2>1. \A n \in {2, 3, 4, 14} : Registrations[n][1] \in {MarkupRules, TagRules,
                              WholeRules("atv"), WholeRules("str")}
    BY DEF Registrations
  <2>2. \A n \in {1, 5, 6, 7, 8, 9, 10, 11, 12, 13} :
          \E options : Registrations[n][1] = SourceDecorator(options)
    BY DEF Registrations
  <2> QED BY <1>1, <2>1, <2>2
<1>4. \A n \in 1 .. 14 : Registrations[n][1] \in Lang
  BY <1>3, SourceDecoratorType, OtherRulesType
<1>5. \A n \in 1 .. 14 : /\ "in.tag" \in Registrations[n][2] <=> n = 3
                         /\ "regex" \in Registrations[n][2] <=> n = 14
  BY <1>1 DEF Registrations
<1>6. "default-code" \in Registrations[1][2] /\ "default-markup" \in Registrations[2][2]
      /\ Registrations[3][1] = TagRules /\ Registrations[14][1] = WholeRules("str")
  BY DEF Registrations
<1> QED BY <1>2, <1>4, <1>5, <1>6

(* The registry has languages only, among them the four that the script    *)
(* relies on.                                                              *)
LEMMA RegistryIs ==
  /\ \A e \in DOMAIN LangHandlerRegistry : LangHandlerRegistry[e] \in Lang
  /\ {"default-code", "default-markup", "in.tag", "regex"} \subseteq DOMAIN LangHandlerRegistry
  /\ LangHandlerRegistry["in.tag"] = TagRules
  /\ LangHandlerRegistry["regex"] = WholeRules("str")
<1> DEFINE E == UNION {r[2] : r \in Range(Registrations)}
           places(e) == {n \in DOMAIN Registrations : e \in Registrations[n][2]}
<1>1. LangHandlerRegistry = [e \in E |-> Registrations[Min(places(e))][1]]
  BY DEF LangHandlerRegistry
<1>2. \A e : e \in E <=> places(e) # {}
  BY DEF Range
<1>3. \A e : places(e) \subseteq 1 .. 14
  BY RegistrationsAre
<1>4. \A e \in E : Min(places(e)) \in places(e)
  <2> TAKE e \in E
  <2> DEFINE T == places(e)
  <2>1. T \subseteq Nat /\ T # {}
    BY <1>2, <1>3
  <2> HIDE DEF T
  <2>2. Min(T) \in T
    BY <2>1, MinIs
  <2> QED BY <2>2 DEF T
<1>5. places("in.tag") = {3} /\ places("regex") = {14}
      /\ 1 \in places("default-code") /\ 2 \in places("default-markup")
  BY RegistrationsAre
<1> HIDE DEF places, E
<1>6. \A e \in E : LangHandlerRegistry[e] = Registrations[Min(places(e))][1]
      /\ Min(places(e)) \in 1 .. 14
  BY <1>1, <1>3, <1>4
<1>7. DOMAIN LangHandlerRegistry = E
  BY <1>1
<1>8. {"default-code", "default-markup", "in.tag", "regex"} \subseteq E
  BY <1>2, <1>5
<1>9. Min(places("in.tag")) = 3 /\ Min(places("regex")) = 14
  BY <1>4, <1>5, <1>8
<1> QED
  BY <1>6, <1>7, <1>8, <1>9, RegistrationsAre

(* langHandlerForExtension returns a language for each extension and text. *)
LEMMA LangHandlerIs ==
  ASSUME NEW extension, NEW t
  PROVE  /\ LangHandlerForExtension(extension, t) \in Lang
         /\ extension = "in.tag" => LangHandlerForExtension(extension, t) = TagRules
         /\ extension = "regex" =>
              LangHandlerForExtension(extension, t) = WholeRules("str")
<1> DEFINE e == IF extension \in DOMAIN LangHandlerRegistry THEN extension
                ELSE IF At(t, RunTo(t, 1, White) + 1, <<"<">>)
                     THEN "default-markup" ELSE "default-code"
<1>1. LangHandlerForExtension(extension, t) = LangHandlerRegistry[e]
  BY DEF LangHandlerForExtension
<1>2. e \in DOMAIN LangHandlerRegistry
  BY RegistryIs
<1>3. extension \in {"in.tag", "regex"} => e = extension
  BY RegistryIs
<1> HIDE DEF e
<1> QED BY <1>1, <1>2, <1>3, RegistryIs

(* What is found whole in a token is in a language that takes nothing      *)
(* whole.                                                                  *)
LEMMA WholeOnce ==
  ASSUME NEW rule \in {"tag", "regexp"}, NEW t
  PROVE  ~TakesWhole(LangHandlerForExtension(Embedded[rule], t))
<1>1. Embedded["tag"] = "in.tag" /\ Embedded["regexp"] = "regex"
  BY DEF Embedded
<1>2. ~TakesWhole(TagRules) /\ ~TakesWhole(WholeRules("str"))
  BY DEF TakesWhole, TagRules, WholeRules
<1> QED BY <1>1, <1>2, LangHandlerIs

-----------------------------------------------------------------------------
(* The tokenizer makes progress, and not beyond the end. *)
LEMMA TokenFits ==
  ASSUME NEW lang \in Lang, NEW t \in Seq(Char), t # <<>>, NEW where
  PROVE  TokenLength(lang, t, where) \in 1 .. Len(t)
<1> DEFINE all == lang.shortcut \o lang.fallthrough
           found == Applicable(all, t, where)
<1>1. Len(t) \in Nat /\ Len(t) >= 1
  OBVIOUS
<1>2. lang.shortcut \in Seq(Rule) /\ lang.fallthrough \in Seq(Rule)
  BY DEF Lang
<1>3. all \in Seq(Rule)
  BY <1>2, ConcatProperties
<1>4. TokenLength(lang, t, where) = IF found = {} THEN 1 ELSE Length(all[Min(found)], t, where)
  BY DEF TokenLength
<1> HIDE DEF all
<1>5. found \subseteq Nat /\ found \subseteq DOMAIN all
  BY <1>3 DEF Applicable
<1>6. found # {} => Min(found) \in found
  <2> HIDE DEF found
  <2> QED BY <1>5, MinIs
<1>7. found # {} => Length(all[Min(found)], t, where) \in 0 .. Len(t)
                    /\ Length(all[Min(found)], t, where) > 0
  <2> SUFFICES ASSUME found # {} PROVE Length(all[Min(found)], t, where) \in 0 .. Len(t)
                    /\ Length(all[Min(found)], t, where) > 0
    OBVIOUS
  <2>1. Length(all[Min(found)], t, where) > 0
    BY <1>6 DEF Applicable
  <2>2. all[Min(found)] \in Rule
    <3>1. Min(found) \in DOMAIN all
      BY <1>5, <1>6
    <3> HIDE DEF found
    <3> QED BY <1>3, <3>1
  <2> HIDE DEF found
  <2> QED BY <2>1, <2>2, LengthFits
<1> HIDE DEF found
<1> QED BY <1>1, <1>4, <1>7

(* A rule with an embedded part is one of the fallthrough rules, and the   *)
(* token matches it.                                                       *)
LEMMA RuleIs ==
  ASSUME NEW lang \in Lang, NEW t \in Seq(Char), t # <<>>
  PROVE  /\ RuleOf(lang, t) \in Rule \cup {"none"}
         /\ RuleOf(lang, t) \in Nesting =>
              /\ Length(RuleOf(lang, t), t, "token") > 0
              /\ \E n \in DOMAIN lang.fallthrough : lang.fallthrough[n] = RuleOf(lang, t)
<1> DEFINE all == lang.shortcut \o lang.fallthrough
           short == {n \in DOMAIN all : t[1] \in Shortcut(all[n])}
           found == Applicable(lang.fallthrough, t, "token")
<1>1. RuleOf(lang, t) = IF short # {} THEN all[Max(short)]
                        ELSE IF found # {} THEN lang.fallthrough[Min(found)] ELSE "none"
  BY DEF RuleOf
<1>2. lang.shortcut \in Seq(Rule) /\ lang.fallthrough \in Seq(Rule)
  BY DEF Lang
<1>3. all \in Seq(Rule)
  BY <1>2, ConcatProperties
<1> HIDE DEF all
<1>4. CASE short # {}
  <2>1. short \subseteq Int /\ (\A x \in short : x <= Len(all)) /\ Len(all) \in Int
    BY <1>3
  <2>2. Max(short) \in short
    <3> HIDE DEF short
    <3> QED BY <1>4, <2>1, MaxIs
  <2>3. all[Max(short)] \in Rule /\ Shortcut(all[Max(short)]) # {}
    <3>1. Max(short) \in DOMAIN all /\ t[1] \in Shortcut(all[Max(short)])
      BY <2>2
    <3> HIDE DEF short
    <3> QED BY <1>3, <3>1
  <2>4. \A r \in Nesting : Shortcut(r) = {}
    BY DEF Nesting, Shortcut
  <2> HIDE DEF short
  <2> QED BY <1>1, <1>4, <2>3, <2>4
<1>5. CASE short = {} /\ found # {}
  <2>1. found \subseteq Nat
    BY <1>2 DEF Applicable
  <2>2. Min(found) \in found
    <3> HIDE DEF found
    <3> QED BY <1>5, <2>1, MinIs
  <2>3. Min(found) \in DOMAIN lang.fallthrough
        /\ Length(lang.fallthrough[Min(found)], t, "token") > 0
    BY <2>2 DEF Applicable
  <2>4. RuleOf(lang, t) = lang.fallthrough[Min(found)]
    BY <1>1, <1>5
  <2> HIDE DEF found, short
  <2> QED BY <1>2, <2>3, <2>4
<1>6. CASE short = {} /\ found = {}
  <2>1. RuleOf(lang, t) = "none"
    BY <1>1, <1>6
  <2>2. "none" \notin Nesting
    BY DEF Nesting
  <2> QED BY <2>1, <2>2
<1> QED BY <1>4, <1>5, <1>6

-----------------------------------------------------------------------------
(* extractTags: the text, and the tags in the order of their places *)
TagEntry == [at : Nat, html : Seq(Piece)]
TagsPlaced(text, entries) ==
  \A i, j \in DOMAIN entries : /\ entries[i].at <= Len(text)
                               /\ i <= j => entries[i].at <= entries[j].at
Extract == {so \in [source : Seq(Char), tags : Seq(TagEntry), next : Nat \ {0}] :
              TagsPlaced(so.source, so.tags)}

(* A piece that is no tag and no comment is read as one character. *)
LEMMA ReadIsChar ==
  ASSUME NEW piece \in Piece, piece.k \notin {"comment", "tag"}
  PROVE  Read(piece) \in Char
<1>1. {" ", "\n"} \subseteq Char
  BY DEF Char, White
<1>2. CASE piece \in [k : {"text", "cdata"}, c : Char]
  BY <1>2 DEF Read, HtmlToText
<1>3. CASE piece \in [k : {"entity"}, c : Char \cup {"nbsp"}]
  BY <1>1, <1>3 DEF Read, HtmlToText
<1>4. CASE piece \in [k : {"br", "comment"}]
  BY <1>1, <1>4 DEF Read
<1>5. CASE piece \in [k : {"tag"}, name : STRING, end : BOOLEAN, noCode : BOOLEAN]
  BY <1>5
<1> QED BY <1>2, <1>3, <1>4, <1>5 DEF Piece

(* A section without code ends in the html, and begins with a tag. *)
LEMMA NoCodeEndIs ==
  ASSUME NEW html \in Seq(Piece), NEW i \in 1 .. Len(html)
  PROVE  /\ NoCodeEnd(html, i) \in {0} \cup i .. Len(html)
         /\ NoCodeEnd(html, i) # 0 => html[i].k = "tag"
<1> DEFINE Count(j, end) == Cardinality({n \in i .. j : IsTag(html[n], html[i].name, end)})
           ends == {j \in i .. Len(html) : Count(j, TRUE) = Count(j, FALSE)}
<1>1. NoCodeEnd(html, i)
        = IF html[i].k # "tag" \/ ~html[i].noCode \/ ends = {} THEN 0 ELSE Min(ends)
  BY DEF NoCodeEnd
<1>2. ends \subseteq i .. Len(html) /\ Len(html) \in Nat
  <2> HIDE DEF Count
  <2> QED BY LenProperties
<1> HIDE DEF ends
<1>3. ends # {} => Min(ends) \in ends
  <2>1. ends \subseteq Nat
    BY <1>2
  <2> QED BY <2>1, MinIs
<1> QED BY <1>1, <1>2, <1>3

(* The fields of the tags that were extracted. *)
LEMMA EntryType ==
  ASSUME NEW entries \in Seq(TagEntry)
  PROVE  /\ Len(entries) \in Nat /\ DOMAIN entries = 1 .. Len(entries)
         /\ \A i \in DOMAIN entries : /\ entries[i] \in TagEntry
                                      /\ entries[i].at \in Nat
                                      /\ entries[i].html \in Seq(Piece)
<1>1. /\ Len(entries) \in Nat /\ DOMAIN entries = 1 .. Len(entries)
      /\ \A i \in DOMAIN entries : entries[i] \in TagEntry
  BY LenProperties, ElementOfSeq
<1>2. \A x \in TagEntry : x.at \in Nat /\ x.html \in Seq(Piece)
  BY DEF TagEntry
<1> QED BY <1>1, <1>2

(* A tag that is extracted at the end of the text so far keeps the tags in *)
(* the order of the text.                                                  *)
LEMMA AppendPlaced ==
  ASSUME NEW text \in Seq(Char), NEW entries \in Seq(TagEntry), TagsPlaced(text, entries),
         NEW html \in Seq(Piece)
  PROVE  TagsPlaced(text, Append(entries, [at |-> Len(text), html |-> html]))
<1> DEFINE e == [at |-> Len(text), html |-> html]
           n == Len(entries)
           new == Append(entries, e)
<1>1. Len(text) \in Nat /\ n \in Nat
  OBVIOUS
<1>2. DOMAIN new = 1 .. n + 1 /\ new[n + 1] = e /\ \A i \in 1 .. n : new[i] = entries[i]
  BY <1>1
<1>3. /\ DOMAIN entries = 1 .. n
      /\ \A i \in 1 .. n : entries[i].at \in Nat /\ entries[i].at <= Len(text)
      /\ \A i, j \in 1 .. n : i <= j => entries[i].at <= entries[j].at
  <2>1. DOMAIN entries = 1 .. n /\ \A i \in 1 .. n : entries[i].at \in Nat
    BY EntryType
  <2> QED BY <2>1 DEF TagsPlaced
<1>a. e.at = Len(text)
  OBVIOUS
<1> HIDE DEF new, e
<1> SUFFICES ASSUME NEW i \in 1 .. n + 1, NEW j \in 1 .. n + 1
             PROVE  /\ new[i].at <= Len(text)
                    /\ i <= j => new[i].at <= new[j].at
  BY <1>2 DEF TagsPlaced, new, e
<1>4. CASE i = n + 1
  <2>1. i <= j => j = n + 1
    BY <1>1, <1>4
  <2> QED BY <1>1, <1>2, <1>4, <1>a, <2>1
<1>5. CASE i # n + 1 /\ j = n + 1
  <2>1. i \in 1 .. n
    BY <1>1, <1>5
  <2> QED BY <1>1, <1>2, <1>3, <1>5, <1>a, <2>1
<1>6. CASE i # n + 1 /\ j # n + 1
  <2>1. i \in 1 .. n /\ j \in 1 .. n
    BY <1>1, <1>6
  <2> QED BY <1>1, <1>2, <1>3, <1>6, <2>1
<1> QED BY <1>4, <1>5, <1>6

(* A step of extractTags keeps what it has extracted so far in order. *)
LEMMA ExtractPieceIs ==
  ASSUME NEW html \in Seq(Piece), NEW i \in 1 .. Len(html), NEW so \in Extract
  PROVE  ExtractPiece(so, html, i) \in Extract
<1> DEFINE end == Max({i, NoCodeEnd(html, i)})
           new == ExtractPiece(so, html, i)
<1>1. end \in i .. Len(html)
  <2>1. NoCodeEnd(html, i) \in {0} \cup i .. Len(html) /\ Len(html) \in Nat
    BY NoCodeEndIs
  <2> DEFINE T == {i, NoCodeEnd(html, i)}
  <2>2. T \subseteq Int /\ T # {} /\ \A x \in T : x <= Len(html)
    BY <2>1
  <2>3. Max(T) \in T /\ \A x \in T : x <= Max(T)
    <3> HIDE DEF T
    <3>1. Len(html) \in Int
      BY <2>1
    <3> QED BY <2>2, <3>1, MaxIs
  <2> QED BY <2>1, <2>3
<1>2. html[i] \in Piece /\ so \in [source : Seq(Char), tags : Seq(TagEntry), next : Nat \ {0}]
      /\ TagsPlaced(so.source, so.tags) /\ Len(so.source) \in Nat
  BY DEF Extract
<1> HIDE DEF end, new
<1>3. CASE i < so.next
  <2>1. new = so
    BY <1>2, <1>3 DEF ExtractPiece, new
  <2> QED BY <2>1 DEF new
<1>4. CASE i >= so.next /\ html[i].k = "tag"
  <2> DEFINE e == [at |-> Len(so.source), html |-> SubSeq(html, i, end)]
  <2>1. new = [so EXCEPT !.tags = Append(@, e), !.next = end + 1]
    BY <1>2, <1>4 DEF ExtractPiece, new, end
  <2>2. SubSeq(html, i, end) \in Seq(Piece)
    BY <1>1, SubSeqProperties
  <2>3. e \in TagEntry
    BY <1>2, <2>2 DEF TagEntry
  <2>4. TagsPlaced(so.source, Append(so.tags, e))
    BY <1>2, <2>2, AppendPlaced
  <2>5. end + 1 \in Nat \ {0}
    BY <1>1
  <2>6. Append(so.tags, e) \in Seq(TagEntry)
    <3> HIDE DEF e
    <3> QED BY <1>2, <2>3
  <2> HIDE DEF e
  <2>7. new \in [source : Seq(Char), tags : Seq(TagEntry), next : Nat \ {0}]
        /\ new.source = so.source /\ new.tags = Append(so.tags, e)
    BY <1>2, <2>1, <2>5, <2>6
  <2> QED BY <2>4, <2>7 DEF Extract, new
<1>5. CASE i >= so.next /\ html[i].k = "comment"
  <2>1. new = so
    BY <1>2, <1>5 DEF ExtractPiece, new
  <2> QED BY <2>1 DEF new
<1>6. CASE i >= so.next /\ html[i].k \notin {"tag", "comment"}
  <2> DEFINE c == Read(html[i])
  <2>1. c \in Char
    BY <1>2, <1>6, ReadIsChar
  <2>2. new = [so EXCEPT !.source = Append(@, c)]
    BY <1>2, <1>6 DEF ExtractPiece, new
  <2> HIDE DEF c
  <2>3. new \in [source : Seq(Char), tags : Seq(TagEntry), next : Nat \ {0}]
        /\ new.source = Append(so.source, c) /\ new.tags = so.tags
    <3>1. Append(so.source, c) \in Seq(Char)
      BY <1>2, <2>1
    <3> DEFINE d == Append(so.source, c)
    <3>2. new = [so EXCEPT !.source = d]
      BY <2>2
    <3> HIDE DEF d
    <3> QED BY <1>2, <3>1, <3>2 DEF d
  <2>4. Len(new.source) = Len(so.source) + 1
    BY <1>2, <2>1, <2>3
  <2>5. \A j \in DOMAIN so.tags : so.tags[j].at \in Nat
    BY <1>2, EntryType
  <2>6. TagsPlaced(new.source, new.tags)
    BY <1>2, <2>3, <2>4, <2>5 DEF TagsPlaced
  <2> QED BY <2>3, <2>6 DEF Extract, new
<1> QED BY <1>3, <1>4, <1>5, <1>6, <1>2 DEF Extract

(* extractTags, a piece at a time *)
Extracts(f, html) ==
  f = [i \in 0 .. Len(html) |->
         IF i = 0 THEN [source |-> <<>>, tags |-> <<>>, next |-> 1]
         ELSE ExtractPiece(f[i - 1], html, i)]

(* The function that is computed for some html *)
Extraction(html) == CHOOSE f : Extracts(f, html)

(* What extractTags has extracted after each piece. *)
LEMMA ExtractionIs ==
  ASSUME NEW html \in Seq(Piece)
  PROVE  LET f == Extraction(html)
         IN  /\ f \in [0 .. Len(html) -> Extract]
             /\ ExtractTags(html) = f[Len(html)]
             /\ f[0] = [source |-> <<>>, tags |-> <<>>, next |-> 1]
             /\ \A i \in 1 .. Len(html) : f[i] = ExtractPiece(f[i - 1], html, i)
<1> DEFINE n == Len(html)
           base == [source |-> <<>>, tags |-> <<>>, next |-> 1]
           step == [x \in (0 + 1 .. n) \X Extract |-> ExtractPiece(x[2], html, x[1])]
<1>1. n \in Int /\ 0 \in Int /\ 0 <= n
  OBVIOUS
<1>2. base \in Extract
  BY DEF Extract, TagsPlaced
<1>3. step \in [(0 + 1 .. n) \X Extract -> Extract]
  <2>1. \A x \in (0 + 1 .. n) \X Extract : ExtractPiece(x[2], html, x[1]) \in Extract
    BY ExtractPieceIs
  <2> QED BY <2>1
<1>4. \A f \in [0 .. n -> Extract] : Computes(f, 0, n, base, step) => Extracts(f, html)
  <2> SUFFICES ASSUME NEW f \in [0 .. n -> Extract], Computes(f, 0, n, base, step)
               PROVE  Extracts(f, html)
    OBVIOUS
  <2>1. \A i \in 0 .. n : i # 0 => step[<<i, f[i - 1]>>] = ExtractPiece(f[i - 1], html, i)
    <3>1. \A i \in 0 .. n : i # 0 => i - 1 \in 0 .. n /\ i \in 0 + 1 .. n
      BY <1>1
    <3>2. \A i \in 0 .. n : i # 0 => f[i - 1] \in Extract
      BY <3>1
    <3> QED BY <3>1, <3>2
  <2> HIDE DEF step, base
  <2>2. f = [i \in 0 .. n |-> IF i = 0 THEN base ELSE ExtractPiece(f[i - 1], html, i)]
    BY <2>1 DEF Computes
  <2> QED BY <2>2 DEF Extracts, base
<1> DEFINE f == Extraction(html)
<1>5. Extracts(f, html)
  <2>1. \E g \in [0 .. n -> Extract] : Computes(g, 0, n, base, step)
    <3> HIDE DEF base, step
    <3> QED BY <1>1, <1>2, <1>3, RecursionExists
  <2> HIDE DEF step, base
  <2>2. \E g : Extracts(g, html)
    BY <1>4, <2>1
  <2> QED BY <2>2 DEF Extraction
<1>6. ExtractTags(html) = f[n]
  BY DEF ExtractTags, Extracts, Extraction
<1> HIDE DEF f
<1>7. \A i \in 0 .. n : f[i] = IF i = 0 THEN base ELSE ExtractPiece(f[i - 1], html, i)
  BY <1>5 DEF Extracts
<1>8. \A i \in 0 .. n : f[i] \in Extract
  <2> DEFINE P == {i \in 0 .. n : f[i] \in Extract}
  <2>1. 0 \in P
    BY <1>1, <1>2, <1>7
  <2>2. ASSUME NEW i \in 0 .. n - 1, i \in P
        PROVE  i + 1 \in P
    <3>1. i + 1 \in 1 .. n /\ i + 1 \in 0 .. n /\ (i + 1) - 1 = i /\ i + 1 # 0
      BY <1>1
    <3>2. f[i + 1] = ExtractPiece(f[i], html, i + 1)
      BY <1>7, <3>1
    <3> QED BY <2>2, <3>1, <3>2, ExtractPieceIs
  <2> HIDE DEF P
  <2>3. 0 .. n \subseteq P
    BY <1>1, <2>1, <2>2, Upwards
  <2> QED BY <2>3 DEF P
<1>9. f \in [0 .. n -> Extract]
  <2>1. f = [i \in 0 .. n |-> f[i]]
    BY <1>5 DEF Extracts
  <2> QED BY <1>8, <2>1
<1>10. \A i \in 1 .. n : f[i] = ExtractPiece(f[i - 1], html, i)
  BY <1>1, <1>7
<1> QED
  BY <1>1, <1>6, <1>7, <1>9, <1>10 DEF f

(* extractTags returns a text and tags in the order of their places in it. *)
LEMMA ExtractTagsIs ==
  ASSUME NEW html \in Seq(Piece) PROVE ExtractTags(html) \in Extract
<1>1. Len(html) \in 0 .. Len(html)
  OBVIOUS
<1> QED BY <1>1, ExtractionIs

-----------------------------------------------------------------------------
(* The calls that are left, and the decorations that were made *)
Styles == {Style[rule] : rule \in DOMAIN Style}
Decoration == [at : Nat, style : Styles]
Decorating == [text : Seq(Char), at : Nat, lang : Lang, first : BOOLEAN, depth : Nat]

(* A lexer gives no character the style "none". *)
LEMMA NoneIsNoStyle == "none" \notin Styles
BY DEF Styles, Style

(* The calls fs are for the text s from a place on, one part of it after   *)
(* the other.                                                              *)
EndOf(s, fs, i) == IF i = Len(fs) THEN Len(s) ELSE fs[i + 1].at
Tiled(s, fs, from) ==
  /\ fs = <<>> => from = Len(s)
  /\ fs # <<>> => fs[1].at = from
  /\ \A i \in DOMAIN fs : /\ fs[i].at <= EndOf(s, fs, i) /\ EndOf(s, fs, i) <= Len(s)
                          /\ fs[i].text = SubSeq(s, fs[i].at + 1, EndOf(s, fs, i))

(* What is still to be decorated by a call, and the calls around it, fit   *)
(* in as many calls as there are characters, twice.                        *)
Shallow(s, f) == f.depth + 2 * Len(f.text) + (IF TakesWhole(f.lang) THEN 1 ELSE 0)
                   <= 2 * Len(s) + 2
AllShallow(s, fs) == \A i \in DOMAIN fs : Shallow(s, fs[i])

(* The sequence of calls with one more in front. *)
LEMMA FrontIs ==
  ASSUME NEW f \in Decorating, NEW fs \in Seq(Decorating)
  PROVE  LET new == <<f>> \o fs
         IN  /\ new \in Seq(Decorating) /\ Len(new) = Len(fs) + 1 /\ Len(fs) \in Nat
             /\ DOMAIN new = 1 .. Len(fs) + 1 /\ DOMAIN fs = 1 .. Len(fs)
             /\ new[1] = f /\ \A i \in 1 .. Len(fs) : new[i + 1] = fs[i]
             /\ \A i \in 1 .. Len(fs) : fs[i] \in Decorating /\ fs[i].at \in Nat
             /\ new # <<>>
<1>1. <<f>> \in Seq(Decorating) /\ Len(<<f>>) = 1 /\ <<f>>[1] = f
  OBVIOUS
<1>2. /\ Len(fs) \in Nat /\ DOMAIN fs = 1 .. Len(fs)
      /\ \A i \in 1 .. Len(fs) : fs[i] \in Decorating
  BY LenProperties, ElementOfSeq
<1>3. \A x \in Decorating : x.at \in Nat
  BY DEF Decorating
<1> DEFINE one == <<f>>
           new == one \o fs
<1> HIDE DEF one
<1>4. /\ new \in Seq(Decorating) /\ Len(new) = Len(one) + Len(fs)
      /\ \A i \in 1 .. Len(one) + Len(fs) :
           new[i] = IF i <= Len(one) THEN one[i] ELSE fs[i - Len(one)]
  BY <1>1, ConcatProperties DEF one
<1>5. Len(one) = 1 /\ one[1] = f
  BY <1>1 DEF one
<1> HIDE DEF new
<1>6. new[1] = f /\ Len(new) = Len(fs) + 1
  BY <1>2, <1>4, <1>5
<1>7. \A i \in 1 .. Len(fs) : new[i + 1] = fs[i]
  <2> TAKE i \in 1 .. Len(fs)
  <2>1. i + 1 \in 1 .. Len(one) + Len(fs) /\ ~(i + 1 <= Len(one)) /\ i + 1 - Len(one) = i
    BY <1>2, <1>5
  <2> QED BY <1>4, <2>1
<1>8. DOMAIN new = 1 .. Len(fs) + 1 /\ new # <<>>
  BY <1>2, <1>4, <1>6, LenProperties
<1> QED BY <1>2, <1>3, <1>4, <1>6, <1>7, <1>8 DEF new, one

(* Calls that tile the text from a place on still do with one in front     *)
(* that ends there.                                                        *)
LEMMA TiledFront ==
  ASSUME NEW s \in Seq(Char), NEW f \in Decorating, NEW fs \in Seq(Decorating),
         NEW from \in Nat, Tiled(s, fs, from), f.at <= from, from <= Len(s),
         f.text = SubSeq(s, f.at + 1, from)
  PROVE  Tiled(s, <<f>> \o fs, f.at)
<1> DEFINE new == <<f>> \o fs
<1>1. /\ new \in Seq(Decorating) /\ Len(new) = Len(fs) + 1 /\ Len(fs) \in Nat
      /\ DOMAIN new = 1 .. Len(fs) + 1 /\ DOMAIN fs = 1 .. Len(fs)
      /\ new[1] = f /\ \A i \in 1 .. Len(fs) : new[i + 1] = fs[i]
      /\ new # <<>>
  BY FrontIs
<1> HIDE DEF new
<1>2. ASSUME NEW i \in 1 .. Len(fs) + 1
      PROVE  /\ new[i].at <= EndOf(s, new, i) /\ EndOf(s, new, i) <= Len(s)
             /\ new[i].text = SubSeq(s, new[i].at + 1, EndOf(s, new, i))
  <2>1. CASE i = 1
    <3>1. EndOf(s, new, i) = from
      <4>1. CASE Len(fs) = 0
        <5>1. fs = <<>>
          BY <4>1, EmptySeq
        <5> QED BY <1>1, <2>1, <4>1, <5>1 DEF EndOf, Tiled
      <4>2. CASE Len(fs) # 0
        <5>1. fs # <<>> /\ 1 \in 1 .. Len(fs)
          BY <1>1, <4>2, EmptySeq
        <5> QED BY <1>1, <2>1, <4>2, <5>1 DEF EndOf, Tiled
      <4> QED BY <4>1, <4>2
    <3> QED BY <1>1, <2>1, <3>1
  <2>2. CASE i # 1
    <3>1. i - 1 \in 1 .. Len(fs) /\ (i - 1) + 1 = i
      BY <1>1, <2>2
    <3>2. new[i] = fs[i - 1]
      BY <1>1, <3>1
    <3>3. EndOf(s, new, i) = EndOf(s, fs, i - 1)
      <4>1. CASE i = Len(fs) + 1
        BY <1>1, <4>1 DEF EndOf
      <4>2. CASE i # Len(fs) + 1
        <5>1. i \in 1 .. Len(fs) /\ i - 1 # Len(fs) /\ i # Len(new)
          BY <1>1, <2>2, <4>2
        <5>2. new[i + 1] = fs[i]
          BY <1>1, <5>1
        <5> QED BY <3>1, <5>1, <5>2 DEF EndOf
      <4> QED BY <4>1, <4>2
    <3> QED BY <1>1, <3>1, <3>2, <3>3 DEF Tiled
  <2> QED BY <2>1, <2>2
<1>3. Tiled(s, new, f.at)
  BY <1>1, <1>2 DEF Tiled
<1> QED BY <1>3 DEF new

(* What is behind the first call tiles the text from where that ends. *)
LEMMA TiledTail ==
  ASSUME NEW s \in Seq(Char), NEW fs \in Seq(Decorating), fs # <<>>,
         NEW from, Tiled(s, fs, from)
  PROVE  LET end == EndOf(s, fs, 1)
         IN  /\ Tail(fs) \in Seq(Decorating)
             /\ Tiled(s, Tail(fs), end)
             /\ Head(fs) \in Decorating /\ Head(fs).at = from
             /\ from \in Nat /\ end \in Nat /\ from <= end /\ end <= Len(s)
             /\ Head(fs).text = SubSeq(s, from + 1, end)
<1> DEFINE rest == Tail(fs)
<1>1. /\ Len(fs) \in Nat /\ Len(fs) >= 1 /\ DOMAIN fs = 1 .. Len(fs) /\ Len(s) \in Nat
      /\ Head(fs) = fs[1]
  BY EmptySeq, LenProperties
<1>2. /\ rest \in Seq(Decorating) /\ Len(rest) = Len(fs) - 1
      /\ DOMAIN rest = 1 .. Len(fs) - 1 /\ \A i \in 1 .. Len(fs) - 1 : rest[i] = fs[i + 1]
  BY <1>1, HeadTailProperties
<1> HIDE DEF rest
<1>3. \A i \in 1 .. Len(fs) : fs[i] \in Decorating /\ fs[i].at \in Nat
  <2>1. \A i \in 1 .. Len(fs) : fs[i] \in Decorating
    BY <1>1, ElementOfSeq
  <2>2. \A x \in Decorating : x.at \in Nat
    BY DEF Decorating
  <2> QED BY <2>1, <2>2
<1>4. \A i \in 1 .. Len(fs) - 1 : EndOf(s, rest, i) = EndOf(s, fs, i + 1)
  <2> TAKE i \in 1 .. Len(fs) - 1
  <2>1. CASE i = Len(fs) - 1
    BY <1>1, <1>2, <2>1 DEF EndOf
  <2>2. CASE i # Len(fs) - 1
    <3>0. Len(fs) \in Nat /\ Len(rest) = Len(fs) - 1
      BY <1>1, <1>2
    <3>a. i \in Int /\ i >= 1 /\ i <= Len(fs) - 1
      BY <3>0
    <3>b. i # Len(rest)
      BY <3>0, <2>2
    <3>c. i + 1 # Len(fs)
      BY <3>0, <3>a, <2>2
    <3>d. i + 1 \in 1 .. Len(fs) - 1
      BY <3>0, <3>a, <2>2
    <3>1. i + 1 \in 1 .. Len(fs) - 1 /\ i # Len(rest) /\ i + 1 # Len(fs)
      BY <3>b, <3>c, <3>d
    <3>2. rest[i + 1] = fs[(i + 1) + 1]
      BY <1>2, <3>1
    <3> QED BY <3>1, <3>2 DEF EndOf
  <2> QED BY <2>1, <2>2
<1>5. \A i \in 1 .. Len(fs) : /\ fs[i].at <= EndOf(s, fs, i) /\ EndOf(s, fs, i) <= Len(s)
                              /\ fs[i].text = SubSeq(s, fs[i].at + 1, EndOf(s, fs, i))
  BY <1>1 DEF Tiled
<1>6. \A i \in 1 .. Len(fs) - 1 :
        /\ rest[i].at <= EndOf(s, rest, i) /\ EndOf(s, rest, i) <= Len(s)
        /\ rest[i].text = SubSeq(s, rest[i].at + 1, EndOf(s, rest, i))
  <2> TAKE i \in 1 .. Len(fs) - 1
  <2>1. i + 1 \in 1 .. Len(fs)
    BY <1>1
  <2>2. rest[i] = fs[i + 1] /\ EndOf(s, rest, i) = EndOf(s, fs, i + 1)
    BY <1>2, <1>4
  <2> QED BY <1>5, <2>1, <2>2
<1>7. rest = <<>> => EndOf(s, fs, 1) = Len(s)
  <2>1. rest = <<>> => Len(rest) = 0
    OBVIOUS
  <2> QED BY <1>1, <1>2, <2>1 DEF EndOf
<1>8. rest # <<>> => rest[1].at = EndOf(s, fs, 1)
  <2> SUFFICES ASSUME rest # <<>> PROVE rest[1].at = EndOf(s, fs, 1)
    OBVIOUS
  <2>1. Len(rest) # 0
    BY <1>2, EmptySeq
  <2>2. 1 \in 1 .. Len(fs) - 1 /\ Len(fs) # 1
    BY <1>1, <1>2, <2>1
  <2>3. rest[1] = fs[1 + 1]
    BY <1>2, <2>2
  <2> QED BY <2>2, <2>3 DEF EndOf
<1>9. Tiled(s, rest, EndOf(s, fs, 1))
  BY <1>2, <1>6, <1>7, <1>8 DEF Tiled
<1>10. 1 \in 1 .. Len(fs)
  BY <1>1
<1>11. fs[1].at = from
  BY DEF Tiled
<1>12. EndOf(s, fs, 1) \in Nat
  <2>1. CASE Len(fs) = 1
    BY <1>1, <2>1 DEF EndOf
  <2>2. CASE Len(fs) # 1
    <3>1. 1 + 1 \in 1 .. Len(fs)
      BY <1>1, <2>2
    <3> QED BY <1>3, <2>2, <3>1 DEF EndOf
  <2> QED BY <2>1, <2>2
<1> QED
  BY <1>1, <1>2, <1>3, <1>5, <1>9, <1>10, <1>11, <1>12 DEF rest

(* A call in front that fits on the stack leaves all of them such. *)
LEMMA ShallowFront ==
  ASSUME NEW s, NEW f \in Decorating, NEW fs \in Seq(Decorating), AllShallow(s, fs),
         Shallow(s, f)
  PROVE  AllShallow(s, <<f>> \o fs)
<1> DEFINE new == <<f>> \o fs
<1>1. /\ Len(fs) \in Nat /\ DOMAIN new = 1 .. Len(fs) + 1 /\ DOMAIN fs = 1 .. Len(fs)
      /\ new[1] = f /\ \A i \in 1 .. Len(fs) : new[i + 1] = fs[i]
  BY FrontIs
<1> HIDE DEF new
<1>2. ASSUME NEW i \in 1 .. Len(fs) + 1 PROVE Shallow(s, new[i])
  <2>1. CASE i = 1
    BY <1>1, <2>1
  <2>2. CASE i # 1
    <3>1. i - 1 \in 1 .. Len(fs) /\ (i - 1) + 1 = i
      BY <1>1, <2>2
    <3>2. new[i] = fs[i - 1]
      BY <1>1, <3>1
    <3> QED BY <1>1, <3>1, <3>2 DEF AllShallow
  <2> QED BY <2>1, <2>2
<1> QED BY <1>1, <1>2 DEF AllShallow, new

(* What is left of the calls when the first returns fits on the stack. *)
LEMMA ShallowTail ==
  ASSUME NEW s, NEW fs \in Seq(Decorating), fs # <<>>, AllShallow(s, fs)
  PROVE  AllShallow(s, Tail(fs)) /\ Shallow(s, Head(fs))
<1> DEFINE rest == Tail(fs)
<1>1. /\ Len(fs) \in Nat /\ Len(fs) >= 1 /\ DOMAIN fs = 1 .. Len(fs) /\ Head(fs) = fs[1]
  BY EmptySeq, LenProperties
<1>2. DOMAIN rest = 1 .. Len(fs) - 1 /\ \A i \in 1 .. Len(fs) - 1 : rest[i] = fs[i + 1]
  BY <1>1, HeadTailProperties
<1> HIDE DEF rest
<1>3. \A i \in 1 .. Len(fs) - 1 : i + 1 \in 1 .. Len(fs)
  BY <1>1
<1>4. 1 \in 1 .. Len(fs)
  BY <1>1
<1> QED BY <1>1, <1>2, <1>3, <1>4 DEF AllShallow, rest

(* A part of a part of a sequence is a part of the sequence. *)
LEMMA PartOfPart ==
  ASSUME NEW S, NEW s \in Seq(S), NEW a \in Nat, NEW b \in Nat, a <= b, b <= Len(s),
         NEW c \in Nat, NEW d \in Nat, c <= d, d <= b - a
  PROVE  SubSeq(SubSeq(s, a + 1, b), c + 1, d) = SubSeq(s, a + c + 1, a + d)
<1> DEFINE u == SubSeq(s, a + 1, b)
           v == SubSeq(u, c + 1, d)
           x == SubSeq(s, a + c + 1, a + d)
<1>1. Len(s) \in Nat
  OBVIOUS
<1>2. u \in Seq(S) /\ Len(u) = b - a /\ \A i \in 1 .. b - a : u[i] = s[a + i]
  <2>1. \A i \in a + 1 .. b : i \in 1 .. Len(s)
    BY <1>1
  <2>2. Len(u) = IF a + 1 <= b THEN b - (a + 1) + 1 ELSE 0
    BY <2>1, SubSeqProperties
  <2>3. u \in Seq(S) /\ \A i \in 1 .. b - (a + 1) + 1 : u[i] = s[a + 1 + i - 1]
    BY <2>1, SubSeqProperties
  <2>4. b - (a + 1) + 1 = b - a /\ \A i \in 1 .. b - a : a + 1 + i - 1 = a + i
    OBVIOUS
  <2> QED BY <2>2, <2>3, <2>4
<1> HIDE DEF u
<1>3. v \in Seq(S) /\ Len(v) = d - c /\ \A i \in 1 .. d - c : v[i] = u[c + i]
  <2>1. \A i \in c + 1 .. d : i \in 1 .. Len(u)
    BY <1>2
  <2>2. Len(v) = IF c + 1 <= d THEN d - (c + 1) + 1 ELSE 0
    BY <1>2, <2>1, SubSeqProperties
  <2>3. v \in Seq(S) /\ \A i \in 1 .. d - (c + 1) + 1 : v[i] = u[c + 1 + i - 1]
    BY <1>2, <2>1, SubSeqProperties
  <2>4. d - (c + 1) + 1 = d - c /\ \A i \in 1 .. d - c : c + 1 + i - 1 = c + i
    OBVIOUS
  <2> QED BY <2>2, <2>3, <2>4
<1>4. x \in Seq(S) /\ Len(x) = d - c /\ \A i \in 1 .. d - c : x[i] = s[a + c + i]
  <2>1. \A i \in a + c + 1 .. a + d : i \in 1 .. Len(s)
    BY <1>1
  <2>2. Len(x) = IF a + c + 1 <= a + d THEN a + d - (a + c + 1) + 1 ELSE 0
    BY <2>1, SubSeqProperties
  <2>3. /\ x \in Seq(S)
        /\ \A i \in 1 .. a + d - (a + c + 1) + 1 : x[i] = s[a + c + 1 + i - 1]
    BY <2>1, SubSeqProperties
  <2>4. /\ a + d - (a + c + 1) + 1 = d - c
        /\ \A i \in 1 .. d - c : a + c + 1 + i - 1 = a + c + i
    OBVIOUS
  <2> QED BY <2>2, <2>3, <2>4
<1> HIDE DEF v, x
<1>5. \A i \in 1 .. d - c : v[i] = x[i]
  <2> TAKE i \in 1 .. d - c
  <2>1. c + i \in 1 .. b - a /\ a + (c + i) = a + c + i
    OBVIOUS
  <2> QED BY <1>2, <1>3, <1>4, <2>1
<1>6. v = x
  BY <1>3, <1>4, <1>5, SeqEqual
<1> QED BY <1>6 DEF u, v, x

(* The fields of a call. *)
LEMMA CallType ==
  ASSUME NEW text \in Seq(Char), NEW at \in Nat, NEW lang \in Lang, NEW depth \in Nat
  PROVE  LET f == Call(text, at, lang, depth)
         IN  /\ f \in Decorating /\ f.text = text /\ f.at = at /\ f.lang = lang
             /\ f.depth = depth /\ f.first = TRUE
BY DEF Call, Decorating

(* The part of a text between two places *)
PartOf(text, s, at, end) ==
  /\ at \in Nat /\ end \in Nat /\ at <= end /\ end <= Len(s)
  /\ text = SubSeq(s, at + 1, end)

(* The characters of a part of a sequence. *)
LEMMA PartIs ==
  ASSUME NEW S, NEW s \in Seq(S), NEW at, NEW end, NEW text, PartOf(text, s, at, end)
  PROVE  /\ text \in Seq(S) /\ Len(text) = end - at
         /\ \A i \in 1 .. end - at : text[i] = s[at + i]
<1>1. /\ at \in Nat /\ end \in Nat /\ at <= end /\ end <= Len(s) /\ Len(s) \in Nat
      /\ text = SubSeq(s, at + 1, end)
  BY DEF PartOf
<1>2. \A i \in at + 1 .. end : i \in 1 .. Len(s)
  BY <1>1
<1>3. Len(text) = IF at + 1 <= end THEN end - (at + 1) + 1 ELSE 0
  BY <1>1, <1>2, SubSeqProperties
<1>4. text \in Seq(S) /\ \A i \in 1 .. end - (at + 1) + 1 : text[i] = s[at + 1 + i - 1]
  BY <1>1, <1>2, SubSeqProperties
<1>5. end - (at + 1) + 1 = end - at /\ \A i \in 1 .. end - at : at + 1 + i - 1 = at + i
  BY <1>1
<1>6. Len(text) = end - at
  BY <1>1, <1>3
<1> QED BY <1>4, <1>5, <1>6

(* A part of a text is a text. *)
LEMMA PartText ==
  ASSUME NEW s \in Seq(Char), NEW at, NEW end, NEW text, PartOf(text, s, at, end)
  PROVE  text \in Seq(Char) /\ Len(text) = end - at
BY PartIs

(* The part of a part *)
LEMMA PartOfThePart ==
  ASSUME NEW S, NEW s \in Seq(S), NEW at, NEW end, NEW text, PartOf(text, s, at, end),
         NEW c \in Nat, NEW d \in Nat, c <= d, d <= Len(text)
  PROVE  PartOf(SubSeq(text, c + 1, d), s, at + c, at + d)
<1>1. /\ at \in Nat /\ end \in Nat /\ at <= end /\ end <= Len(s) /\ Len(s) \in Nat
      /\ text = SubSeq(s, at + 1, end)
  BY DEF PartOf
<1>2. Len(text) = end - at
  BY PartIs
<1>3. SubSeq(SubSeq(s, at + 1, end), c + 1, d) = SubSeq(s, at + c + 1, at + d)
  BY <1>1, <1>2, PartOfPart
<1>4. at + c \in Nat /\ at + d \in Nat /\ at + c <= at + d /\ at + d <= Len(s)
  BY <1>1, <1>2
<1> QED BY <1>1, <1>3, <1>4 DEF PartOf

(* The calls fs are for what comes from a place on, and fit on the stack. *)
Calls(s, fs, from) == fs \in Seq(Decorating) /\ Tiled(s, fs, from) /\ AllShallow(s, fs)

(* appendDecorations, of a text that ends where the other calls begin *)
LEMMA CallFront ==
  ASSUME NEW s \in Seq(Char), NEW fs, NEW at, NEW to, Calls(s, fs, to),
         NEW text, PartOf(text, s, at, to),
         NEW lang \in Lang, NEW depth \in Nat, Shallow(s, Call(text, at, lang, depth))
  PROVE  Calls(s, AppendDecorations(text, at, lang, depth) \o fs, at)
<1> DEFINE f == Call(text, at, lang, depth)
<1>a. at \in Nat /\ to \in Nat /\ at <= to /\ to <= Len(s) /\ text = SubSeq(s, at + 1, to)
  BY DEF PartOf
<1>b. fs \in Seq(Decorating) /\ Tiled(s, fs, to) /\ AllShallow(s, fs)
  BY DEF Calls
<1>2. Len(text) = to - at /\ text \in Seq(Char)
  BY PartIs
<1>1. f \in Decorating /\ f.text = text /\ f.at = at
  BY <1>a, <1>2 DEF Call, Decorating
<1> HIDE DEF f
<1>3. CASE text = <<>>
  <2>1. AppendDecorations(text, at, lang, depth) = <<>>
    BY <1>3 DEF AppendDecorations
  <2>2. <<>> \o fs = fs
    BY <1>b, ConcatEmptySeq
  <2>3. at = to
    <3>1. Len(text) = 0
      BY <1>3
    <3> QED BY <1>a, <1>2, <3>1
  <2> QED BY <2>1, <2>2, <2>3
<1>4. CASE text # <<>>
  <2>1. AppendDecorations(text, at, lang, depth) = <<f>>
    BY <1>4 DEF AppendDecorations, f
  <2>2. <<f>> \o fs \in Seq(Decorating)
    BY <1>1, <1>b, FrontIs
  <2>3. Tiled(s, <<f>> \o fs, f.at)
    BY <1>1, <1>a, <1>b, TiledFront
  <2>4. AllShallow(s, <<f>> \o fs)
    BY <1>1, <1>b, ShallowFront DEF f
  <2> QED BY <1>1, <2>1, <2>2, <2>3, <2>4 DEF Calls
<1> QED BY <1>3, <1>4

-----------------------------------------------------------------------------
(* Decorations are in the order of the text, the first at its beginning. *)
DecorationsPlaced(ds, from) ==
  /\ \A i, j \in DOMAIN ds : ds[i].at <= from /\ (i <= j => ds[i].at <= ds[j].at)
  /\ ds # <<>> => ds[1].at = 0

(* The fields of decorations. *)
LEMMA DecorationsAre ==
  ASSUME NEW ds \in Seq(Decoration)
  PROVE  /\ Len(ds) \in Nat /\ DOMAIN ds = 1 .. Len(ds)
         /\ \A i \in DOMAIN ds : /\ ds[i] \in Decoration /\ ds[i].at \in Nat
                                 /\ ds[i].style \in Styles
         /\ ds # <<>> <=> Len(ds) > 0
<1>1. \A x \in Decoration : x.at \in Nat /\ x.style \in Styles
  BY DEF Decoration
<1>2. /\ Len(ds) \in Nat /\ DOMAIN ds = 1 .. Len(ds)
      /\ \A i \in DOMAIN ds : ds[i] \in Decoration
  BY LenProperties, ElementOfSeq
<1>3. ds # <<>> <=> Len(ds) > 0
  BY EmptySeq, <1>2
<1> QED BY <1>1, <1>2, <1>3

(* A decoration for the place that was reached keeps them in order. *)
LEMMA DecorationLast ==
  ASSUME NEW ds \in Seq(Decoration), NEW from \in Nat, DecorationsPlaced(ds, from),
         ds = <<>> => from = 0, NEW style \in Styles
  PROVE  LET new == Append(ds, [at |-> from, style |-> style])
         IN  new \in Seq(Decoration) /\ DecorationsPlaced(new, from) /\ new # <<>>
<1> DEFINE d == [at |-> from, style |-> style]
           n == Len(ds)
           new == Append(ds, d)
<1>1. /\ n \in Nat /\ DOMAIN ds = 1 .. n
      /\ \A i \in 1 .. n : ds[i].at \in Nat
      /\ ds # <<>> <=> n > 0
  BY DecorationsAre
<1>2. d \in Decoration /\ d.at = from
  BY DEF Decoration
<1> HIDE DEF d
<1>3. /\ new \in Seq(Decoration) /\ DOMAIN new = 1 .. n + 1 /\ new[n + 1] = d
      /\ \A i \in 1 .. n : new[i] = ds[i]
  BY <1>1, <1>2
<1>4. Len(new) = n + 1
  BY <1>2
<1> HIDE DEF new, n
<1>5. new # <<>>
  BY <1>1, <1>3
<1>6. new[1].at = 0
  <2>1. CASE n = 0
    BY <1>1, <1>2, <1>3, <2>1
  <2>2. CASE n # 0
    <3>1. 1 \in 1 .. n /\ ds # <<>>
      BY <1>1, <2>2
    <3> QED BY <1>3, <3>1 DEF DecorationsPlaced
  <2> QED BY <2>1, <2>2
<1>7. ASSUME NEW i \in 1 .. n + 1, NEW j \in 1 .. n + 1
      PROVE  new[i].at <= from /\ (i <= j => new[i].at <= new[j].at)
  <2>1. \A k \in 1 .. n : ds[k].at <= from
    BY <1>1 DEF DecorationsPlaced
  <2>2. CASE i = n + 1
    <3>1. i <= j => j = n + 1
      BY <1>1, <2>2
    <3> QED BY <1>2, <1>3, <2>2, <3>1
  <2>3. CASE i # n + 1 /\ j = n + 1
    <3>1. i \in 1 .. n
      BY <1>1, <2>3
    <3> QED BY <1>2, <1>3, <2>1, <2>3, <3>1
  <2>4. CASE i # n + 1 /\ j # n + 1
    <3>1. i \in 1 .. n /\ j \in 1 .. n
      BY <1>1, <2>4
    <3>2. i <= j => ds[i].at <= ds[j].at
      BY <1>1, <3>1 DEF DecorationsPlaced
    <3> QED BY <1>3, <2>1, <3>1, <3>2
  <2> QED BY <2>2, <2>3, <2>4
<1>8. DecorationsPlaced(new, from)
  BY <1>3, <1>6, <1>7 DEF DecorationsPlaced
<1> QED BY <1>3, <1>5, <1>8 DEF new, d

(* Decorations that are placed up to a place are placed up to a later one. *)
LEMMA DecorationsFurther ==
  ASSUME NEW ds \in Seq(Decoration), NEW from \in Nat, NEW to \in Nat, from <= to,
         DecorationsPlaced(ds, from)
  PROVE  DecorationsPlaced(ds, to)
<1>1. \A i \in DOMAIN ds : ds[i].at \in Nat
  BY DecorationsAre
<1> QED BY <1>1 DEF DecorationsPlaced

-----------------------------------------------------------------------------
(* The inductive invariant of lexing *)
Place == IF frames = <<>> THEN Len(source) ELSE frames[1].at

(* The variables of applyDecorator up to the end of decorate have their    *)
(* types.                                                                  *)
LexTypes ==
  /\ stage \in {"script", "ready", "lexing", "joining", "done", "failed"}
  /\ source \in Seq(Char)
  /\ tags \in Seq(TagEntry) /\ TagsPlaced(source, tags)
  /\ frames \in Seq(Decorating)
  /\ decorations \in Seq(Decoration)

(* Calls and decorations are in order, and the stack is no deeper than     *)
(* Shallow says.                                                           *)
LexInv ==
  /\ LexTypes
  /\ stage \in {"script", "ready"} => decorations = <<>>
  /\ stage \in {"script", "ready", "lexing"} => w = Nothing
  /\ stage = "lexing" =>
       /\ Tiled(source, frames, Place) /\ AllShallow(source, frames)
       /\ DecorationsPlaced(decorations, Place)
       /\ decorations = <<>> => frames # <<>> /\ frames[1].first /\ Place = 0
  /\ stage = "joining" => decorations # <<>> /\ DecorationsPlaced(decorations, Len(source))

(* The place that the calls tile the text from is where the first of them  *)
(* begins.                                                                 *)
LEMMA PlaceIs ==
  ASSUME NEW fs, NEW s, NEW from, Tiled(s, fs, from)
  PROVE  (IF fs = <<>> THEN Len(s) ELSE fs[1].at) = from
BY DEF Tiled

(* LexInv holds at first. *)
LEMMA LexInit == HighlightInit => LexInv
<1> SUFFICES ASSUME HighlightInit PROVE LexInv
  OBVIOUS
<1>1. /\ stage = "script" /\ source = <<>> /\ tags = <<>> /\ frames = <<>>
      /\ decorations = <<>> /\ w = Nothing
  BY DEF HighlightInit
<1>2. LexTypes
  BY <1>1 DEF LexTypes, TagsPlaced
<1> QED BY <1>1, <1>2 DEF LexInv

(* LexInv after extractTags, when the first call is made for all of the    *)
(* text.                                                                   *)
LEMMA ApplyKeepsLex ==
  ASSUME LexInv, NEW l \in Listings, ApplyDecorator(l) PROVE LexInv'
<1> DEFINE extracted == ExtractTags(l.html)
           lang == LangHandlerForExtension(l.lang, extracted.source)
           f == Call(extracted.source, 0, lang, 1)
<1>1. /\ stage = "ready" /\ stage' = "lexing" /\ source' = extracted.source
      /\ tags' = extracted.tags /\ frames' = <<f>>
      /\ decorations' = decorations /\ w' = w
  BY DEF ApplyDecorator
<1>2. extracted \in Extract
  <2>1. l.html \in Seq(Piece)
    BY HighlightAssumption
  <2> QED BY <2>1, ExtractTagsIs
<1>3. extracted.source \in Seq(Char) /\ extracted.tags \in Seq(TagEntry)
      /\ TagsPlaced(extracted.source, extracted.tags)
  BY <1>2 DEF Extract
<1>4. lang \in Lang
  BY LangHandlerIs
<1> HIDE DEF extracted, lang
<1>5. /\ f \in Decorating /\ f.text = extracted.source /\ f.at = 0 /\ f.depth = 1 /\ f.first
      /\ f.lang = lang
  BY <1>3, <1>4 DEF Call, Decorating
<1>6. decorations = <<>> /\ w = Nothing
  BY <1>1 DEF LexInv
<1> HIDE DEF f
<1>7. LexTypes'
  <2>1. frames' \in Seq(Decorating)
    BY <1>1, <1>5
  <2>2. decorations' \in Seq(Decoration)
    BY <1>1 DEF LexInv, LexTypes
  <2> QED BY <1>1, <1>3, <2>1, <2>2 DEF LexTypes
<1>8. Len(source') \in Nat
  BY <1>1, <1>3
<1>9. Tiled(source', frames', 0) /\ frames'[1] = f /\ frames' # <<>> /\ DOMAIN frames' = 1 .. 1
      /\ Len(frames') = 1
  <2>1. frames'[1] = f /\ frames' # <<>> /\ DOMAIN frames' = 1 .. 1 /\ Len(frames') = 1
    BY <1>1
  <2>2. SubSeq(source', 0 + 1, Len(source')) = source'
    BY <1>1, <1>3, SubSeqFull
  <2>3. EndOf(source', frames', 1) = Len(source')
    BY <2>1 DEF EndOf
  <2> QED BY <1>1, <1>5, <1>8, <2>1, <2>2, <2>3 DEF Tiled
<1>10. Place' = 0
  BY <1>5, <1>9 DEF Place
<1>11. AllShallow(source', frames')
  BY <1>1, <1>5, <1>8, <1>9 DEF AllShallow, Shallow
<1>12. DecorationsPlaced(decorations', 0)
  BY <1>1, <1>6 DEF DecorationsPlaced
<1> QED BY <1>1, <1>5, <1>6, <1>7, <1>9, <1>10, <1>11, <1>12 DEF LexInv

(* What the first call has to do *)
LEMMA FrameIs ==
  ASSUME LexInv, stage = "lexing", frames # <<>>
  PROVE  LET end == EndOf(source, frames, 1)
         IN  /\ Frame \in Decorating
             /\ Frame.text \in Seq(Char) /\ Frame.lang \in Lang /\ Frame.depth \in Nat
             /\ Frame.at \in Nat /\ end \in Nat /\ Frame.at <= end /\ end <= Len(source)
             /\ Len(source) \in Nat
             /\ Frame.text = SubSeq(source, Frame.at + 1, end)
             /\ Len(Frame.text) = end - Frame.at
             /\ Tail(frames) \in Seq(Decorating)
             /\ Tiled(source, Tail(frames), end) /\ AllShallow(source, Tail(frames))
             /\ Shallow(source, Frame)
             /\ Frame.at = Place /\ Frame = frames[1]
<1> DEFINE end == EndOf(source, frames, 1)
<1>1. /\ source \in Seq(Char) /\ frames \in Seq(Decorating)
      /\ Tiled(source, frames, Place) /\ AllShallow(source, frames)
  BY DEF LexInv, LexTypes
<1>2. /\ Tail(frames) \in Seq(Decorating)
      /\ Tiled(source, Tail(frames), end)
      /\ Frame \in Decorating /\ Frame.at = Place
      /\ Place \in Nat /\ end \in Nat /\ Place <= end /\ end <= Len(source)
      /\ Frame.text = SubSeq(source, Place + 1, end)
  BY <1>1, TiledTail DEF Frame
<1>3. AllShallow(source, Tail(frames)) /\ Shallow(source, Frame)
  BY <1>1, ShallowTail DEF Frame
<1>4. \A x \in Decorating : x.text \in Seq(Char) /\ x.lang \in Lang /\ x.depth \in Nat
  BY DEF Decorating
<1> HIDE DEF end
<1>5. Len(source) \in Nat
  BY <1>1
<1>6. Len(SubSeq(source, Place + 1, end)) = end - Place
  <2>1. \A i \in Place + 1 .. end : i \in 1 .. Len(source)
    BY <1>2, <1>5
  <2>2. Len(SubSeq(source, Place + 1, end))
          = IF Place + 1 <= end THEN end - (Place + 1) + 1 ELSE 0
    BY <1>1, <1>2, <2>1, SubSeqProperties
  <2> QED BY <1>2, <2>2
<1>7. Frame = frames[1]
  BY <1>1, HeadTailProperties DEF Frame
<1> QED BY <1>2, <1>3, <1>4, <1>5, <1>6, <1>7 DEF end

(* The style of plain text, with which decorate begins, is in order. *)
LEMMA BegunIs ==
  ASSUME LexInv, stage = "lexing", frames # <<>>
  PROVE  Begun \in Seq(Decoration) /\ DecorationsPlaced(Begun, Place) /\ Begun # <<>>
<1>1. Frame.at = Place /\ Place \in Nat /\ Frame = frames[1]
  BY FrameIs
<1>2. /\ decorations \in Seq(Decoration) /\ DecorationsPlaced(decorations, Place)
      /\ decorations = <<>> => frames[1].first /\ Place = 0
  BY DEF LexInv, LexTypes
<1>3. CASE Frame.first
  <2>1. Begun = Append(decorations, [at |-> Place, style |-> "pln"])
    BY <1>1, <1>3 DEF Begun
  <2>2. "pln" \in Styles
    BY DEF Styles, Style
  <2>3. decorations = <<>> => Place = 0
    BY <1>2
  <2>4. LET new == Append(decorations, [at |-> Place, style |-> "pln"])
        IN  new \in Seq(Decoration) /\ DecorationsPlaced(new, Place) /\ new # <<>>
    BY <1>1, <1>2, <2>2, <2>3, DecorationLast, Zenon
  <2> QED BY <2>1, <2>4
<1>4. CASE ~Frame.first
  <2>1. Begun = decorations
    BY <1>4 DEF Begun
  <2> QED BY <1>1, <1>2, <1>4, <2>1
<1> QED BY <1>3, <1>4

(* LexInv after decorate has returned. *)
LEMMA ReturnKeepsLex ==
  ASSUME LexInv, Return PROVE LexInv'
<1>1. /\ stage = "lexing" /\ frames # <<>> /\ Frame.text = <<>>
      /\ decorations' = Begun /\ frames' = Tail(frames)
      /\ stage' = stage /\ source' = source /\ tags' = tags /\ w' = w
  BY DEF Return
<1> DEFINE end == EndOf(source, frames, 1)
<1>2. /\ Frame.at \in Nat /\ end \in Nat /\ Len(Frame.text) = end - Frame.at
      /\ Tail(frames) \in Seq(Decorating)
      /\ Tiled(source, Tail(frames), end) /\ AllShallow(source, Tail(frames))
      /\ Frame.at = Place
  BY <1>1, FrameIs
<1>3. Begun \in Seq(Decoration) /\ DecorationsPlaced(Begun, Place) /\ Begun # <<>>
  BY <1>1, BegunIs
<1> HIDE DEF end
<1>4. end = Place
  <2>1. Len(Frame.text) = 0
    BY <1>1
  <2> QED BY <1>2, <2>1
<1>5. Tiled(source', frames', Place) /\ AllShallow(source', frames')
  BY <1>1, <1>2, <1>4
<1>6. Place' = Place
  <2>1. (IF frames' = <<>> THEN Len(source') ELSE frames'[1].at) = Place
    BY <1>5, PlaceIs, Zenon
  <2> QED BY <2>1 DEF Place
<1>7. LexTypes'
  BY <1>1, <1>2, <1>3 DEF LexInv, LexTypes
<1>8. w = Nothing
  BY <1>1 DEF LexInv
<1> QED BY <1>1, <1>3, <1>5, <1>6, <1>7, <1>8 DEF LexInv

(* The next token of the first call, and what is left for it *)
Token == SubSeq(Frame.text, 1, TokenLength(Frame.lang, Frame.text,
                                           IF Frame.first THEN "first" ELSE "later"))
Rest == LET length == TokenLength(Frame.lang, Frame.text,
                                  IF Frame.first THEN "first" ELSE "later")
        IN  [Frame EXCEPT !.text = From(@, length + 1), !.at = @ + length,
                          !.first = FALSE]

(* The next token is a part of the text that is not empty, and the calls   *)
(* that are left, with the rest behind it, tile what follows.              *)
LEMMA TokenIs ==
  ASSUME LexInv, stage = "lexing", frames # <<>>, Frame.text # <<>>
  PROVE  /\ Token \in Seq(Char) /\ Len(Token) \in 1 .. Len(Frame.text) /\ Token # <<>>
         /\ PartOf(Token, source, Place, Place + Len(Token))
         /\ Calls(source, <<Rest>> \o Tail(frames), Place + Len(Token))
         /\ Rest \in Decorating
<1> DEFINE end == EndOf(source, frames, 1)
           n == TokenLength(Frame.lang, Frame.text,
                            IF Frame.first THEN "first" ELSE "later")
<1>1. /\ Frame \in Decorating
      /\ Frame.text \in Seq(Char) /\ Frame.lang \in Lang /\ Frame.depth \in Nat
      /\ Frame.at \in Nat /\ end \in Nat /\ Frame.at <= end /\ end <= Len(source)
      /\ Len(source) \in Nat
      /\ Frame.text = SubSeq(source, Frame.at + 1, end)
      /\ Len(Frame.text) = end - Frame.at
      /\ Tail(frames) \in Seq(Decorating)
      /\ Tiled(source, Tail(frames), end) /\ AllShallow(source, Tail(frames))
      /\ Shallow(source, Frame)
      /\ Frame.at = Place
  BY FrameIs
<1>2. n \in 1 .. Len(Frame.text)
  BY <1>1, TokenFits
<1>3. source \in Seq(Char)
  BY DEF LexInv, LexTypes
<1>4. Token = SubSeq(Frame.text, 1, n)
      /\ Rest = [Frame EXCEPT !.text = From(@, n + 1), !.at = @ + n, !.first = FALSE]
  BY DEF Token, Rest
<1> HIDE DEF end, n
<1>5. PartOf(Frame.text, source, Place, end)
  BY <1>1 DEF PartOf
<1>6. n \in Nat /\ n <= Len(Frame.text) /\ Len(Frame.text) \in Nat /\ 0 \in Nat /\ 0 <= n
      /\ Len(Frame.text) <= Len(Frame.text) /\ n >= 1
      /\ Place \in Nat /\ end \in Nat /\ Place + n \in Nat /\ Place + Len(Frame.text) = end
  <2> DEFINE m == Len(Frame.text)
  <2>1. Place \in Nat /\ end \in Nat /\ Place <= end /\ m = end - Place
    BY <1>1
  <2> HIDE DEF m
  <2>2. m \in Nat
    BY <2>1
  <2>3. n \in 1 .. m
    BY <1>2 DEF m
  <2>4. n \in Nat /\ n <= m /\ 0 <= n /\ n >= 1 /\ Place + n \in Nat /\ m <= m
    BY <2>1, <2>2, <2>3
  <2>5. Place + m = end
    BY <2>1, <2>2
  <2> QED BY <2>1, <2>2, <2>4, <2>5 DEF m
<1>7. PartOf(Token, source, Place, Place + n)
  <2>1. PartOf(SubSeq(Frame.text, 0 + 1, n), source, Place + 0, Place + n)
    BY <1>3, <1>5, <1>6, PartOfThePart, Zenon
  <2>2. 0 + 1 = 1 /\ Place + 0 = Place
    BY <1>6
  <2> QED BY <1>4, <2>1, <2>2
<1>8. Token \in Seq(Char) /\ Len(Token) = n
  <2>1. Token \in Seq(Char) /\ Len(Token) = (Place + n) - Place
    BY <1>3, <1>7, PartText, Zenon
  <2> QED BY <1>6, <2>1
<1>9. PartOf(From(Frame.text, n + 1), source, Place + n, end)
  <2>1. PartOf(SubSeq(Frame.text, n + 1, Len(Frame.text)), source, Place + n,
               Place + Len(Frame.text))
    BY <1>3, <1>5, <1>6, PartOfThePart, Zenon
  <2> QED BY <1>6, <2>1 DEF From
<1>10. /\ Rest.text = From(Frame.text, n + 1) /\ Rest.at = Place + n /\ Rest.lang = Frame.lang
       /\ Rest.depth = Frame.depth
  BY <1>1, <1>4 DEF Decorating
<1>11. Rest.text \in Seq(Char) /\ Len(Rest.text) = end - (Place + n)
  BY <1>3, <1>9, <1>10, PartIs
<1>12. Rest \in Decorating
  <2>1. From(Frame.text, n + 1) \in Seq(Char)
    BY <1>10, <1>11
  <2>2. Frame.at + n \in Nat
    BY <1>1, <1>6
  <2> QED BY <1>1, <1>4, <2>1, <2>2 DEF Decorating
<1>13. Shallow(source, Rest)
  <2> DEFINE x == IF TakesWhole(Frame.lang) THEN 1 ELSE 0
  <2>1. Frame.depth + 2 * Len(Frame.text) + x <= 2 * Len(source) + 2
    BY <1>1 DEF Shallow
  <2>2. x \in Nat /\ Len(Frame.text) = end - Place
    BY <1>1
  <2> HIDE DEF x
  <2>3. Frame.depth + 2 * Len(Rest.text) + x <= 2 * Len(source) + 2
    BY <1>1, <1>6, <1>11, <2>1, <2>2, SMTT(30)
  <2> QED BY <1>10, <2>3 DEF Shallow, x
<1>14. <<Rest>> \o Tail(frames) \in Seq(Decorating)
  BY <1>1, <1>12, FrontIs
<1>15. AllShallow(source, <<Rest>> \o Tail(frames))
  BY <1>1, <1>12, <1>13, ShallowFront
<1>16. Tiled(source, <<Rest>> \o Tail(frames), Place + n)
  <2>1. Rest.at <= end /\ Rest.text = SubSeq(source, Rest.at + 1, end)
    BY <1>9, <1>10 DEF PartOf
  <2>2. Tiled(source, <<Rest>> \o Tail(frames), Rest.at)
    BY <1>1, <1>3, <1>12, <2>1, TiledFront
  <2> QED BY <1>10, <2>2
<1>17. Token # <<>>
  <2> HIDE DEF Token
  <2>1. Len(Token) # 0
    BY <1>6, <1>8
  <2> QED BY <2>1
<1> QED BY <1>2, <1>7, <1>8, <1>12, <1>14, <1>15, <1>16, <1>17 DEF Calls

(* A call for a shorter part, or for the same one with a lower weight,     *)
(* leaves room for the calls it makes.                                     *)
LEMMA Deeper ==
  ASSUME NEW d \in Nat, NEW n \in Nat, NEW k \in Nat, NEW x \in 0 .. 1, NEW y \in 0 .. 1,
         NEW room \in Nat, d + 2 * n + x <= room, k < n \/ (k = n /\ y < x)
  PROVE  (d + 1) + 2 * k + y <= room
OBVIOUS

(* Associativity, for four *)
Regroups(a, b, c, d) == ((a \o b) \o c) \o d = a \o (b \o (c \o d))

(* Putting sequences together is associative, for four. *)
LEMMA Regroup ==
  ASSUME NEW S, NEW a \in Seq(S), NEW b \in Seq(S), NEW c \in Seq(S), NEW d \in Seq(S)
  PROVE  Regroups(a, b, c, d)
<1>1. a \o b \in Seq(S) /\ c \o d \in Seq(S)
  OBVIOUS
<1>2. ((a \o b) \o c) \o d = (a \o b) \o (c \o d)
  BY <1>1, ConcatAssociative, SMTT(30)
<1>3. (a \o b) \o (c \o d) = a \o (b \o (c \o d))
  BY <1>1, ConcatAssociative, SMTT(30)
<1> QED BY <1>2, <1>3, Zenon DEF Regroups

(* Associativity *)
Regrouped(a, b, c) == a \o b \o c = a \o (b \o c)

(* Putting sequences together is associative. *)
LEMMA RegroupThree ==
  ASSUME NEW S, NEW a \in Seq(S), NEW b \in Seq(S), NEW c \in Seq(S)
  PROVE  Regrouped(a, b, c)
BY ConcatAssociative DEF Regrouped

(* The parts of a token, and what comes after them *)
LEMMA CallsTile ==
  ASSUME NEW s \in Seq(Char), NEW fs,
         NEW at, NEW token, token # <<>>, PartOf(token, s, at, at + Len(token)),
         Calls(s, fs, at + Len(token)),
         NEW frame \in Decorating, frame.at = at,
         frame.depth + 2 * Len(token) + (IF TakesWhole(frame.lang) THEN 1 ELSE 0)
           <= 2 * Len(s) + 2,
         NEW rule \in Nesting, Length(rule, token, "token") > 0,
         rule \in {"tag", "regexp"} => TakesWhole(frame.lang)
  PROVE  /\ EmbeddedCalls(frame, token, rule) \in Seq(Decorating)
         /\ Calls(s, EmbeddedCalls(frame, token, rule) \o fs, at)
<1> DEFINE part == EmbeddedPart(rule, token)
           a == part[1]
           b == part[2]
           n == Len(token)
           left == SubSeq(token, 1, a)
           inner == SubSeq(token, a + 1, b)
           right == From(token, b + 1)
           lang == LangHandlerForExtension(Embedded[rule], inner)
           depth == frame.depth + 1
           third == AppendDecorations(right, at + b, frame.lang, depth)
           second == AppendDecorations(inner, at + a, lang, depth)
           first == AppendDecorations(left, at, frame.lang, depth)
<1>a. token \in Seq(Char)
  BY PartIs
<1>1. /\ a \in 0 .. n - 1 /\ b \in 1 .. n /\ a <= b
      /\ b - a = n => rule \in {"tag", "regexp"}
  BY <1>a, EmbeddedPartFits
<1>2. EmbeddedCalls(frame, token, rule) = (first \o second) \o third
  BY DEF EmbeddedCalls
<1>3. n \in Nat /\ a \in Nat /\ b \in Nat /\ a <= n /\ b <= n /\ 0 \in Nat /\ 0 <= a /\ n <= n
      /\ at \in Nat /\ at + n \in Nat
  <2>1. n \in Nat
    BY <1>a
  <2>2. at \in Nat /\ at + n \in Nat
    BY DEF PartOf
  <2> HIDE DEF a, b, n
  <2> QED BY <1>1, <2>1, <2>2
<1>4. frame.lang \in Lang /\ lang \in Lang /\ depth \in Nat /\ frame.depth \in Nat
  <2>1. frame.depth \in Nat /\ frame.lang \in Lang
    BY DEF Decorating
  <2>2. lang \in Lang
    BY LangHandlerIs
  <2> QED BY <2>1, <2>2
<1>5. rule \in {"tag", "regexp"} => ~TakesWhole(lang)
  BY WholeOnce
<1>b. PartOf(token, s, at, at + n) /\ Calls(s, fs, at + n)
  BY DEF n
<1> HIDE DEF a, b, lang, depth
<1>6. /\ PartOf(left, s, at, at + a) /\ PartOf(inner, s, at + a, at + b)
      /\ PartOf(right, s, at + b, at + n)
  <2>1. PartOf(SubSeq(token, 0 + 1, a), s, at + 0, at + a)
    BY <1>3, PartOfThePart, Zenon
  <2>2. 0 + 1 = 1 /\ at + 0 = at
    BY <1>3
  <2>3. PartOf(left, s, at, at + a)
    BY <2>1, <2>2
  <2>4. PartOf(inner, s, at + a, at + b)
    BY <1>1, <1>3, PartOfThePart, Zenon
  <2>5. PartOf(right, s, at + b, at + n)
    <3>1. PartOf(SubSeq(token, b + 1, n), s, at + b, at + n)
      BY <1>3, PartOfThePart, Zenon
    <3> QED BY <3>1 DEF From
  <2> QED BY <2>3, <2>4, <2>5
<1> HIDE DEF n, left, inner, right
<1>7. Len(left) = a /\ Len(inner) = b - a /\ Len(right) = n - b
      /\ left \in Seq(Char) /\ inner \in Seq(Char) /\ right \in Seq(Char)
  <2>1. Len(left) = (at + a) - at /\ left \in Seq(Char)
    BY <1>6, PartText, Zenon
  <2>2. Len(inner) = (at + b) - (at + a) /\ inner \in Seq(Char)
    BY <1>6, PartText, Zenon
  <2>3. Len(right) = (at + n) - (at + b) /\ right \in Seq(Char)
    BY <1>6, PartText, Zenon
  <2>4. (at + a) - at = a /\ (at + b) - (at + a) = b - a /\ (at + n) - (at + b) = n - b
    BY <1>3
  <2> QED BY <2>1, <2>2, <2>3, <2>4
<1>c. n \in Nat /\ a \in Int /\ b \in Int /\ 0 <= a /\ a <= n - 1 /\ 1 <= b /\ b <= n
      /\ (b - a = n => rule \in {"tag", "regexp"})
  BY <1>1, <1>3
<1> DEFINE x == IF TakesWhole(frame.lang) THEN 1 ELSE 0
           y == IF TakesWhole(lang) THEN 1 ELSE 0
           room == 2 * Len(s) + 2
<1>8. x \in 0 .. 1 /\ y \in 0 .. 1 /\ room \in Nat
      /\ frame.depth + 2 * n + x <= room /\ depth = frame.depth + 1
      /\ (rule \in {"tag", "regexp"} => x = 1 /\ y = 0)
  <2>1. frame.depth + 2 * n + x <= room
    BY DEF n
  <2>2. room \in Nat
    OBVIOUS
  <2> QED BY <1>5, <2>1, <2>2 DEF depth
<1>9. Shallow(s, Call(left, at, frame.lang, depth))
  <2>1. depth + 2 * Len(left) + x <= room
    <3> HIDE DEF x, y, room
    <3>0. a < n
      BY <1>c
    <3>1. depth + 2 * a + x <= room
      BY <1>3, <1>4, <1>8, <3>0, Deeper
    <3> QED BY <1>7, <3>1
  <2> QED BY <2>1 DEF Shallow, Call
<1>10. Shallow(s, Call(inner, at + a, lang, depth))
  <2>1. depth + 2 * Len(inner) + y <= room
    <3> HIDE DEF x, y, room
    <3>1. depth + 2 * (b - a) + y <= room
      <4>1. b - a \in Nat /\ b - a <= n
        BY <1>1, <1>c
      <4>2. b - a = n => rule \in {"tag", "regexp"}
        BY <1>c
      <4>3. b - a < n \/ (b - a = n /\ y < x)
        <5>1. CASE rule \in {"tag", "regexp"}
          <6>1. x = 1 /\ y = 0
            BY <1>8, <5>1
          <6> QED BY <1>c, <4>1, <6>1
        <5>2. CASE rule \notin {"tag", "regexp"}
          BY <1>c, <4>1, <4>2, <5>2
        <5> QED BY <5>1, <5>2
      <4> DEFINE k == b - a
      <4>4. k \in Nat /\ (k < n \/ (k = n /\ y < x))
        BY <4>1, <4>3
      <4>5. n \in Nat /\ frame.depth \in Nat
        BY <1>3, <1>4
      <4> HIDE DEF k
      <4>6. (frame.depth + 1) + 2 * k + y <= room
        BY <1>8, <4>4, <4>5, Deeper, Zenon
      <4>7. depth + 2 * k + y <= room
        BY <1>8, <4>6, Zenon
      <4> QED BY <4>7 DEF k
    <3> QED BY <1>7, <3>1
  <2> QED BY <2>1 DEF Shallow, Call
<1>11. Shallow(s, Call(right, at + b, frame.lang, depth))
  <2>1. depth + 2 * Len(right) + x <= room
    <3> HIDE DEF x, y, room
    <3>0. n - b \in Nat /\ n - b < n
      BY <1>c
    <3>1. depth + 2 * (n - b) + x <= room
      BY <1>3, <1>4, <1>8, <3>0, Deeper
    <3> QED BY <1>7, <3>1
  <2> QED BY <2>1 DEF Shallow, Call
<1> HIDE DEF x, y, room
<1>12. Calls(s, third \o fs, at + b)
  BY <1>4, <1>6, <1>11, <1>b, CallFront, Zenon
<1>13. Calls(s, second \o (third \o fs), at + a)
  BY <1>4, <1>6, <1>10, <1>12, CallFront, Zenon
<1>14. Calls(s, first \o (second \o (third \o fs)), at)
  BY <1>4, <1>6, <1>9, <1>13, CallFront, Zenon
<1>15. first \in Seq(Decorating) /\ second \in Seq(Decorating) /\ third \in Seq(Decorating)
  <2>1. \A text \in Seq(Char), place \in Nat, l \in Lang :
          AppendDecorations(text, place, l, depth) \in Seq(Decorating)
    <3>1. \A text \in Seq(Char), place \in Nat, l \in Lang :
            Call(text, place, l, depth) \in Decorating
      BY <1>4 DEF Call, Decorating
    <3> QED BY <3>1 DEF AppendDecorations
  <2>2. at + a \in Nat /\ at + b \in Nat
    BY <1>3
  <2> QED BY <1>3, <1>4, <1>7, <2>1, <2>2
<1>16. fs \in Seq(Decorating) /\ third \o fs \in Seq(Decorating)
  BY <1>12 DEF Calls
<1> DEFINE behind == third \o fs
           front == first \o second
<1> HIDE DEF first, second, third
<1>17. ((first \o second) \o third) \o fs = first \o (second \o (third \o fs))
  <2>1. Regroups(first, second, third, fs)
    BY <1>15, <1>16, Regroup
  <2> QED BY <2>1, Zenon DEF Regroups
<1>18. (first \o second) \o third \in Seq(Decorating)
  <2>1. first \o second \in Seq(Decorating)
    BY <1>15, ConcatProperties
  <2> QED BY <1>15, <2>1, ConcatProperties
<1> QED BY <1>2, <1>14, <1>17, <1>18

(* A sequence of one call. *)
LEMMA OneCall == ASSUME NEW f \in Decorating PROVE <<f>> \in Seq(Decorating)
OBVIOUS

(* LexInv after a token of decorate: it got its style, or was cut into     *)
(* parts that tile it.                                                     *)
LEMMA DecorateKeepsLex ==
  ASSUME LexInv, Decorate PROVE LexInv'
<1> DEFINE rule == RuleOf(Frame.lang, Token)
           after == <<Rest>> \o Tail(frames)
<1>1. /\ stage = "lexing" /\ frames # <<>> /\ Frame.text # <<>>
      /\ stage' = stage /\ source' = source /\ tags' = tags /\ w' = w
  BY DEF Decorate
<1>2. IF rule \in DOMAIN Embedded
      THEN decorations' = Begun /\ frames' = EmbeddedCalls(Frame, Token, rule) \o <<Rest>>
                                               \o Tail(frames)
      ELSE /\ decorations' = Append(Begun, [at |-> Frame.at, style |-> Style[rule]])
           /\ frames' = after
  BY Zenon DEF Decorate, Token, Rest
<1>3. /\ Token \in Seq(Char) /\ Len(Token) \in 1 .. Len(Frame.text) /\ Token # <<>>
      /\ PartOf(Token, source, Place, Place + Len(Token))
      /\ Calls(source, after, Place + Len(Token)) /\ Rest \in Decorating
  BY <1>1, TokenIs
<1>4. /\ Frame \in Decorating /\ Frame.lang \in Lang /\ Frame.depth \in Nat
      /\ Len(source) \in Nat /\ Shallow(source, Frame) /\ Frame.at = Place
      /\ Tail(frames) \in Seq(Decorating) /\ Len(Frame.text) \in Nat
  BY <1>1, FrameIs
<1>5. Begun \in Seq(Decoration) /\ DecorationsPlaced(Begun, Place) /\ Begun # <<>>
  BY <1>1, BegunIs
<1>6. /\ rule \in Rule \cup {"none"}
      /\ rule \in Nesting => /\ Length(rule, Token, "token") > 0
                             /\ \E n \in DOMAIN Frame.lang.fallthrough :
                                  Frame.lang.fallthrough[n] = rule
  BY <1>3, <1>4, RuleIs
<1>7. source \in Seq(Char) /\ w = Nothing
  BY <1>1 DEF LexInv, LexTypes
<1>8. Place \in Nat /\ Len(Token) \in Nat /\ Len(Token) <= Len(Frame.text)
      /\ Place <= Place + Len(Token) /\ Place + Len(Token) \in Nat
  <2>1. Place \in Nat
    BY <1>3 DEF PartOf
  <2>2. Len(Token) \in Nat /\ Len(Token) <= Len(Frame.text)
    BY <1>3, <1>4
  <2> QED BY <2>1, <2>2
<1> HIDE DEF rule
<1>9. CASE rule \in Nesting
  <2> DEFINE calls == EmbeddedCalls(Frame, Token, rule) \o after
  <2>1. rule \in {"tag", "regexp"} => TakesWhole(Frame.lang)
    BY <1>6, <1>9 DEF TakesWhole
  <2>2. Frame.depth + 2 * Len(Token) + (IF TakesWhole(Frame.lang) THEN 1 ELSE 0)
          <= 2 * Len(source) + 2
    <3> DEFINE x == IF TakesWhole(Frame.lang) THEN 1 ELSE 0
               room == 2 * Len(source) + 2
               d == Frame.depth
               m == Len(Frame.text)
               n == Len(Token)
    <3>1. d + 2 * m + x <= room
      BY <1>4 DEF Shallow
    <3>2. d \in Nat /\ m \in Nat /\ n \in Nat /\ n <= m /\ x \in 0 .. 1 /\ room \in Nat
      BY <1>4, <1>8
    <3> HIDE DEF x, room, d, m, n
    <3>3. d + 2 * n + x <= room
      BY <3>1, <3>2
    <3> QED BY <3>3 DEF x, room, d, n
  <2>3. /\ EmbeddedCalls(Frame, Token, rule) \in Seq(Decorating)
        /\ Calls(source, calls, Place)
    <3> HIDE DEF after
    <3> QED BY <1>3, <1>4, <1>6, <1>7, <1>9, <2>1, <2>2, CallsTile, Zenon
  <2>4. decorations' = Begun
        /\ frames' = EmbeddedCalls(Frame, Token, rule) \o <<Rest>> \o Tail(frames)
    BY <1>2, <1>9, RuleStyles
  <2>5. frames' = calls
    <3> DEFINE one == <<Rest>>
               rest == Tail(frames)
               parts == EmbeddedCalls(Frame, Token, rule)
    <3>1. one \in Seq(Decorating) /\ rest \in Seq(Decorating) /\ parts \in Seq(Decorating)
      <4>1. parts \in Seq(Decorating)
        BY <2>3
      <4>2. rest \in Seq(Decorating)
        BY <1>4
      <4>3. one \in Seq(Decorating)
        BY <1>3, OneCall, Zenon
      <4> QED BY <4>1, <4>2, <4>3
    <3> HIDE DEF one, rest, parts
    <3>2. Regrouped(parts, one, rest)
      BY <3>1, RegroupThree
    <3> QED BY <2>4, <3>2, Zenon DEF Regrouped, one, rest, parts
  <2>6. Tiled(source', frames', Place) /\ AllShallow(source', frames')
        /\ frames' \in Seq(Decorating)
    BY <1>1, <2>3, <2>5 DEF Calls
  <2>7. Place' = Place
    <3>1. (IF frames' = <<>> THEN Len(source') ELSE frames'[1].at) = Place
      BY <2>6, PlaceIs, Zenon
    <3> QED BY <3>1 DEF Place
  <2>8. LexTypes'
    BY <1>1, <1>5, <2>4, <2>6 DEF LexInv, LexTypes
  <2> QED BY <1>1, <1>5, <1>7, <2>4, <2>6, <2>7, <2>8 DEF LexInv
<1>10. CASE rule \notin Nesting
  <2> DEFINE to == Place + Len(Token)
  <2>1. Style[rule] \in Styles
    BY <1>6, <1>10, RuleStyles DEF Styles
  <2>2. decorations' = Append(Begun, [at |-> Place, style |-> Style[rule]])
        /\ frames' = after
    BY <1>2, <1>4, <1>10, RuleStyles
  <2>3. /\ decorations' \in Seq(Decoration) /\ DecorationsPlaced(decorations', Place)
        /\ decorations' # <<>>
    <3> DEFINE style == Style[rule]
               new == Append(Begun, [at |-> Place, style |-> style])
    <3>1. style \in Styles /\ (Begun = <<>> => Place = 0)
      BY <1>5, <2>1
    <3> HIDE DEF style
    <3>2. new \in Seq(Decoration) /\ DecorationsPlaced(new, Place) /\ new # <<>>
      BY <1>5, <1>8, <3>1, DecorationLast, Zenon
    <3> QED BY <2>2, <3>2 DEF style
  <2>4. DecorationsPlaced(decorations', to)
    BY <1>8, <2>3, DecorationsFurther
  <2>5. Tiled(source', frames', to) /\ AllShallow(source', frames')
        /\ frames' \in Seq(Decorating)
    BY <1>1, <1>3, <2>2 DEF Calls
  <2>6. Place' = to
    <3>1. (IF frames' = <<>> THEN Len(source') ELSE frames'[1].at) = to
      BY <2>5, PlaceIs, Zenon
    <3> QED BY <3>1 DEF Place
  <2>7. LexTypes'
    BY <1>1, <2>3, <2>5 DEF LexInv, LexTypes
  <2> QED BY <1>1, <1>7, <2>3, <2>4, <2>5, <2>6, <2>7 DEF LexInv
<1> QED BY <1>9, <1>10

-----------------------------------------------------------------------------
(* Every step keeps LexInv. *)
LEMMA LexStep == LexInv /\ [HighlightNext]_<<highlightVars, patternVars>> => LexInv'
<1> SUFFICES ASSUME LexInv, [HighlightNext]_<<highlightVars, patternVars>> PROVE LexInv'
  OBVIOUS
<1> USE DEF highlightVars
<1>1. CASE LoadScript
  <2>1. /\ stage = "script" /\ stage' \in {"script", "ready"}
        /\ UNCHANGED <<listing, source, tags, frames, decorations, w>>
    BY <1>1 DEF LoadScript
  <2> QED BY <2>1 DEF LexInv, LexTypes
<1>2. ASSUME NEW l \in Listings, ApplyDecorator(l) PROVE LexInv'
  BY <1>2, ApplyKeepsLex
<1>3. CASE Decorate
  BY <1>3, DecorateKeepsLex
<1>4. CASE Return
  BY <1>4, ReturnKeepsLex
<1>5. CASE Catch
  BY <1>5 DEF Catch, LexInv, LexTypes
<1>6. CASE Join
  <2>1. /\ stage = "lexing" /\ frames = <<>> /\ stage' = "joining"
        /\ UNCHANGED <<listing, source, tags, frames, decorations, w>>
    BY <1>6 DEF Join
  <2>2. Place = Len(source)
    BY <2>1 DEF Place
  <2>3. decorations # <<>> /\ DecorationsPlaced(decorations, Len(source))
    BY <2>1, <2>2 DEF LexInv
  <2> QED BY <2>1, <2>3 DEF LexInv, LexTypes
<1>7. CASE ConsumeTag \/ ConsumeDecoration
  <2>1. stage = "joining" /\ UNCHANGED <<stage, listing, source, tags, frames, decorations>>
    BY <1>7 DEF ConsumeTag, ConsumeDecoration
  <2> QED BY <2>1 DEF LexInv, LexTypes
<1>8. CASE Finish
  <2>1. stage' = "done" /\ UNCHANGED <<listing, source, tags, frames, decorations>>
    BY <1>8 DEF Finish
  <2> QED BY <2>1 DEF LexInv, LexTypes
<1>9. CASE NextElement
  <2>1. /\ stage' = "ready" /\ source' = <<>> /\ tags' = <<>> /\ frames' = <<>>
        /\ decorations' = <<>> /\ w' = Nothing
    BY <1>9 DEF NextElement
  <2> QED BY <2>1 DEF LexInv, LexTypes, TagsPlaced
<1>10. CASE UNCHANGED <<highlightVars, patternVars>>
  BY <1>10 DEF LexInv, LexTypes, Place
<1> QED
  BY <1>1, <1>2, <1>3, <1>4, <1>5, <1>6, <1>7, <1>8, <1>9, <1>10
     DEF HighlightNext, Highlight

(* decorate, for all listings, languages and stack sizes: LexInv is an     *)
(* invariant.                                                              *)
THEOREM Lexing == HighlightSpec => []LexInv
<1>1. HighlightInit => LexInv
  BY LexInit
<1>2. LexInv /\ [HighlightNext]_<<highlightVars, patternVars>> => LexInv'
  BY LexStep
<1> QED BY <1>1, <1>2, PTL DEF HighlightSpec

(* LexInv implies LexingTiles if the stack has room for two calls for each *)
(* character.                                                              *)
LEMMA LexedTiles == LexInv /\ 2 * Len(source) + 2 <= MaxDepth => LexingTiles
<1> SUFFICES ASSUME LexInv, 2 * Len(source) + 2 <= MaxDepth, stage = "lexing"
             PROVE  LexingTiles
  BY DEF LexingTiles
<1>1. /\ Tiled(source, frames, Place) /\ AllShallow(source, frames)
      /\ DecorationsPlaced(decorations, Place) /\ source \in Seq(Char)
      /\ frames \in Seq(Decorating) /\ decorations \in Seq(Decoration)
  BY DEF LexInv, LexTypes
<1>2. ASSUME NEW i \in DOMAIN frames
      PROVE  /\ frames[i].text = SubSeq(source, frames[i].at + 1,
                                   IF i = Len(frames) THEN Len(source) ELSE frames[i + 1].at)
             /\ frames[i].depth <= MaxDepth
  <2>1. frames[i].text = SubSeq(source, frames[i].at + 1,
                                IF i = Len(frames) THEN Len(source) ELSE frames[i + 1].at)
    BY <1>1 DEF Tiled, EndOf
  <2>2. Shallow(source, frames[i])
    BY <1>1 DEF AllShallow
  <2>3. frames[i] \in Decorating
    BY <1>1, LenProperties, ElementOfSeq
  <2>4. frames[i].depth \in Nat /\ frames[i].text \in Seq(Char)
    BY <2>3 DEF Decorating
  <2> DEFINE d == frames[i].depth
             m == Len(frames[i].text)
             x == IF TakesWhole(frames[i].lang) THEN 1 ELSE 0
             room == 2 * Len(source) + 2
  <2>5. d \in Nat /\ m \in Nat /\ x \in Nat /\ room \in Nat /\ MaxDepth \in Nat
    BY <1>1, <2>4, HighlightAssumption
  <2>6. d + 2 * m + x <= room /\ room <= MaxDepth
    BY <2>2 DEF Shallow
  <2> HIDE DEF d, m, x, room
  <2>7. d <= MaxDepth
    BY <2>5, <2>6
  <2> QED BY <2>1, <2>7 DEF d
<1>3. /\ Len(decorations) \in Nat /\ DOMAIN decorations = 1 .. Len(decorations)
      /\ \A i, j \in DOMAIN decorations :
           decorations[i].at <= Place /\ (i <= j => decorations[i].at <= decorations[j].at)
  BY <1>1, DecorationsAre DEF DecorationsPlaced
<1>4. \A i \in 1 .. Len(decorations) - 1 : decorations[i].at <= decorations[i + 1].at
  <2> TAKE i \in 1 .. Len(decorations) - 1
  <2>1. i \in 1 .. Len(decorations) /\ i + 1 \in 1 .. Len(decorations) /\ i <= i + 1
    BY <1>3
  <2> QED BY <1>3, <2>1
<1>5. frames # <<>> /\ decorations # <<>> => Last(decorations).at <= Frame.at
  <2> SUFFICES ASSUME frames # <<>>, decorations # <<>>
               PROVE  Last(decorations).at <= Frame.at
    OBVIOUS
  <2>1. Len(decorations) \in 1 .. Len(decorations)
    BY <1>1, <1>3, EmptySeq
  <2>2. Frame.at = Place
    BY FrameIs
  <2> QED BY <1>3, <2>1, <2>2 DEF Last
<1> QED BY <1>2, <1>4, <1>5 DEF LexingTiles

(* Languages in one another cover each place of the text once and in order *)
(* (LexingTiles), if the stack has room for two calls for each character   *)
(* and two more: no token is decorated as a part of itself without end.    *)
THEOREM LexersTile == HighlightSpec => [](2 * Len(source) + 2 <= MaxDepth => LexingTiles)
<1>1. LexInv => (2 * Len(source) + 2 <= MaxDepth => LexingTiles)
  BY LexedTiles
<1> QED BY <1>1, Lexing, PTL

-----------------------------------------------------------------------------
(* A walk over the items of s, with a state before and after each; the     *)
(* steps are <<state before, item, state after>>.                          *)
Walks(steps, s, from, to) ==
  \E f : /\ f[0] = from /\ f[Len(s)] = to
         /\ \A i \in 1 .. Len(s) : <<f[i - 1], s[i], f[i]>> \in steps

(* Nothing is walked over without a step. *)
LEMMA WalkEmpty == ASSUME NEW steps, NEW a PROVE Walks(steps, <<>>, a, a)
<1> DEFINE f == [i \in 0 .. 0 |-> a]
<1>1. f[0] = a /\ Len(<<>>) = 0 /\ 1 .. 0 = {}
  OBVIOUS
<1> HIDE DEF f
<1> QED BY <1>1 DEF Walks

(* One item is walked over with one step. *)
LEMMA WalkOne ==
  ASSUME NEW steps, NEW a, NEW x, NEW b, <<a, x, b>> \in steps
  PROVE  Walks(steps, <<x>>, a, b)
<1> DEFINE f == [i \in 0 .. 1 |-> IF i = 0 THEN a ELSE b]
<1>1. f[0] = a /\ f[1] = b
  OBVIOUS
<1>2. Len(<<x>>) = 1 /\ <<x>>[1] = x /\ \A i \in 1 .. 1 : i = 1 /\ i - 1 = 0
  OBVIOUS
<1> HIDE DEF f
<1>3. \A i \in 1 .. 1 : <<f[i - 1], <<x>>[i], f[i]>> \in steps
  BY <1>1, <1>2
<1> QED BY <1>1, <1>2, <1>3 DEF Walks

(* A walk goes on where the one before ended. *)
LEMMA WalkConcat ==
  ASSUME NEW steps, NEW S, NEW s \in Seq(S), NEW t \in Seq(S), NEW a, NEW b, NEW c,
         Walks(steps, s, a, b), Walks(steps, t, b, c)
  PROVE  Walks(steps, s \o t, a, c)
<1>1. PICK f : /\ f[0] = a /\ f[Len(s)] = b
               /\ \A i \in 1 .. Len(s) : <<f[i - 1], s[i], f[i]>> \in steps
  BY DEF Walks
<1>2. PICK g : /\ g[0] = b /\ g[Len(t)] = c
               /\ \A i \in 1 .. Len(t) : <<g[i - 1], t[i], g[i]>> \in steps
  BY DEF Walks
<1> DEFINE n == Len(s)
           m == Len(t)
           u == s \o t
           h == [i \in 0 .. n + m |-> IF i <= n THEN f[i] ELSE g[i - n]]
<1>3. n \in Nat /\ m \in Nat
  OBVIOUS
<1>4. Len(u) = n + m /\ \A i \in 1 .. n + m : u[i] = IF i <= n THEN s[i] ELSE t[i - n]
  BY ConcatProperties
<1> HIDE DEF u, n, m
<1>5. \A i \in 0 .. n + m : h[i] = IF i <= n THEN f[i] ELSE g[i - n]
  OBVIOUS
<1> HIDE DEF h
<1>6. h[0] = a /\ h[n] = b
  BY <1>1, <1>3, <1>5 DEF n
<1>7. \A i \in 0 .. m : h[n + i] = g[i]
  <2> TAKE i \in 0 .. m
  <2>1. n + i \in 0 .. n + m /\ (n + i) - n = i /\ (n + i <= n => i = 0)
    BY <1>3
  <2>2. CASE i = 0
    BY <1>1, <1>2, <1>3, <1>5, <2>1, <2>2 DEF n
  <2>3. CASE i # 0
    BY <1>3, <1>5, <2>1, <2>3
  <2> QED BY <2>2, <2>3
<1>8. h[n + m] = c
  <2>1. m \in 0 .. m
    BY <1>3
  <2> QED BY <1>2, <1>7, <2>1 DEF m
<1>9. \A i \in 1 .. n + m : <<h[i - 1], u[i], h[i]>> \in steps
  <2> TAKE i \in 1 .. n + m
  <2>1. CASE i <= n
    <3>1. i \in 1 .. n /\ i - 1 \in 0 .. n + m /\ i \in 0 .. n + m /\ i - 1 <= n
      BY <1>3, <2>1
    <3>2. h[i - 1] = f[i - 1] /\ h[i] = f[i] /\ u[i] = s[i]
      BY <1>4, <1>5, <2>1, <3>1
    <3> QED BY <1>1, <3>1, <3>2 DEF n
  <2>2. CASE ~(i <= n)
    <3> DEFINE j == i - n
    <3>1. j \in 1 .. m /\ j - 1 \in 0 .. m /\ j \in 0 .. m /\ n + j = i /\ n + (j - 1) = i - 1
      BY <1>3, <2>2
    <3> HIDE DEF j
    <3>2. h[i - 1] = g[j - 1] /\ h[i] = g[j]
      BY <1>7, <3>1
    <3>3. u[i] = t[j]
      BY <1>4, <2>2 DEF j
    <3> QED BY <1>2, <3>1, <3>2, <3>3 DEF m
  <2> QED BY <2>1, <2>2
<1>10. h[Len(u)] = c /\ \A i \in 1 .. Len(u) : <<h[i - 1], u[i], h[i]>> \in steps
  BY <1>4, <1>8, <1>9
<1> QED BY <1>6, <1>10 DEF Walks, u

(* A walk that stays where it is *)
LEMMA WalkStays ==
  ASSUME NEW steps, NEW S, NEW s \in Seq(S), NEW a, \A x \in S : <<a, x, a>> \in steps
  PROVE  Walks(steps, s, a, a)
<1> DEFINE f == [i \in 0 .. Len(s) |-> a]
<1>1. Len(s) \in Nat /\ \A i \in 1 .. Len(s) : s[i] \in S
  BY LenProperties, ElementOfSeq
<1>2. \A i \in 0 .. Len(s) : f[i] = a
  OBVIOUS
<1>3. f[0] = a /\ f[Len(s)] = a /\ \A i \in 1 .. Len(s) : f[i - 1] = a /\ f[i] = a
  <2>1. 0 \in 0 .. Len(s) /\ Len(s) \in 0 .. Len(s)
        /\ \A i \in 1 .. Len(s) : i - 1 \in 0 .. Len(s) /\ i \in 0 .. Len(s)
    BY <1>1
  <2> HIDE DEF f
  <2> QED BY <1>2, <2>1
<1> HIDE DEF f
<1>4. \A i \in 1 .. Len(s) : <<f[i - 1], s[i], f[i]>> \in steps
  BY <1>1, <1>3
<1> QED BY <1>3, <1>4 DEF Walks

-----------------------------------------------------------------------------
(* makeTabExpander, a character at a time *)
TextChar(from, to) == [k : {"char"}, c : Char, at : from .. to - 1]
Expansion(from, to) == [chars : Seq(TextChar(from, to)), charInLine : Nat]

(* f is what the tab expander has from a place on. *)
Expands(f, from, column) ==
  f = [at \in from .. Len(source) |->
         IF at = from THEN [chars |-> <<>>, charInLine |-> column]
         ELSE ExpandChar(f[at - 1], at)]

(* A remainder is less than its divisor. *)
LEMMA ModIs == ASSUME NEW a \in Nat, NEW b \in Nat \ {0} PROVE a % b \in 0 .. b - 1
OBVIOUS

(* The characters that one is replaced by *)
ExpandedChars(so, at) ==
  LET c == source[at]
      n == IF c = "\t" THEN PR_TAB_WIDTH - (so.charInLine % PR_TAB_WIDTH) ELSE 1
  IN  [i \in 1 .. n |-> TextToHtml(IF c = "\t" THEN " " ELSE c, at - 1)]

(* A character is expanded to one at least, each with its place. *)
LEMMA ExpandedCharsAre ==
  ASSUME source \in Seq(Char), NEW so, so.charInLine \in Nat, NEW at \in 1 .. Len(source),
         NEW from \in Nat, from < at, NEW to \in Nat, at <= to
  PROVE  /\ ExpandedChars(so, at) \in Seq(TextChar(from, to))
         /\ Len(ExpandedChars(so, at)) >= 1
<1> DEFINE c == source[at]
           n == IF c = "\t" THEN PR_TAB_WIDTH - (so.charInLine % PR_TAB_WIDTH) ELSE 1
           x == TextToHtml(IF c = "\t" THEN " " ELSE c, at - 1)
           new == [i \in 1 .. n |-> x]
<1>1. ExpandedChars(so, at) = new
  BY DEF ExpandedChars
<1>2. c \in Char
  BY ElementOfSeq
<1>3. n \in Nat /\ n >= 1
  <2>1. so.charInLine % PR_TAB_WIDTH \in 0 .. PR_TAB_WIDTH - 1 /\ PR_TAB_WIDTH \in Nat \ {0}
    BY ModIs, HighlightAssumption
  <2> DEFINE m == so.charInLine % PR_TAB_WIDTH
  <2> HIDE DEF m, c
  <2>2. m \in 0 .. PR_TAB_WIDTH - 1 /\ PR_TAB_WIDTH \in Nat \ {0}
    BY <2>1 DEF m
  <2>3. n = IF c = "\t" THEN PR_TAB_WIDTH - m ELSE 1
    BY DEF m
  <2> QED BY <2>2, <2>3
<1>4. x \in TextChar(from, to)
  <2>1. at - 1 \in from .. to - 1
    OBVIOUS
  <2>2. " " \in Char
    BY DEF Char, White
  <2>3. (IF c = "\t" THEN " " ELSE c) \in Char
    BY <1>2, <2>2
  <2> HIDE DEF c
  <2> QED BY <2>1, <2>3 DEF TextToHtml, TextChar
<1> HIDE DEF n, x
<1>5. new \in Seq(TextChar(from, to)) /\ Len(new) = n
  BY <1>3, <1>4
<1> QED BY <1>1, <1>3, <1>5

(* A step of the tab expander appends what its character is expanded to. *)
LEMMA ExpandCharIs ==
  ASSUME source \in Seq(Char), NEW from \in Nat, NEW at \in 1 .. Len(source), from < at,
         NEW to \in Nat, at <= to, NEW so \in Expansion(from, to)
  PROVE  /\ ExpandChar(so, at) \in Expansion(from, to)
         /\ ExpandChar(so, at).chars = so.chars \o ExpandedChars(so, at)
         /\ ExpandChar(so, at).chars # <<>>
<1> DEFINE e == ExpandedChars(so, at)
           n == IF source[at] = "\t" THEN PR_TAB_WIDTH - (so.charInLine % PR_TAB_WIDTH) ELSE 1
           col == IF source[at] = "\n" THEN 0 ELSE so.charInLine + n
<1>1. ExpandChar(so, at) = [chars |-> so.chars \o e, charInLine |-> col]
  BY DEF ExpandChar, ExpandedChars
<1>2. so.chars \in Seq(TextChar(from, to)) /\ so.charInLine \in Nat
  BY DEF Expansion
<1>3. e \in Seq(TextChar(from, to)) /\ Len(e) >= 1
  BY <1>2, ExpandedCharsAre
<1>4. col \in Nat
  <2>1. so.charInLine % PR_TAB_WIDTH \in 0 .. PR_TAB_WIDTH - 1 /\ PR_TAB_WIDTH \in Nat \ {0}
    BY <1>2, ModIs, HighlightAssumption
  <2> DEFINE m == so.charInLine % PR_TAB_WIDTH
  <2>2. m \in 0 .. PR_TAB_WIDTH - 1
    BY <2>1
  <2> HIDE DEF m
  <2>3. n \in Nat
    BY <2>1, <2>2 DEF m
  <2> HIDE DEF n
  <2> QED BY <1>2, <2>3
<1> HIDE DEF e, col
<1>5. so.chars \o e \in Seq(TextChar(from, to)) /\ so.chars \o e # <<>>
  <2> DEFINE old == so.chars
  <2>1. old \in Seq(TextChar(from, to)) /\ Len(old) \in Nat /\ Len(e) \in Nat
    BY <1>2, <1>3
  <2> HIDE DEF old
  <2>2. old \o e \in Seq(TextChar(from, to)) /\ Len(old \o e) = Len(old) + Len(e)
    BY <1>3, <2>1, ConcatProperties
  <2>3. Len(old \o e) # 0
    BY <1>3, <2>1, <2>2
  <2> QED BY <2>2, <2>3 DEF old
<1> QED BY <1>1, <1>4, <1>5 DEF Expansion, e

(* What is said of the expanded text *)
ExpandsTo(from, to, column) ==
  \E f \in [from .. to -> Expansion(from, to)] :
     /\ Expanded(from, to, column) = f[to]
     /\ f[from] = [chars |-> <<>>, charInLine |-> column]
     /\ \A at \in from + 1 .. to : f[at] = ExpandChar(f[at - 1], at)

(* The tab expander returns characters that are not empty, in the order of *)
(* the text, and its column.                                               *)
LEMMA ExpandedIs ==
  ASSUME source \in Seq(Char), NEW from \in Nat, NEW to \in from .. Len(source),
         NEW column \in Nat
  PROVE  ExpandsTo(from, to, column)
<1> DEFINE n == Len(source)
           D == Expansion(from, n)
           base == [chars |-> <<>>, charInLine |-> column]
           step == [x \in (from + 1 .. n) \X D |-> ExpandChar(x[2], x[1])]
<1>1. n \in Int /\ from \in Int /\ from <= n /\ n \in Nat
  OBVIOUS
<1>2. base \in D
  BY DEF Expansion
<1>3. step \in [(from + 1 .. n) \X D -> D]
  <2>1. \A x \in (from + 1 .. n) \X D : ExpandChar(x[2], x[1]) \in D
    <3> TAKE x \in (from + 1 .. n) \X D
    <3>1. x[1] \in 1 .. Len(source) /\ from < x[1] /\ x[1] <= n /\ x[2] \in D
      BY <1>1
    <3> HIDE DEF n
    <3>2. n \in Nat
      BY <1>1
    <3> QED BY <3>1, <3>2, ExpandCharIs
  <2> HIDE DEF D
  <2> QED BY <2>1
<1>4. PICK g \in [from .. n -> D] : Computes(g, from, n, base, step)
  <2> HIDE DEF base, step, D, n
  <2> QED BY <1>1, <1>2, <1>3, RecursionExists
<1>5. \A i \in from + 1 .. n : i - 1 \in from .. n /\ i \in from .. n /\ i # from
  BY <1>1
<1>6. /\ g[from] = base
      /\ \A i \in from + 1 .. n : g[i] = ExpandChar(g[i - 1], i)
      /\ Expands(g, from, column)
  <2>1. \A i \in from .. n : i # from => i - 1 \in from .. n /\ i \in from + 1 .. n
    BY <1>1
  <2>2. \A i \in from .. n : i # from => step[<<i, g[i - 1]>>] = ExpandChar(g[i - 1], i)
    <3>1. \A i \in from .. n : i # from => g[i - 1] \in D
      BY <2>1
    <3> HIDE DEF D
    <3> QED BY <2>1, <3>1
  <2> HIDE DEF step, base, D
  <2>3. g = [i \in from .. n |-> IF i = from THEN base ELSE ExpandChar(g[i - 1], i)]
    BY <1>4, <2>2 DEF Computes
  <2>4. from \in from .. n
    BY <1>1
  <2> HIDE DEF n
  <2>5. g[from] = base
    BY <2>3, <2>4
  <2>6. \A i \in from + 1 .. n : g[i] = ExpandChar(g[i - 1], i)
    BY <1>5, <2>3
  <2> QED BY <2>3, <2>5, <2>6 DEF Expands, base, n
<1> DEFINE f == CHOOSE f : Expands(f, from, column)
<1>7. Expands(f, from, column) /\ Expanded(from, to, column) = f[to]
  <2>1. Expands(f, from, column)
    BY <1>6
  <2> QED BY <2>1 DEF Expanded, Expands
<1> HIDE DEF f, step
<1>8. f[from] = base /\ \A i \in from + 1 .. n : f[i] = ExpandChar(f[i - 1], i)
  BY <1>1, <1>5, <1>7 DEF Expands
<1> HIDE DEF base, D
<1>9. \A i \in from .. n : f[i] = g[i]
  <2> HIDE DEF n
  <2>1. \A i \in from + 1 .. n : f[i - 1] = g[i - 1] => f[i] = g[i]
    BY <1>6, <1>8
  <2>2. from <= n => f[from] = g[from]
    BY <1>6, <1>8
  <2>3. Alike(f, g, from, n)
    BY <2>1, <2>2 DEF Alike
  <2>4. Agree(f, g, from, n)
    BY <1>1, <2>3, AlikeAgree, Zenon
  <2> QED BY <2>4 DEF Agree
<1>10. to \in from .. n
  OBVIOUS
<1> HIDE DEF n
<1>11. \A i \in from .. to : g[i] \in Expansion(from, to)
  <2> DEFINE P == {i \in from .. to : g[i] \in Expansion(from, to)}
  <2>1. from \in P
    <3>1. base \in Expansion(from, to)
      BY DEF base, Expansion
    <3>2. from \in from .. to /\ g[from] = base
      BY <1>1, <1>6, <1>10
    <3> QED BY <3>1, <3>2
  <2>2. ASSUME NEW i \in from .. to - 1, i \in P
        PROVE  i + 1 \in P
    <3>1. i + 1 \in from + 1 .. n /\ i + 1 \in 1 .. Len(source) /\ from < i + 1 /\ i + 1 <= to
          /\ (i + 1) - 1 = i /\ i + 1 \in from .. to /\ to \in Nat
      BY <1>1, <1>10 DEF n
    <3>2. g[i + 1] = ExpandChar(g[i], i + 1)
      BY <1>6, <3>1
    <3>3. ExpandChar(g[i], i + 1) \in Expansion(from, to)
      BY <2>2, <3>1, ExpandCharIs
    <3> QED BY <3>1, <3>2, <3>3
  <2>3. to \in Int
    BY <1>1, <1>10
  <2> HIDE DEF P
  <2>4. from .. to \subseteq P
    BY <1>1, <2>1, <2>2, <2>3, Upwards
  <2> QED BY <2>4 DEF P
<1> DEFINE h == [i \in from .. to |-> g[i]]
<1>12. h \in [from .. to -> Expansion(from, to)]
  BY <1>11
<1>13. \A i \in from .. to : h[i] = g[i]
  OBVIOUS
<1> HIDE DEF h
<1>14. \A i \in from + 1 .. to : i - 1 \in from .. to /\ i \in from .. to /\ i \in from + 1 .. n
  BY <1>1, <1>10
<1>15. to \in from .. to /\ from \in from .. to
  BY <1>1, <1>10
<1>16. Expanded(from, to, column) = h[to]
  BY <1>7, <1>9, <1>10, <1>13, <1>15
<1>17. h[from] = [chars |-> <<>>, charInLine |-> column]
  BY <1>6, <1>13, <1>15 DEF base
<1>18. \A at \in from + 1 .. to : h[at] = ExpandChar(h[at - 1], at)
  BY <1>6, <1>13, <1>14
<1> QED BY <1>12, <1>16, <1>17, <1>18 DEF ExpandsTo

-----------------------------------------------------------------------------
(* The new html *)
Spans == Styles \cup {"none"}
ShownChar(from, to) == [k : {"char"}, c : Char \cup {"nbsp"}, at : from .. to - 1]
Shows == [k : {"char", "break", "item"}, c : Char \cup {"nbsp"}, at : Nat]
Mark == [k : {"span"}, style : Spans] \cup [k : {"/span"}]
Item == Piece \cup Shows \cup Mark

(* A character that is shown is an item, and so is the line break in its   *)
(* place.                                                                  *)
LEMMA ShownCharIs ==
  ASSUME NEW from \in Nat, NEW to \in Nat, NEW x \in ShownChar(from, to)
  PROVE  /\ x \in Item /\ x \in Shows /\ x.k = "char" /\ x.at \in from .. to - 1 /\ x.at \in Nat
         /\ [x EXCEPT !.k = "break"] \in Item /\ [x EXCEPT !.k = "item"] \in Item
BY DEF ShownChar, Item, Shows

(* The marks that begin and end a span are items. *)
LEMMA MarksAre ==
  ASSUME NEW style \in Spans
  PROVE  Open(style) \in Seq(Item) /\ Close \in Seq(Item)
BY DEF Open, Close, Item, Mark

(* A sequence of one item. *)
LEMMA OneItem == ASSUME NEW x \in Item PROVE <<x>> \in Seq(Item)
OBVIOUS

(* lineBreaker makes items of a character. *)
LEMMA BreakCharIs ==
  ASSUME NEW from \in Nat, NEW to \in Nat, NEW x \in ShownChar(from, to), NEW style \in Spans
  PROVE  BreakChar(x, style) \in Seq(Item)
<1> DEFINE item == [x EXCEPT !.k = "item"]
           break == [x EXCEPT !.k = "break"]
<1>1. item \in Item /\ break \in Item /\ x \in Item
  BY ShownCharIs
<1> HIDE DEF item, break
<1>2. Close \o <<item>> \o Open(style) \in Seq(Item)
  <2> DEFINE one == <<item>>
  <2>1. one \in Seq(Item) /\ Open(style) \in Seq(Item) /\ Close \in Seq(Item)
    BY <1>1, OneItem, MarksAre
  <2> HIDE DEF one
  <2>2. Close \o one \in Seq(Item)
    BY <2>1, ConcatProperties
  <2>3. Close \o one \o Open(style) \in Seq(Item)
    BY <2>1, <2>2, ConcatProperties
  <2> QED BY <2>3 DEF one
<1>3. <<break>> \in Seq(Item) /\ <<x>> \in Seq(Item)
  BY <1>1, OneItem
<1>4. BreakChar(x, style) = IF x.c = "\n"
                            THEN IF listing.lineNums THEN Close \o <<item>> \o Open(style)
                                 ELSE <<break>>
                            ELSE <<x>>
  BY DEF BreakChar, LineBreak, item, break
<1> QED BY <1>2, <1>3, <1>4, Zenon

(* lineBreaker, a character at a time *)
Breaks(f, chars, style) ==
  f = [i \in 0 .. Len(chars) |->
         IF i = 0 THEN <<>> ELSE f[i - 1] \o BreakChar(chars[i], style)]

(* The items that lineBreaker has made after each character. *)
LEMMA BrokenIs ==
  ASSUME NEW from \in Nat, NEW to \in Nat, NEW chars \in Seq(ShownChar(from, to)),
         NEW style \in Spans
  PROVE  \E f \in [0 .. Len(chars) -> Seq(Item)] :
           /\ Broken(chars, style) = f[Len(chars)]
           /\ f[0] = <<>>
           /\ \A i \in 1 .. Len(chars) : f[i] = f[i - 1] \o BreakChar(chars[i], style)
<1> DEFINE n == Len(chars)
           D == Seq(Item)
           base == <<>>
           step == [x \in (0 + 1 .. n) \X D |-> x[2] \o BreakChar(chars[x[1]], style)]
<1>1. n \in Int /\ 0 \in Int /\ 0 <= n
  OBVIOUS
<1>2. base \in D
  OBVIOUS
<1>3. step \in [(0 + 1 .. n) \X D -> D]
  <2>1. \A x \in (0 + 1 .. n) \X D : x[2] \o BreakChar(chars[x[1]], style) \in D
    <3> TAKE x \in (0 + 1 .. n) \X D
    <3>1. x[1] \in 1 .. Len(chars) /\ x[2] \in D
      OBVIOUS
    <3>2. chars[x[1]] \in ShownChar(from, to)
      BY <3>1, ElementOfSeq
    <3>3. BreakChar(chars[x[1]], style) \in D
      BY <3>2, BreakCharIs
    <3> QED BY <3>1, <3>3, ConcatProperties
  <2> HIDE DEF D
  <2> QED BY <2>1
<1>4. PICK g \in [0 .. n -> D] : Computes(g, 0, n, base, step)
  <2> HIDE DEF base, step, D, n
  <2> QED BY <1>1, <1>2, <1>3, RecursionExists
<1>5. \A i \in 1 .. n : i - 1 \in 0 .. n /\ i \in 0 .. n /\ i # 0
  BY <1>1
<1>6. /\ g[0] = base
      /\ \A i \in 1 .. n : g[i] = g[i - 1] \o BreakChar(chars[i], style)
      /\ Breaks(g, chars, style)
  <2>1. \A i \in 0 .. n : i # 0 => i - 1 \in 0 .. n /\ i \in 0 + 1 .. n
    BY <1>1
  <2>2. \A i \in 0 .. n : i # 0 =>
          step[<<i, g[i - 1]>>] = g[i - 1] \o BreakChar(chars[i], style)
    <3>1. \A i \in 0 .. n : i # 0 => g[i - 1] \in D
      BY <2>1
    <3> HIDE DEF D
    <3> QED BY <2>1, <3>1
  <2> HIDE DEF step, base, D
  <2>3. g = [i \in 0 .. n |-> IF i = 0 THEN base
                              ELSE g[i - 1] \o BreakChar(chars[i], style)]
    BY <1>4, <2>2 DEF Computes
  <2>4. 0 \in 0 .. n
    BY <1>1
  <2> HIDE DEF n
  <2>5. g[0] = base
    BY <2>3, <2>4
  <2>6. \A i \in 1 .. n : g[i] = g[i - 1] \o BreakChar(chars[i], style)
    BY <1>5, <2>3
  <2> QED BY <2>3, <2>5, <2>6 DEF Breaks, base, n
<1> DEFINE f == CHOOSE f : Breaks(f, chars, style)
<1>7. Breaks(f, chars, style) /\ Broken(chars, style) = f[n]
  <2>1. Breaks(f, chars, style)
    BY <1>6
  <2> QED BY <2>1 DEF Broken, Breaks
<1> HIDE DEF f, step, D
<1>8. f[0] = base /\ \A i \in 1 .. n : f[i] = f[i - 1] \o BreakChar(chars[i], style)
  BY <1>1, <1>5, <1>7 DEF Breaks
<1> HIDE DEF base
<1>9. Agree(f, g, 0, n)
  <2> HIDE DEF n
  <2>0. \A i \in 1 .. n : f[i - 1] = g[i - 1] => f[i] = g[i]
    BY <1>6, <1>8, Zenon
  <2>1. \A i \in 0 + 1 .. n : f[i - 1] = g[i - 1] => f[i] = g[i]
    <3>1. 0 + 1 = 1
      OBVIOUS
    <3> QED BY <2>0, <3>1, Zenon
  <2>2. 0 <= n => f[0] = g[0]
    BY <1>6, <1>8
  <2>3. Alike(f, g, 0, n)
    BY <2>1, <2>2 DEF Alike
  <2> QED BY <1>1, <2>3, AlikeAgree, Zenon
<1>10. f[n] = g[n]
  BY <1>1, <1>9 DEF Agree
<1> QED BY <1>6, <1>7, <1>10 DEF D, base

(* If a step over a character can also be made over what lineBreaker makes *)
(* of it, a walk over characters can be made over their items.             *)
LEMMA BrokenWalks ==
  ASSUME NEW from \in Nat, NEW to \in Nat, NEW chars \in Seq(ShownChar(from, to)),
         NEW style \in Spans, NEW steps, NEW a, NEW b, Walks(steps, chars, a, b),
         \A p, q : \A x \in ShownChar(from, to) :
           <<p, x, q>> \in steps => Walks(steps, BreakChar(x, style), p, q)
  PROVE  Broken(chars, style) \in Seq(Item) /\ Walks(steps, Broken(chars, style), a, b)
<1> DEFINE n == Len(chars)
<1>1. PICK f \in [0 .. n -> Seq(Item)] :
        /\ Broken(chars, style) = f[n] /\ f[0] = <<>>
        /\ \A i \in 1 .. n : f[i] = f[i - 1] \o BreakChar(chars[i], style)
  BY BrokenIs
<1>2. PICK g : /\ g[0] = a /\ g[n] = b
               /\ \A i \in 1 .. n : <<g[i - 1], chars[i], g[i]>> \in steps
  BY DEF Walks
<1>3. n \in Nat /\ \A i \in 1 .. n : chars[i] \in ShownChar(from, to)
  BY LenProperties, ElementOfSeq
<1> HIDE DEF n
<1> DEFINE P == {i \in 0 .. n : Walks(steps, f[i], a, g[i])}
<1>4. 0 \in P
  BY <1>1, <1>2, <1>3, WalkEmpty
<1>5. ASSUME NEW i \in 0 .. n - 1, i \in P
      PROVE  i + 1 \in P
  <2>1. i + 1 \in 1 .. n /\ (i + 1) - 1 = i /\ i + 1 \in 0 .. n /\ i \in 0 .. n
    BY <1>3
  <2> DEFINE x == chars[i + 1]
  <2>2. f[i + 1] = f[i] \o BreakChar(x, style) /\ <<g[i], x, g[i + 1]>> \in steps
        /\ x \in ShownChar(from, to)
    BY <1>1, <1>2, <1>3, <2>1
  <2> HIDE DEF x
  <2>3. Walks(steps, BreakChar(x, style), g[i], g[i + 1])
    BY <2>2
  <2>4. BreakChar(x, style) \in Seq(Item) /\ f[i] \in Seq(Item)
    BY <2>1, <2>2, BreakCharIs
  <2>5. Walks(steps, f[i], a, g[i])
    BY <1>5
  <2>6. Walks(steps, f[i] \o BreakChar(x, style), a, g[i + 1])
    BY <2>3, <2>4, <2>5, WalkConcat
  <2> QED BY <2>1, <2>2, <2>6
<1> HIDE DEF P
<1>6. 0 .. n \subseteq P
  <2>1. 0 \in Int /\ n \in Int
    BY <1>3
  <2> QED BY <1>4, <1>5, <2>1, Upwards
<1>7. n \in 0 .. n
  BY <1>3
<1>8. Walks(steps, f[n], a, g[n]) /\ f[n] \in Seq(Item)
  BY <1>6, <1>7 DEF P
<1> QED BY <1>1, <1>2, <1>8

(* startOrSpaceRe and adjacentSpaceRe, a character at a time *)
Gap == {" ", "\n"}
SpaceBefore(f, last, i) == IF i = 1 THEN last ELSE f[i - 1].c \in Gap
Spaces(f, chars, last) ==
  f = [i \in 1 .. Len(chars) |->
         SpaceChar(IF i = 1 THEN last ELSE f[i - 1].c \in {" ", "\n"}, chars[i])]

(* A character keeps its place and is a space only where the one before is *)
(* none.                                                                   *)
LEMMA SpaceCharIs ==
  ASSUME NEW from \in Nat, NEW to \in Nat, NEW x \in TextChar(from, to), NEW before \in BOOLEAN
  PROVE  LET y == SpaceChar(before, x)
         IN  /\ y \in ShownChar(from, to) /\ y.at = x.at
             /\ y.c = (IF x.c = " " /\ before THEN "nbsp" ELSE x.c)
             /\ y.c = " " => ~before
             /\ x.c \in Char
<1>1. x \in ShownChar(from, to) /\ x.c \in Char
  BY DEF TextChar, ShownChar
<1>2. CASE x.c = " " /\ before
  <2>1. SpaceChar(before, x) = [x EXCEPT !.c = "nbsp"]
    BY <1>2 DEF SpaceChar
  <2> QED BY <1>1, <1>2, <2>1 DEF ShownChar
<1>3. CASE ~(x.c = " " /\ before)
  <2>1. SpaceChar(before, x) = x
    BY <1>3, Zenon DEF SpaceChar
  <2> QED BY <1>1, <1>3, <2>1
<1> QED BY <1>2, <1>3

(* Whether a space comes before is true or false. *)
LEMMA SpaceBeforeIs ==
  ASSUME NEW f, NEW last \in BOOLEAN, NEW i PROVE SpaceBefore(f, last, i) \in BOOLEAN
<1>1. CASE i = 1
  <2>1. SpaceBefore(f, last, i) = last
    BY <1>1, Zenon DEF SpaceBefore
  <2> QED BY <2>1
<1>2. CASE i # 1
  <2>1. SpaceBefore(f, last, i) = (f[i - 1].c \in Gap)
    BY <1>2, Zenon DEF SpaceBefore
  <2>2. (f[i - 1].c \in Gap) \in BOOLEAN
    OBVIOUS
  <2> QED BY <2>1, <2>2, Zenon
<1> QED BY <1>1, <1>2

(* The characters after their spaces were escaped, each by the one before. *)
LEMMA SpacedIs ==
  ASSUME NEW from \in Nat, NEW to \in Nat, NEW chars \in Seq(TextChar(from, to)),
         chars # <<>>, NEW last \in BOOLEAN
  PROVE  LET f == Spaced(chars, last)
         IN  /\ f \in Seq(ShownChar(from, to)) /\ Len(f) = Len(chars)
             /\ \A i \in 1 .. Len(chars) : f[i] = SpaceChar(SpaceBefore(f, last, i), chars[i])
<1> DEFINE n == Len(chars)
           D == ShownChar(from, to)
           base == SpaceChar(last, chars[1])
           step == [x \in (1 + 1 .. n) \X D |-> SpaceChar(x[2].c \in Gap, chars[x[1]])]
<1>1. n \in Int /\ 1 \in Int /\ 1 <= n /\ n \in Nat
  BY EmptySeq
<1>a. \A i \in 1 .. n : chars[i] \in TextChar(from, to)
  BY ElementOfSeq
<1>2. base \in D
  <2>1. chars[1] \in TextChar(from, to)
    BY <1>1, <1>a
  <2> QED BY <2>1, SpaceCharIs
<1>3. step \in [(1 + 1 .. n) \X D -> D]
  <2>1. \A x \in (1 + 1 .. n) \X D : SpaceChar(x[2].c \in Gap, chars[x[1]]) \in D
    <3> TAKE x \in (1 + 1 .. n) \X D
    <3>1. chars[x[1]] \in TextChar(from, to)
      BY <1>1, <1>a
    <3>2. (x[2].c \in Gap) \in BOOLEAN
      OBVIOUS
    <3> QED BY <3>1, <3>2, SpaceCharIs
  <2> HIDE DEF D
  <2> QED BY <2>1
<1>4. PICK g \in [1 .. n -> D] : Computes(g, 1, n, base, step)
  <2> HIDE DEF base, step, D, n
  <2> QED BY <1>1, <1>2, <1>3, RecursionExists
<1>5. \A i \in 1 + 1 .. n : i - 1 \in 1 .. n /\ i \in 1 .. n /\ i # 1
  BY <1>1
<1>6. Spaces(g, chars, last)
  <2>1. \A i \in 1 .. n : i # 1 => i - 1 \in 1 .. n /\ i \in 1 + 1 .. n
    BY <1>1
  <2>2. \A i \in 1 .. n : i # 1 => step[<<i, g[i - 1]>>] = SpaceChar(g[i - 1].c \in Gap, chars[i])
    <3>1. \A i \in 1 .. n : i # 1 => g[i - 1] \in D
      BY <2>1
    <3> HIDE DEF D
    <3> QED BY <2>1, <3>1
  <2> HIDE DEF step, D
  <2>3. g = [i \in 1 .. n |-> IF i = 1 THEN base ELSE SpaceChar(g[i - 1].c \in Gap, chars[i])]
    BY <1>4, <2>2 DEF Computes
  <2>4. g = [i \in 1 .. n |-> SpaceChar(IF i = 1 THEN last ELSE g[i - 1].c \in Gap, chars[i])]
    <3>1. \A i \in 1 .. n :
            (IF i = 1 THEN base ELSE SpaceChar(g[i - 1].c \in Gap, chars[i]))
              = SpaceChar(IF i = 1 THEN last ELSE g[i - 1].c \in Gap, chars[i])
      OBVIOUS
    <3> HIDE DEF base, n
    <3> QED BY <2>3, <3>1
  <2> QED BY <2>4 DEF Spaces, Gap
<1> DEFINE f == CHOOSE f : Spaces(f, chars, last)
<1>7. Spaces(f, chars, last) /\ Spaced(chars, last) = f
  <2>1. Spaces(f, chars, last)
    BY <1>6
  <2> QED BY <2>1 DEF Spaced, Spaces
<1> HIDE DEF f, step, base, D
<1>8. f = [i \in 1 .. n |-> SpaceChar(IF i = 1 THEN last ELSE f[i - 1].c \in Gap, chars[i])]
  BY <1>7 DEF Spaces, Gap
<1> HIDE DEF n
<1>9. \A i \in 1 .. n : f[i] = SpaceChar(SpaceBefore(f, last, i), chars[i])
  BY <1>8 DEF SpaceBefore
<1>10. \A i \in 1 .. n : f[i] \in D
  <2> TAKE i \in 1 .. n
  <2>1. SpaceBefore(f, last, i) \in BOOLEAN /\ chars[i] \in TextChar(from, to)
    BY <1>a, SpaceBeforeIs
  <2> DEFINE b == SpaceBefore(f, last, i)
             x == chars[i]
  <2>2. f[i] = SpaceChar(b, x) /\ b \in BOOLEAN /\ x \in TextChar(from, to)
    BY <1>9, <2>1
  <2> HIDE DEF b, x
  <2>3. SpaceChar(b, x) \in ShownChar(from, to)
    BY <2>2, SpaceCharIs
  <2> QED BY <2>2, <2>3 DEF D
<1>11. f \in [1 .. n -> D]
  BY <1>8, <1>10
<1>12. f \in Seq(D) /\ Len(f) = n
  BY <1>1, <1>11
<1> QED BY <1>7, <1>9, <1>12 DEF n, D

(* Membership is true or false. *)
LEMMA BooleanIs == ASSUME NEW a, NEW S PROVE (a \in S) \in BOOLEAN
OBVIOUS

(* Through the new html no space follows another or begins a line.         *)
SpaceSteps ==
  {e \in BOOLEAN \X Item \X BOOLEAN :
     IF e[2].k \in {"char", "break", "item"}
     THEN (e[2].c = " " => ~e[1]) /\ e[3] = (e[2].c \in Gap)
     ELSE e[3] = e[1]}

(* Through a chunk no plain space follows a space or an end of line, and   *)
(* it is known whether the chunk ends with one.                            *)
LEMMA SpacedWalks ==
  ASSUME NEW from \in Nat, NEW to \in Nat, NEW chars \in Seq(TextChar(from, to)),
         chars # <<>>, NEW last \in BOOLEAN
  PROVE  LET f == Spaced(chars, last)
         IN  Walks(SpaceSteps, f, last, Last(f).c \in Gap)
<1> DEFINE f == Spaced(chars, last)
           n == Len(chars)
           g == [i \in 0 .. n |-> IF i = 0 THEN last ELSE f[i].c \in Gap]
<1>1. /\ f \in Seq(ShownChar(from, to)) /\ Len(f) = n
      /\ \A i \in 1 .. n : f[i] = SpaceChar(SpaceBefore(f, last, i), chars[i])
  BY SpacedIs
<1>2. n \in Nat /\ n >= 1 /\ \A i \in 1 .. n : chars[i] \in TextChar(from, to)
  BY EmptySeq, ElementOfSeq
<1> HIDE DEF f, n
<1>3. /\ g[0] = last /\ g[n] = (f[n].c \in Gap)
      /\ \A i \in 1 .. n : g[i] = (f[i].c \in Gap) /\ g[i - 1] = SpaceBefore(f, last, i)
  <2>1. 0 \in 0 .. n /\ n \in 0 .. n /\ n # 0
    BY <1>2
  <2>2. \A i \in 1 .. n : i \in 0 .. n /\ i - 1 \in 0 .. n /\ i # 0 /\ (i - 1 = 0 <=> i = 1)
    BY <1>2
  <2>3. g[0] = last /\ g[n] = (f[n].c \in Gap)
    BY <2>1
  <2>4. \A i \in 1 .. n : g[i] = (f[i].c \in Gap)
    BY <2>2
  <2>5. \A i \in 1 .. n : g[i - 1] = SpaceBefore(f, last, i)
    BY <2>2 DEF SpaceBefore
  <2> QED BY <2>3, <2>4, <2>5
<1> HIDE DEF g
<1>4. ASSUME NEW i \in 1 .. n
      PROVE  <<g[i - 1], f[i], g[i]>> \in SpaceSteps
  <2> DEFINE x == chars[i]
             b == SpaceBefore(f, last, i)
             y == f[i]
  <2>1. y = SpaceChar(b, x) /\ x \in TextChar(from, to) /\ b \in BOOLEAN
    BY <1>1, <1>2, SpaceBeforeIs
  <2>2. g[i - 1] = b /\ g[i] = (y.c \in Gap)
    BY <1>3
  <2> HIDE DEF x, b, y
  <2>3. y \in ShownChar(from, to) /\ (y.c = " " => ~b)
    BY <2>1, SpaceCharIs
  <2>4. y \in Item /\ y.k = "char"
    BY <2>3, ShownCharIs
  <2>5. <<b, y, y.c \in Gap>> \in SpaceSteps
    <3> DEFINE z == y.c \in Gap
               e == <<b, y, z>>
    <3>1. z \in BOOLEAN
      BY BooleanIs, Zenon
    <3> HIDE DEF z
    <3>2. e \in BOOLEAN \X Item \X BOOLEAN /\ e[1] = b /\ e[2] = y /\ e[3] = z
      BY <2>1, <2>4, <3>1
    <3>3. (e[2].c = " " => ~e[1]) /\ e[3] = (e[2].c \in Gap)
      BY <2>3, <3>2, Zenon DEF z
    <3> HIDE DEF e
    <3>a. e[2].k \in {"char", "break", "item"}
      BY <2>4, <3>2
    <3>4. e \in SpaceSteps
      BY <3>2, <3>3, <3>a, Zenon DEF SpaceSteps
    <3> QED BY <3>4 DEF e, z
  <2> QED BY <2>2, <2>5 DEF y
<1>5. Last(f) = f[n]
  BY <1>1 DEF Last
<1> QED BY <1>1, <1>3, <1>4, <1>5 DEF Walks, f

-----------------------------------------------------------------------------
(* The variables of recombineTagsAndDecorations, between the tags and the  *)
(* decorations of the text                                                 *)
Joining == [tagPos : Nat, decPos : Nat, outputIdx : Nat, open : Spans, current : Spans,
            lastWasSpace : BOOLEAN, charInLine : Nat, html : Seq(Item)]

(* What was emitted ends where the next tag or decoration begins, or       *)
(* before.                                                                 *)
JoinPlaced ==
  /\ w \in Joining
  /\ w.tagPos \in 1 .. Len(tags) + 1 /\ w.decPos \in 1 .. Len(decorations) + 1
  /\ w.outputIdx <= Len(source)
  /\ w.decPos = 1 => w.outputIdx = 0
  /\ w.decPos > 1 => /\ w.current = decorations[w.decPos - 1].style
                     /\ decorations[w.decPos - 1].at <= w.outputIdx
  /\ w.decPos <= Len(decorations) => w.outputIdx <= decorations[w.decPos].at
  /\ w.tagPos <= Len(tags) => w.outputIdx <= tags[w.tagPos].at

(* The fields of recombineTagsAndDecorations. *)
LEMMA JoiningIs ==
  ASSUME NEW x \in Joining
  PROVE  /\ x.tagPos \in Nat /\ x.decPos \in Nat /\ x.outputIdx \in Nat /\ x.open \in Spans
         /\ x.current \in Spans /\ x.lastWasSpace \in BOOLEAN /\ x.charInLine \in Nat
         /\ x.html \in Seq(Item)
BY DEF Joining

(* The end of one span and the beginning of another *)
Switch == IF w.open = w.current THEN <<>>
          ELSE (IF w.open = "none" THEN <<>> ELSE Close) \o Open(w.current)
NextChars(to) == Spaced(Chunk(to).chars, w.lastWasSpace)

(* The marks between two styles are items. *)
LEMMA SwitchIs == ASSUME w \in Joining PROVE Switch \in Seq(Item)
<1>1. w.current \in Spans
  BY JoiningIs
<1>2. Open(w.current) \in Seq(Item) /\ Close \in Seq(Item) /\ <<>> \in Seq(Item)
  BY <1>1, MarksAre
<1>3. \A s, t \in Seq(Item) : s \o t \in Seq(Item)
  BY ConcatProperties
<1>4. (IF w.open = "none" THEN <<>> ELSE Close) \in Seq(Item)
  BY <1>2
<1> DEFINE close == IF w.open = "none" THEN <<>> ELSE Close
<1> HIDE DEF close
<1>5. close \o Open(w.current) \in Seq(Item)
  BY <1>2, <1>3, <1>4 DEF close
<1> QED BY <1>2, <1>5, Zenon DEF Switch, close

(* The next chunk: as many characters after escaping as the tab expander   *)
(* made, and one at least.                                                 *)
LEMMA NextCharsAre ==
  ASSUME source \in Seq(Char), w \in Joining, NEW to \in Nat, w.outputIdx < to,
         to <= Len(source)
  PROVE  /\ Chunk(to) \in Expansion(w.outputIdx, to) /\ Chunk(to).charInLine \in Nat
         /\ Chunk(to).chars \in Seq(TextChar(w.outputIdx, to)) /\ Chunk(to).chars # <<>>
         /\ NextChars(to) \in Seq(ShownChar(w.outputIdx, to)) /\ NextChars(to) # <<>>
         /\ Len(NextChars(to)) = Len(Chunk(to).chars)
<1> DEFINE from == w.outputIdx
<1>1. from \in Nat /\ w.charInLine \in Nat /\ w.lastWasSpace \in BOOLEAN
  BY JoiningIs
<1>2. to \in from .. Len(source) /\ from < to
  BY <1>1
<1>3. Chunk(to) = Expanded(from, to, w.charInLine)
  BY DEF Chunk
<1> DEFINE column == w.charInLine
<1> HIDE DEF from
<1>a. column \in Nat
  BY <1>1
<1> HIDE DEF column
<1>b. ExpandsTo(from, to, column)
  BY <1>1, <1>2, <1>a, ExpandedIs, Zenon
<1>4. PICK f \in [from .. to -> Expansion(from, to)] :
        /\ Expanded(from, to, column) = f[to]
        /\ \A at \in from + 1 .. to : f[at] = ExpandChar(f[at - 1], at)
  BY <1>b DEF ExpandsTo
<1>5. to \in from .. to /\ to - 1 \in from .. to /\ to \in from + 1 .. to /\ to \in 1 .. Len(source)
  BY <1>1, <1>2
<1>6. f[to] \in Expansion(from, to) /\ f[to] = ExpandChar(f[to - 1], to)
      /\ f[to - 1] \in Expansion(from, to)
  BY <1>4, <1>5
<1>7. f[to].chars # <<>>
  <2>1. to <= to
    OBVIOUS
  <2>2. ExpandChar(f[to - 1], to).chars # <<>>
    BY <1>1, <1>2, <1>5, <1>6, <2>1, ExpandCharIs
  <2> QED BY <1>6, <2>2
<1> DEFINE e == Chunk(to)
           chars == e.chars
<1>8. e \in Expansion(from, to) /\ e.chars # <<>>
  BY <1>3, <1>4, <1>6, <1>7 DEF column
<1> HIDE DEF e
<1>9. e.chars \in Seq(TextChar(from, to)) /\ e.charInLine \in Nat
  BY <1>8 DEF Expansion
<1> HIDE DEF chars
<1>10. chars \in Seq(TextChar(from, to)) /\ chars # <<>>
  BY <1>8, <1>9 DEF chars
<1> DEFINE new == Spaced(chars, w.lastWasSpace)
<1>11. new \in Seq(ShownChar(from, to)) /\ Len(new) = Len(chars)
  BY <1>1, <1>10, SpacedIs
<1> HIDE DEF new
<1>12. new # <<>>
  <2>1. Len(chars) # 0
    BY <1>10, EmptySeq
  <2> QED BY <1>11, <2>1
<1>13. NextChars(to) = new
  BY DEF NextChars, new, chars, e
<1> QED
  BY <1>8, <1>9, <1>10, <1>11, <1>12, <1>13 DEF chars, e, from

(* What emitTextUpTo returns *)
Emits(new, to) ==
  /\ new \in Joining
  /\ new.tagPos = w.tagPos /\ new.decPos = w.decPos /\ new.current = w.current
  /\ (to <= w.outputIdx => new = w)
  /\ (~(to <= w.outputIdx) =>
        /\ new.outputIdx = to /\ new.open = w.current
        /\ new.html = w.html \o Switch \o Broken(NextChars(to), w.current)
        /\ new.lastWasSpace = (Last(NextChars(to)).c \in Gap)
        /\ new.charInLine = Chunk(to).charInLine)

(* What emitTextUpTo changes. *)
LEMMA EmitIs ==
  ASSUME source \in Seq(Char), w \in Joining, NEW to \in Nat, to <= Len(source)
  PROVE  Emits(EmitTextUpTo(to), to)
<1> DEFINE new == EmitTextUpTo(to)
           chars == NextChars(to)
           html == w.html \o Switch \o Broken(chars, w.current)
           space == Last(chars).c \in Gap
           column == Chunk(to).charInLine
<1>1. CASE to <= w.outputIdx
  <2>1. new = w
    BY <1>1, Zenon DEF EmitTextUpTo
  <2>2. w.outputIdx \in Nat
    BY JoiningIs
  <2>3. ~(to > w.outputIdx)
    BY <1>1, <2>2
  <2> HIDE DEF new
  <2>4. Emits(new, to)
    BY <1>1, <2>1 DEF Emits
  <2> QED BY <2>4 DEF new
<1>2. CASE to > w.outputIdx
  <2>0. w.outputIdx \in Nat
    BY JoiningIs
  <2>1. ~(to <= w.outputIdx) /\ w.outputIdx < to
    BY <1>2, <2>0
  <2>2. new = [w EXCEPT !.html = html, !.open = w.current, !.lastWasSpace = space,
                        !.charInLine = column, !.outputIdx = to]
    BY <2>1 DEF EmitTextUpTo, NextChars, Switch, Gap
  <2>3. column \in Nat /\ chars \in Seq(ShownChar(w.outputIdx, to))
    BY <2>1, NextCharsAre
  <2>4. html \in Seq(Item)
    <3> DEFINE broken == Broken(chars, w.current)
    <3>1. w.html \in Seq(Item) /\ w.current \in Spans
      BY JoiningIs
    <3> HIDE DEF chars
    <3>2. broken \in Seq(Item)
      <4>1. PICK f \in [0 .. Len(chars) -> Seq(Item)] : Broken(chars, w.current) = f[Len(chars)]
        BY <2>0, <2>3, <3>1, BrokenIs
      <4>2. Len(chars) \in 0 .. Len(chars)
        BY <2>3
      <4> QED BY <4>1, <4>2
    <3>3. Switch \in Seq(Item)
      BY SwitchIs
    <3> HIDE DEF broken
    <3>4. w.html \o Switch \in Seq(Item)
      BY <3>1, <3>3, ConcatProperties
    <3>5. w.html \o Switch \o broken \in Seq(Item)
      BY <3>2, <3>4, ConcatProperties
    <3> QED BY <3>5 DEF broken
  <2>5. space \in BOOLEAN
    BY BooleanIs, Zenon
  <2> HIDE DEF new, html, space, column
  <2>6. new \in Joining
    BY <2>2, <2>3, <2>4, <2>5 DEF Joining
  <2>7. /\ new.tagPos = w.tagPos /\ new.decPos = w.decPos /\ new.current = w.current
        /\ new.outputIdx = to /\ new.open = w.current /\ new.html = html
        /\ new.lastWasSpace = space /\ new.charInLine = column
    BY <2>2 DEF Joining
  <2>8. new.html = w.html \o Switch \o Broken(NextChars(to), w.current)
        /\ new.lastWasSpace = (Last(NextChars(to)).c \in Gap)
        /\ new.charInLine = Chunk(to).charInLine
    BY <2>7 DEF html, space, column
  <2>9. Emits(new, to)
    BY <2>1, <2>6, <2>7, <2>8, Zenon DEF Emits
  <2> QED BY <2>9 DEF new
<1>3. w.outputIdx \in Nat
  BY JoiningIs
<1> QED BY <1>1, <1>2, <1>3

-----------------------------------------------------------------------------
(* The style that decorations give to a place *)
StyleIn(ds, at) == ds[Max({d \in DOMAIN ds : ds[d].at <= at})].style

(* The spans that are open before and behind each item *)
SpanSteps(ds) ==
  {e \in Spans \X Item \X Spans :
     CASE e[2].k = "span" -> e[1] = "none" /\ e[3] = e[2].style /\ e[3] # "none"
       [] e[2].k = "/span" -> e[1] # "none" /\ e[3] = "none"
       [] e[2].k \in {"char", "break"} -> e[1] = StyleIn(ds, e[2].at) /\ e[3] = e[1]
       [] OTHER -> e[1] = "none" /\ e[3] = "none"}

(* A character's style is that of the last decoration that does not begin  *)
(* behind it.                                                              *)
LEMMA StyleHere ==
  ASSUME NEW ds \in Seq(Decoration), NEW from, DecorationsPlaced(ds, from),
         NEW n \in 1 .. Len(ds), NEW at \in Nat, ds[n].at <= at,
         n < Len(ds) => at < ds[n + 1].at
  PROVE  StyleIn(ds, at) = ds[n].style
<1> DEFINE T == {d \in DOMAIN ds : ds[d].at <= at}
<1>1. /\ Len(ds) \in Nat /\ DOMAIN ds = 1 .. Len(ds)
      /\ \A i \in 1 .. Len(ds) : ds[i].at \in Nat
  BY DecorationsAre
<1>2. \A i, j \in 1 .. Len(ds) : i <= j => ds[i].at <= ds[j].at
  BY <1>1 DEF DecorationsPlaced
<1>3. T \subseteq Int /\ n \in T
  BY <1>1
<1>4. \A d \in T : d <= n
  <2> SUFFICES ASSUME NEW d \in T, ~(d <= n) PROVE FALSE
    OBVIOUS
  <2>1. d \in 1 .. Len(ds) /\ n + 1 \in 1 .. Len(ds) /\ n + 1 <= d /\ n < Len(ds)
    BY <1>1
  <2>2. ds[n + 1].at <= ds[d].at /\ ds[d].at <= at /\ at < ds[n + 1].at
    BY <1>2, <2>1
  <2>3. ds[n + 1].at \in Nat /\ ds[d].at \in Nat
    BY <1>1, <2>1
  <2> QED BY <2>2, <2>3
<1> HIDE DEF T
<1>5. Max(T) = n
  BY <1>3, <1>4, MaxUnique
<1> QED BY <1>5 DEF StyleIn, T

(* No piece of the old html is a mark or a character of the new one. *)
LEMMA ShownIsNone ==
  ASSUME NEW x \in Item
  PROVE  /\ x \in Piece => x.k \notin {"span", "/span", "char", "break", "item"}
         /\ x \in Shows => x.k \in {"char", "break", "item"}
BY DEF Item, Shows, Mark, Piece

(* A mark that begins a span is walked over where no span is open. *)
LEMMA SpanOpens ==
  ASSUME NEW ds, NEW style \in Spans, style # "none"
  PROVE  Walks(SpanSteps(ds), Open(style), "none", style)
<1> DEFINE x == [k |-> "span", style |-> style]
           e == <<"none", x, style>>
<1>1. x \in Item /\ x.k = "span" /\ x.style = style
  BY DEF Item, Mark
<1> HIDE DEF x
<1>2. e \in Spans \X Item \X Spans /\ e[1] = "none" /\ e[2] = x /\ e[3] = style
  BY <1>1 DEF Spans
<1> HIDE DEF e
<1>3. e \in SpanSteps(ds)
  BY <1>1, <1>2 DEF SpanSteps
<1>4. Walks(SpanSteps(ds), <<x>>, "none", style)
  BY <1>3, WalkOne DEF e
<1> QED BY <1>4 DEF Open, x

(* A mark that ends a span is walked over where one is open. *)
LEMMA SpanCloses ==
  ASSUME NEW ds, NEW style \in Spans, style # "none"
  PROVE  Walks(SpanSteps(ds), Close, style, "none")
<1> DEFINE x == [k |-> "/span"]
           e == <<style, x, "none">>
<1>1. x \in Item /\ x.k = "/span"
  BY DEF Item, Mark
<1> HIDE DEF x
<1>2. e \in Spans \X Item \X Spans /\ e[1] = style /\ e[2] = x /\ e[3] = "none"
  BY <1>1 DEF Spans
<1> HIDE DEF e
<1>3. e \in SpanSteps(ds)
  BY <1>1, <1>2 DEF SpanSteps
<1>4. Walks(SpanSteps(ds), <<x>>, style, "none")
  BY <1>3, WalkOne DEF e
<1> QED BY <1>4 DEF Close, x

(* A character, the end of a line or a list item, inside the span of its place *)
LEMMA SpanShows ==
  ASSUME NEW ds, NEW x \in Shows, NEW style \in Spans, x.k \in {"char", "break"},
         StyleIn(ds, x.at) = style
  PROVE  <<style, x, style>> \in SpanSteps(ds)
<1> DEFINE e == <<style, x, style>>
<1>1. x \in Item
  BY DEF Item
<1>2. e \in Spans \X Item \X Spans /\ e[1] = style /\ e[2] = x /\ e[3] = style
  BY <1>1
<1> HIDE DEF e
<1>3. e \in SpanSteps(ds)
  BY <1>2 DEF SpanSteps
<1> QED BY <1>3 DEF e

(* All else stands where no span is open. *)
LEMMA SpanStays ==
  ASSUME NEW ds, NEW x \in Item, x.k \notin {"span", "/span", "char", "break"}
  PROVE  <<"none", x, "none">> \in SpanSteps(ds)
<1> DEFINE e == <<"none", x, "none">>
<1>2. e \in Spans \X Item \X Spans /\ e[1] = "none" /\ e[2] = x /\ e[3] = "none"
  BY DEF Spans
<1> HIDE DEF e
<1>3. e \in SpanSteps(ds)
  BY <1>2 DEF SpanSteps
<1> QED BY <1>3 DEF e

(* Three walks, one after the other. *)
LEMMA WalkThree ==
  ASSUME NEW steps, NEW S, NEW s \in Seq(S), NEW t \in Seq(S), NEW u \in Seq(S),
         NEW a, NEW b, NEW c, NEW d,
         Walks(steps, s, a, b), Walks(steps, t, b, c), Walks(steps, u, c, d)
  PROVE  Walks(steps, s \o t \o u, a, d)
<1>1. s \o t \in Seq(S)
  BY ConcatProperties
<1>2. Walks(steps, s \o t, a, c)
  BY WalkConcat, Zenon
<1> DEFINE v == s \o t
<1> HIDE DEF v
<1>3. v \in Seq(S) /\ Walks(steps, v, a, c)
  BY <1>1, <1>2 DEF v
<1>4. Walks(steps, v \o u, a, d)
  BY <1>3, WalkConcat
<1> QED BY <1>4 DEF v

(* What lineBreaker makes of a character is walked over in the span of its *)
(* style: a list item closes and opens it.                                 *)
LEMMA SpanBreaks ==
  ASSUME NEW ds, NEW from \in Nat, NEW to \in Nat, NEW x \in ShownChar(from, to),
         NEW style \in Spans, style # "none", StyleIn(ds, x.at) = style
  PROVE  Walks(SpanSteps(ds), BreakChar(x, style), style, style)
<1> DEFINE item == [x EXCEPT !.k = "item"]
           break == [x EXCEPT !.k = "break"]
<1>1. item \in Item /\ break \in Item /\ x \in Item /\ x \in Shows /\ x.k = "char"
  BY ShownCharIs
<1>2. item.k = "item" /\ break.k = "break" /\ break.at = x.at /\ break \in Shows
  BY <1>1 DEF Shows
<1> HIDE DEF item, break
<1>3. BreakChar(x, style) = IF x.c = "\n"
                            THEN IF listing.lineNums THEN Close \o <<item>> \o Open(style)
                                 ELSE <<break>>
                            ELSE <<x>>
  BY DEF BreakChar, LineBreak, item, break
<1>4. Walks(SpanSteps(ds), <<x>>, style, style)
  <2>1. <<style, x, style>> \in SpanSteps(ds)
    BY <1>1, SpanShows
  <2> QED BY <2>1, WalkOne
<1>5. Walks(SpanSteps(ds), <<break>>, style, style)
  <2>1. <<style, break, style>> \in SpanSteps(ds)
    BY <1>2, SpanShows
  <2> QED BY <2>1, WalkOne
<1>6. Walks(SpanSteps(ds), Close \o <<item>> \o Open(style), style, style)
  <2>1. <<"none", item, "none">> \in SpanSteps(ds)
    BY <1>1, <1>2, SpanStays
  <2>2. Walks(SpanSteps(ds), <<item>>, "none", "none")
    BY <2>1, WalkOne
  <2> DEFINE one == <<item>>
  <2>3. one \in Seq(Item) /\ Close \in Seq(Item) /\ Open(style) \in Seq(Item)
    BY <1>1, OneItem, MarksAre
  <2> HIDE DEF one
  <2>4. Walks(SpanSteps(ds), Close, style, "none") /\ Walks(SpanSteps(ds), one, "none", "none")
        /\ Walks(SpanSteps(ds), Open(style), "none", style)
    BY <2>2, SpanOpens, SpanCloses DEF one
  <2>5. Walks(SpanSteps(ds), Close \o one \o Open(style), style, style)
    BY <2>3, <2>4, WalkThree, Zenon
  <2> QED BY <2>5 DEF one
<1> QED BY <1>3, <1>4, <1>5, <1>6, Zenon

(* Marks and tags do not change whether a space is the last character      *)
(* shown.                                                                  *)
LEMMA SpaceStays ==
  ASSUME NEW x \in Item, x.k \notin {"char", "break", "item"}, NEW p \in BOOLEAN
  PROVE  <<p, x, p>> \in SpaceSteps
<1> DEFINE e == <<p, x, p>>
<1>1. e \in BOOLEAN \X Item \X BOOLEAN /\ e[1] = p /\ e[2] = x /\ e[3] = p
  OBVIOUS
<1> HIDE DEF e
<1>2. e \in SpaceSteps
  BY <1>1 DEF SpaceSteps
<1> QED BY <1>2 DEF e

(* For spaces a line break counts like the character in its place. *)
LEMMA SpaceShows ==
  ASSUME NEW x \in Item, NEW y \in Item, x.k \in {"char", "break", "item"},
         y.k \in {"char", "break", "item"}, y.c = x.c, NEW p, NEW q,
         <<p, x, q>> \in SpaceSteps
  PROVE  <<p, y, q>> \in SpaceSteps
<1> DEFINE d == <<p, x, q>>
           e == <<p, y, q>>
<1>1. d \in SpaceSteps /\ d[1] = p /\ d[2] = x /\ d[3] = q
  OBVIOUS
<1>2. e[1] = p /\ e[2] = y /\ e[3] = q
  OBVIOUS
<1>3. p \in BOOLEAN /\ q \in BOOLEAN
  BY DEF SpaceSteps
<1>4. e \in BOOLEAN \X Item \X BOOLEAN
  BY <1>3
<1> HIDE DEF d, e
<1>5. (d[2].c = " " => ~d[1]) /\ d[3] = (d[2].c \in Gap)
  BY <1>1 DEF SpaceSteps
<1>6. (e[2].c = " " => ~e[1]) /\ e[3] = (e[2].c \in Gap)
  BY <1>1, <1>2, <1>5, Zenon
<1>7. e \in SpaceSteps
  BY <1>2, <1>4, <1>6, Zenon DEF SpaceSteps
<1> QED BY <1>7 DEF e

(* What lineBreaker makes of a character is walked over like the           *)
(* character.                                                              *)
LEMMA SpaceBreaks ==
  ASSUME NEW from \in Nat, NEW to \in Nat, NEW x \in ShownChar(from, to),
         NEW style \in Spans, NEW p, NEW q, <<p, x, q>> \in SpaceSteps
  PROVE  Walks(SpaceSteps, BreakChar(x, style), p, q)
<1> DEFINE item == [x EXCEPT !.k = "item"]
           break == [x EXCEPT !.k = "break"]
           span == [k |-> "span", style |-> style]
           end == [k |-> "/span"]
<1>1. item \in Item /\ break \in Item /\ x \in Item /\ x \in Shows /\ x.k = "char"
  BY ShownCharIs
<1>2. item.k = "item" /\ break.k = "break" /\ break.c = x.c /\ item.c = x.c
  BY <1>1 DEF Shows
<1>3. span \in Item /\ span.k = "span" /\ end \in Item /\ end.k = "/span"
  BY DEF Item, Mark
<1>4. p \in BOOLEAN /\ q \in BOOLEAN
  BY DEF SpaceSteps
<1> HIDE DEF item, break, span, end
<1>5. BreakChar(x, style) = IF x.c = "\n"
                            THEN IF listing.lineNums THEN Close \o <<item>> \o Open(style)
                                 ELSE <<break>>
                            ELSE <<x>>
  BY DEF BreakChar, LineBreak, item, break
<1>6. Walks(SpaceSteps, <<x>>, p, q)
  BY WalkOne
<1>7. Walks(SpaceSteps, <<break>>, p, q)
  <2>1. <<p, break, q>> \in SpaceSteps
    BY <1>1, <1>2, SpaceShows
  <2> QED BY <2>1, WalkOne
<1>8. Walks(SpaceSteps, Close \o <<item>> \o Open(style), p, q)
  <2>1. <<p, item, q>> \in SpaceSteps
    BY <1>1, <1>2, SpaceShows
  <2>2. Walks(SpaceSteps, <<item>>, p, q)
    BY <2>1, WalkOne
  <2>3. Walks(SpaceSteps, Close, p, p)
    <3>1. <<p, end, p>> \in SpaceSteps
      BY <1>3, <1>4, SpaceStays
    <3> QED BY <3>1, WalkOne DEF Close, end
  <2>4. Walks(SpaceSteps, Open(style), q, q)
    <3>1. <<q, span, q>> \in SpaceSteps
      BY <1>3, <1>4, SpaceStays
    <3> QED BY <3>1, WalkOne DEF Open, span
  <2> DEFINE one == <<item>>
  <2>5. one \in Seq(Item) /\ Close \in Seq(Item) /\ Open(style) \in Seq(Item)
    BY <1>1, OneItem, MarksAre
  <2> HIDE DEF one
  <2>6. Walks(SpaceSteps, one, p, q)
    BY <2>2 DEF one
  <2>7. Walks(SpaceSteps, Close \o one \o Open(style), p, q)
    BY <2>3, <2>4, <2>5, <2>6, WalkThree, Zenon
  <2> QED BY <2>7 DEF one
<1> QED BY <1>5, <1>6, <1>7, <1>8, Zenon

-----------------------------------------------------------------------------
(* The html so far, of which the last span is still open *)
Walked(x) ==
  /\ x.html \in Seq(Item)
  /\ Walks(SpanSteps(decorations), x.html, "none", x.open)
  /\ Walks(SpaceSteps, x.html, TRUE, x.lastWasSpace)

(* The current style is that of all characters up to the next decoration. *)
LEMMA CurrentIs ==
  ASSUME LexInv, stage = "joining", JoinPlaced, w.decPos > 1
  PROVE  /\ w.current \in Styles /\ w.current # "none" /\ w.current \in Spans
         /\ \A at \in Nat :
              (/\ w.outputIdx <= at
               /\ w.decPos <= Len(decorations) => at < decorations[w.decPos].at)
              => StyleIn(decorations, at) = w.current
<1>1. /\ decorations \in Seq(Decoration) /\ DecorationsPlaced(decorations, Len(source))
  BY DEF LexInv, LexTypes
<1>2. /\ Len(decorations) \in Nat
      /\ \A i \in 1 .. Len(decorations) : /\ decorations[i].at \in Nat
                                          /\ decorations[i].style \in Styles
  BY <1>1, DecorationsAre
<1>3. /\ w.decPos \in 1 .. Len(decorations) + 1 /\ w.outputIdx \in Nat
      /\ w.current = decorations[w.decPos - 1].style
      /\ decorations[w.decPos - 1].at <= w.outputIdx
  BY JoiningIs DEF JoinPlaced
<1> DEFINE n == w.decPos - 1
<1>4. n \in 1 .. Len(decorations) /\ n + 1 = w.decPos
      /\ (n < Len(decorations) => w.decPos <= Len(decorations))
  BY <1>2, <1>3
<1>5. w.current \in Styles /\ w.current # "none" /\ w.current \in Spans
  BY <1>2, <1>3, <1>4, NoneIsNoStyle DEF Spans
<1>6. ASSUME NEW at \in Nat, w.outputIdx <= at,
             w.decPos <= Len(decorations) => at < decorations[w.decPos].at
      PROVE  StyleIn(decorations, at) = w.current
  <2> HIDE DEF n
  <2>1. decorations[n].at <= at
    BY <1>2, <1>3, <1>4, <1>6 DEF n
  <2>2. n < Len(decorations) => at < decorations[n + 1].at
    BY <1>4, <1>6
  <2>3. StyleIn(decorations, at) = decorations[n].style
    BY <1>1, <1>4, <2>1, <2>2, StyleHere, Zenon
  <2> QED BY <1>3, <2>3 DEF n
<1> QED BY <1>5, <1>6

(* The marks between two styles end the span that is open and begin the    *)
(* new one.                                                                *)
LEMMA SwitchWalks ==
  ASSUME w \in Joining, w.current # "none", NEW ds
  PROVE  Walks(SpanSteps(ds), Switch, w.open, w.current)
<1>1. w.open \in Spans /\ w.current \in Spans
  BY JoiningIs
<1>2. CASE w.open = w.current
  BY <1>2, WalkEmpty DEF Switch
<1>3. CASE w.open # w.current
  <2> DEFINE close == IF w.open = "none" THEN <<>> ELSE Close
  <2>1. Walks(SpanSteps(ds), close, w.open, "none") /\ close \in Seq(Item)
    <3>1. CASE w.open = "none"
      BY <3>1, WalkEmpty
    <3>2. CASE w.open # "none"
      BY <1>1, <3>2, SpanCloses, MarksAre
    <3> QED BY <3>1, <3>2
  <2>2. Walks(SpanSteps(ds), Open(w.current), "none", w.current) /\ Open(w.current) \in Seq(Item)
    BY <1>1, SpanOpens, MarksAre
  <2> HIDE DEF close
  <2>3. Walks(SpanSteps(ds), close \o Open(w.current), w.open, w.current)
    BY <2>1, <2>2, WalkConcat
  <2> QED BY <1>3, <2>3 DEF Switch, close
<1> QED BY <1>2, <1>3

(* The marks between two styles show nothing. *)
LEMMA SwitchStays ==
  ASSUME w \in Joining, NEW p \in BOOLEAN
  PROVE  Walks(SpaceSteps, Switch, p, p)
<1>1. w.current \in Spans /\ w.open \in Spans
  BY JoiningIs
<1> DEFINE span == [k |-> "span", style |-> w.current]
           end == [k |-> "/span"]
<1>2. span \in Mark /\ end \in Mark
  BY <1>1 DEF Mark
<1>3. Open(w.current) \in Seq(Mark) /\ Close \in Seq(Mark) /\ <<>> \in Seq(Mark)
  BY <1>2 DEF Open, Close
<1> HIDE DEF span, end
<1> DEFINE close == IF w.open = "none" THEN <<>> ELSE Close
<1>4. close \in Seq(Mark)
  BY <1>3
<1> HIDE DEF close
<1>5. close \o Open(w.current) \in Seq(Mark)
  BY <1>3, <1>4, ConcatProperties
<1>6. Switch \in Seq(Mark)
  BY <1>3, <1>5, Zenon DEF Switch, close
<1>7. \A x \in Mark : <<p, x, p>> \in SpaceSteps
  <2> TAKE x \in Mark
  <2>1. x \in Item /\ x.k \notin {"char", "break", "item"}
    BY DEF Item, Mark
  <2> QED BY <2>1, SpaceStays
<1> QED BY <1>6, <1>7, WalkStays

(* What is said of the text that was emitted up to a place *)
EmitsTo(new, to) ==
  /\ new \in Joining /\ Walked(new)
  /\ new.tagPos = w.tagPos /\ new.decPos = w.decPos /\ new.current = w.current
  /\ new.outputIdx = to

(* emitTextUpTo goes on with the walks over the new html: its text is in   *)
(* spans of its style, and its spaces are kept.                            *)
LEMMA EmitWalks ==
  ASSUME LexInv, stage = "joining", JoinPlaced, Walked(w), NEW to \in Nat,
         w.outputIdx <= to, to <= Len(source), w.decPos = 1 => to = 0,
         w.decPos <= Len(decorations) => to <= decorations[w.decPos].at
  PROVE  EmitsTo(EmitTextUpTo(to), to)
<1> DEFINE new == EmitTextUpTo(to)
<1>1. source \in Seq(Char) /\ w \in Joining /\ w.decPos \in Nat /\ w.outputIdx \in Nat
      /\ w.decPos >= 1
  BY JoiningIs DEF LexInv, LexTypes, JoinPlaced
<1>2. Emits(new, to)
  BY <1>1, EmitIs, Zenon
<1> HIDE DEF new
<1>3. CASE to <= w.outputIdx
  <2>1. new = w /\ w.outputIdx = to
    BY <1>1, <1>2, <1>3 DEF Emits
  <2>2. EmitsTo(w, to)
    BY <1>1, <2>1 DEF EmitsTo
  <2> QED BY <2>1, <2>2 DEF new
<1>4. CASE ~(to <= w.outputIdx)
  <2>1. /\ new \in Joining
        /\ new.tagPos = w.tagPos /\ new.decPos = w.decPos /\ new.current = w.current
        /\ new.outputIdx = to /\ new.open = w.current
        /\ new.html = w.html \o Switch \o Broken(NextChars(to), w.current)
        /\ new.lastWasSpace = (Last(NextChars(to)).c \in Gap)
    BY <1>2, <1>4 DEF Emits
  <2>2. w.outputIdx < to /\ w.decPos > 1
    BY <1>1, <1>4
  <2> DEFINE from == w.outputIdx
             style == w.current
             chars == NextChars(to)
             broken == Broken(chars, style)
             part == Switch
             html == w.html
             spans == SpanSteps(decorations)
             space == Last(chars).c \in Gap
  <2>3. /\ style \in Spans /\ style # "none"
        /\ \A at \in from .. to - 1 : StyleIn(decorations, at) = style
    <3>1. /\ style \in Spans /\ style # "none"
          /\ \A at \in Nat :
               (/\ w.outputIdx <= at
                /\ w.decPos <= Len(decorations) => at < decorations[w.decPos].at)
               => StyleIn(decorations, at) = w.current
      BY <2>2, CurrentIs
    <3>2. w.decPos <= Len(decorations) => decorations[w.decPos].at \in Nat
      <4>1. decorations \in Seq(Decoration)
        BY DEF LexInv, LexTypes
      <4>2. w.decPos <= Len(decorations) => w.decPos \in 1 .. Len(decorations)
        BY <1>1, <4>1
      <4> QED BY <4>1, <4>2, DecorationsAre
    <3>3. ASSUME NEW at \in from .. to - 1
          PROVE  StyleIn(decorations, at) = style
      <4>1. at \in Nat /\ w.outputIdx <= at /\ at < to
        BY <1>1
      <4>2. w.decPos <= Len(decorations) => at < decorations[w.decPos].at
        BY <3>2, <4>1
      <4> QED BY <3>1, <4>1, <4>2
    <3> QED BY <3>1, <3>3
  <2>4. /\ Chunk(to).chars \in Seq(TextChar(from, to)) /\ Chunk(to).chars # <<>>
        /\ chars \in Seq(ShownChar(from, to)) /\ chars # <<>>
    BY <1>1, <2>2, NextCharsAre
  <2>5. html \in Seq(Item) /\ Walks(spans, html, "none", w.open)
        /\ Walks(SpaceSteps, html, TRUE, w.lastWasSpace) /\ w.lastWasSpace \in BOOLEAN
    BY <1>1, JoiningIs DEF Walked
  <2>6. part \in Seq(Item) /\ Walks(spans, part, w.open, style)
        /\ Walks(SpaceSteps, part, w.lastWasSpace, w.lastWasSpace)
    BY <1>1, <2>3, <2>5, SwitchIs, SwitchWalks, SwitchStays
  <2>7. Walks(SpaceSteps, chars, w.lastWasSpace, space)
    <3> DEFINE text == Chunk(to).chars
               last == w.lastWasSpace
    <3>1. text \in Seq(TextChar(from, to)) /\ text # <<>> /\ last \in BOOLEAN
      BY <2>4, <2>5
    <3>2. chars = Spaced(text, last)
      BY DEF NextChars
    <3> HIDE DEF text, last, chars
    <3>3. Walks(SpaceSteps, Spaced(text, last), last, Last(Spaced(text, last)).c \in Gap)
      BY <1>1, <3>1, SpacedWalks
    <3> QED BY <3>2, <3>3, Zenon DEF last
  <2> HIDE DEF chars, style, spans, space, part, html, from
  <2>8. from \in Nat
    BY <1>1 DEF from
  <2>9. \A x \in ShownChar(from, to) : StyleIn(decorations, x.at) = style /\ x \in Shows
                                       /\ x.k = "char"
    BY <2>3, <2>8, ShownCharIs
  <2>10. broken \in Seq(Item) /\ Walks(spans, broken, style, style)
    <3>1. Walks(spans, chars, style, style)
      <4>1. \A x \in ShownChar(from, to) : <<style, x, style>> \in spans
        BY <2>3, <2>9, SpanShows DEF spans
      <4> QED BY <2>4, <4>1, WalkStays
    <3>2. ASSUME NEW p, NEW q, NEW x \in ShownChar(from, to), <<p, x, q>> \in spans
          PROVE  Walks(spans, BreakChar(x, style), p, q)
      <4> DEFINE e == <<p, x, q>>
      <4>1. e \in spans /\ e[1] = p /\ e[2] = x /\ e[3] = q
        BY <3>2
      <4> HIDE DEF e
      <4>2. p = style /\ q = style
        BY <2>9, <4>1 DEF spans, SpanSteps
      <4>3. Walks(spans, BreakChar(x, style), style, style)
        BY <2>3, <2>8, <2>9, SpanBreaks DEF spans
      <4> QED BY <4>2, <4>3
    <3> QED BY <2>3, <2>4, <2>8, <3>1, <3>2, BrokenWalks
  <2>11. Walks(SpaceSteps, broken, w.lastWasSpace, space)
    <3>2. \A p, q : \A x \in ShownChar(from, to) :
            <<p, x, q>> \in SpaceSteps => Walks(SpaceSteps, BreakChar(x, style), p, q)
      BY <2>3, <2>8, SpaceBreaks
    <3> QED BY <2>3, <2>4, <2>7, <2>8, <3>2, BrokenWalks
  <2> HIDE DEF broken
  <2>12. Walks(spans, html \o part \o broken, "none", style)
    BY <2>5, <2>6, <2>10, WalkThree, Zenon
  <2>13. Walks(SpaceSteps, html \o part \o broken, TRUE, space)
    BY <2>5, <2>6, <2>10, <2>11, WalkThree, Zenon
  <2>14. html \o part \o broken \in Seq(Item)
    <3>1. html \o part \in Seq(Item)
      BY <2>5, <2>6, ConcatProperties
    <3> QED BY <2>10, <3>1, ConcatProperties
  <2>15. new.html = html \o part \o broken /\ new.open = style /\ new.lastWasSpace = space
    BY <2>1 DEF html, part, broken, style, space, chars
  <2>16. Walked(new)
    BY <2>12, <2>13, <2>14, <2>15 DEF Walked, spans
  <2>17. EmitsTo(new, to)
    BY <2>1, <2>16 DEF EmitsTo
  <2> QED BY <2>17 DEF new
<1> QED BY <1>3, <1>4

(* The html so far with the end of its last span *)
Ended(x) == x.html \o (IF x.open = "none" THEN <<>> ELSE Close)

(* The mark that ends the open span ends the walk without a span. *)
LEMMA EndedWalks ==
  ASSUME NEW x \in Joining, Walked(x)
  PROVE  /\ Ended(x) \in Seq(Item)
         /\ Walks(SpanSteps(decorations), Ended(x), "none", "none")
         /\ Walks(SpaceSteps, Ended(x), TRUE, x.lastWasSpace)
<1> DEFINE close == IF x.open = "none" THEN <<>> ELSE Close
           html == x.html
           last == x.lastWasSpace
           end == [k |-> "/span"]
<1>1. x.open \in Spans /\ last \in BOOLEAN
  BY JoiningIs
<1>2. html \in Seq(Item) /\ Walks(SpanSteps(decorations), html, "none", x.open)
      /\ Walks(SpaceSteps, html, TRUE, last)
  BY DEF Walked
<1>3. <<>> \in Seq(Item) /\ Close \in Seq(Item)
  <2>1. "none" \in Spans
    BY DEF Spans
  <2> QED BY <2>1, MarksAre
<1>4. Walks(SpaceSteps, Close, last, last)
  <2>1. end \in Item /\ end.k = "/span"
    BY DEF Item, Mark
  <2> HIDE DEF end, last
  <2>2. <<last, end, last>> \in SpaceSteps
    BY <1>1, <2>1, SpaceStays
  <2> QED BY <2>2, WalkOne DEF Close, end
<1>5. /\ close \in Seq(Item) /\ Walks(SpanSteps(decorations), close, x.open, "none")
      /\ Walks(SpaceSteps, close, last, last)
  <2>1. CASE x.open = "none"
    BY <1>3, <2>1, WalkEmpty
  <2>2. CASE x.open # "none"
    BY <1>1, <1>3, <1>4, <2>2, SpanCloses
  <2> QED BY <2>1, <2>2
<1>6. Ended(x) = html \o close
  BY DEF Ended
<1> HIDE DEF html, close, last
<1>7. html \o close \in Seq(Item)
  BY <1>2, <1>5, ConcatProperties
<1>8. Walks(SpanSteps(decorations), html \o close, "none", "none")
  BY <1>2, <1>5, WalkConcat
<1>9. Walks(SpaceSteps, html \o close, TRUE, last)
  BY <1>2, <1>5, WalkConcat
<1> QED BY <1>6, <1>7, <1>8, <1>9 DEF last

(* Tags are walked over between spans, and show no space. *)
LEMMA TagWalks ==
  ASSUME NEW html \in Seq(Piece), NEW p \in BOOLEAN, NEW ds
  PROVE  /\ html \in Seq(Item) /\ Walks(SpanSteps(ds), html, "none", "none")
         /\ Walks(SpaceSteps, html, p, p)
<1>1. Piece \subseteq Item
  BY DEF Item
<1>2. html \in Seq(Item)
  BY <1>1
<1>3. \A x \in Piece : <<"none", x, "none">> \in SpanSteps(ds)
  <2> TAKE x \in Piece
  <2>1. x \in Item
    BY <1>1
  <2>2. x.k \notin {"span", "/span", "char", "break", "item"}
    BY <2>1, ShownIsNone
  <2> QED BY <2>1, <2>2, SpanStays
<1>4. \A x \in Piece : <<p, x, p>> \in SpaceSteps
  <2> TAKE x \in Piece
  <2>1. x \in Item
    BY <1>1
  <2>2. x.k \notin {"span", "/span", "char", "break", "item"}
    BY <2>1, ShownIsNone
  <2> QED BY <2>1, <2>2, SpaceStays
<1> QED BY <1>2, <1>3, <1>4, WalkStays

-----------------------------------------------------------------------------
(* The inductive invariant of recombineTagsAndDecorations *)
JoinInv ==
  /\ stage = "joining" => JoinPlaced /\ Walked(w)
  /\ stage = "done" => /\ w.html \in Seq(Item)
                       /\ Walks(SpanSteps(decorations), w.html, "none", "none")
                       /\ \E b \in BOOLEAN : Walks(SpaceSteps, w.html, TRUE, b)

(* JoinInv when recombineTagsAndDecorations begins. *)
LEMMA JoinKeeps == ASSUME LexInv, Join PROVE JoinInv'
<1>1. /\ stage = "lexing" /\ frames = <<>> /\ stage' = "joining"
      /\ UNCHANGED <<listing, source, tags, frames, decorations, w>>
  BY DEF Join
<1>2. w = Nothing /\ source \in Seq(Char) /\ tags \in Seq(TagEntry)
      /\ decorations \in Seq(Decoration)
  BY <1>1 DEF LexInv, LexTypes
<1>3. w \in Joining
  BY <1>2 DEF Joining, Nothing, Spans
<1>4. Len(source) \in Nat /\ Len(tags) \in Nat /\ Len(decorations) \in Nat
      /\ (\A i \in DOMAIN tags : tags[i].at \in Nat) /\ DOMAIN tags = 1 .. Len(tags)
      /\ (\A i \in DOMAIN decorations : decorations[i].at \in Nat)
      /\ DOMAIN decorations = 1 .. Len(decorations)
  BY <1>2, EntryType, DecorationsAre
<1>5. w.decPos = 1 /\ w.tagPos = 1 /\ w.outputIdx = 0 /\ w.html = <<>> /\ w.open = "none"
      /\ w.lastWasSpace = TRUE
  BY <1>2 DEF Nothing
<1>6. JoinPlaced
  BY <1>3, <1>4, <1>5 DEF JoinPlaced
<1>7. Walked(w)
  <2>1. Walks(SpanSteps(decorations), <<>>, "none", "none") /\ Walks(SpaceSteps, <<>>, TRUE, TRUE)
    BY WalkEmpty, Zenon
  <2>2. <<>> \in Seq(Item)
    OBVIOUS
  <2> QED BY <1>5, <2>1, <2>2, Zenon DEF Walked
<1>8. JoinPlaced' /\ Walked(w)'
  BY <1>1, <1>6, <1>7 DEF JoinPlaced, Walked
<1> QED BY <1>1, <1>8 DEF JoinInv

(* JoinInv after a tag. *)
LEMMA ConsumeTagKeeps ==
  ASSUME LexInv, JoinInv, ConsumeTag PROVE JoinInv'
<1> DEFINE entry == tags[w.tagPos]
           to == entry.at
           emitted == EmitTextUpTo(to)
<1>1. /\ stage = "joining" /\ OutputTag
      /\ w' = [emitted EXCEPT !.html = Ended(emitted) \o entry.html,
                              !.open = "none", !.tagPos = @ + 1]
      /\ UNCHANGED <<stage, listing, source, tags, frames, decorations>>
  <2>1. /\ stage = "joining" /\ OutputTag
        /\ w' = [emitted EXCEPT
                   !.html = @ \o (IF emitted.open = "none" THEN <<>> ELSE Close)
                              \o entry.html,
                   !.open = "none", !.tagPos = @ + 1]
        /\ UNCHANGED <<stage, listing, source, tags, frames, decorations>>
    BY DEF ConsumeTag
  <2> HIDE DEF emitted, entry
  <2> QED BY <2>1 DEF Ended
<1>2. /\ JoinPlaced /\ Walked(w) /\ source \in Seq(Char) /\ tags \in Seq(TagEntry)
      /\ TagsPlaced(source, tags) /\ decorations \in Seq(Decoration) /\ decorations # <<>>
      /\ DecorationsPlaced(decorations, Len(source))
  BY <1>1 DEF LexInv, LexTypes, JoinInv
<1>3. /\ Len(source) \in Nat /\ Len(tags) \in Nat /\ DOMAIN tags = 1 .. Len(tags)
      /\ Len(decorations) \in Nat /\ Len(decorations) > 0
      /\ \A i \in 1 .. Len(tags) : tags[i].at \in Nat /\ tags[i].html \in Seq(Piece)
      /\ \A i \in 1 .. Len(decorations) : decorations[i].at \in Nat
      /\ decorations[1].at = 0
  BY <1>2, EntryType, DecorationsAre DEF DecorationsPlaced
<1>4. /\ w \in Joining
      /\ w.tagPos \in 1 .. Len(tags) /\ w.decPos \in 1 .. Len(decorations) + 1
      /\ w.outputIdx \in Nat /\ w.outputIdx <= to
      /\ w.decPos > 1 => /\ w.current = decorations[w.decPos - 1].style
                         /\ decorations[w.decPos - 1].at <= w.outputIdx
      /\ w.decPos <= Len(decorations) => to <= decorations[w.decPos].at
  BY <1>1, <1>2, <1>3, JoiningIs DEF JoinPlaced, OutputTag
<1>5. to \in Nat /\ to <= Len(source) /\ entry.html \in Seq(Piece)
      /\ (w.decPos = 1 => to = 0)
      /\ (w.tagPos + 1 <= Len(tags) => to <= tags[w.tagPos + 1].at)
  <2>1. to \in Nat /\ to <= Len(source) /\ entry.html \in Seq(Piece)
    BY <1>2, <1>3, <1>4 DEF TagsPlaced
  <2>2. w.decPos = 1 => to = 0
    BY <1>3, <1>4, <2>1
  <2>3. w.tagPos + 1 <= Len(tags) => to <= tags[w.tagPos + 1].at
    <3> SUFFICES ASSUME w.tagPos + 1 <= Len(tags) PROVE to <= tags[w.tagPos + 1].at
      OBVIOUS
    <3> DEFINE i == w.tagPos
               j == w.tagPos + 1
    <3>1. i \in DOMAIN tags /\ j \in DOMAIN tags /\ i <= j
      BY <1>3, <1>4, SMTT(30)
    <3> HIDE DEF i, j
    <3>2. tags[i].at <= tags[j].at
      BY <1>2, <3>1 DEF TagsPlaced
    <3> QED BY <3>2 DEF i, j
  <2> QED BY <2>1, <2>2, <2>3
<1> HIDE DEF to
<1>6. EmitsTo(emitted, to)
  BY <1>1, <1>2, <1>4, <1>5, EmitWalks
<1> HIDE DEF emitted
<1>7. /\ emitted \in Joining /\ Walked(emitted)
      /\ emitted.tagPos = w.tagPos /\ emitted.decPos = w.decPos
      /\ emitted.current = w.current /\ emitted.outputIdx = to
  BY <1>6 DEF EmitsTo
<1>8. emitted.lastWasSpace \in BOOLEAN
  BY <1>7, JoiningIs
<1> DEFINE html == Ended(emitted)
           more == entry.html
           last == emitted.lastWasSpace
<1>9. /\ html \in Seq(Item) /\ Walks(SpanSteps(decorations), html, "none", "none")
      /\ Walks(SpaceSteps, html, TRUE, last)
  BY <1>7, EndedWalks
<1>10. /\ more \in Seq(Item) /\ Walks(SpanSteps(decorations), more, "none", "none")
       /\ Walks(SpaceSteps, more, last, last)
  BY <1>5, <1>8, TagWalks
<1> HIDE DEF html, more, last, entry
<1>11. /\ html \o more \in Seq(Item)
       /\ Walks(SpanSteps(decorations), html \o more, "none", "none")
       /\ Walks(SpaceSteps, html \o more, TRUE, last)
  BY <1>9, <1>10, ConcatProperties, WalkConcat
<1> DEFINE all == html \o more
<1> HIDE DEF all
<1>12. w' = [emitted EXCEPT !.html = all, !.open = "none", !.tagPos = @ + 1]
  BY <1>1 DEF html, more, all
<1>13. all \in Seq(Item)
  BY <1>11 DEF all
<1>14. /\ w' \in Joining /\ w'.html = all /\ w'.open = "none" /\ w'.tagPos = w.tagPos + 1
       /\ w'.decPos = w.decPos /\ w'.current = w.current /\ w'.outputIdx = to
       /\ w'.lastWasSpace = last
  <2>1. /\ w'.html = all /\ w'.open = "none" /\ w'.tagPos = emitted.tagPos + 1
        /\ w'.decPos = emitted.decPos /\ w'.current = emitted.current
        /\ w'.outputIdx = emitted.outputIdx /\ w'.lastWasSpace = emitted.lastWasSpace
    BY <1>7, <1>12 DEF Joining
  <2>2. emitted.tagPos + 1 \in Nat /\ "none" \in Spans
    BY <1>7, JoiningIs DEF Spans
  <2>3. w' \in Joining
    BY <1>7, <1>12, <1>13, <2>2 DEF Joining
  <2> QED BY <1>7, <2>1, <2>3 DEF last
<1>15. Walked(w)'
  BY <1>1, <1>11, <1>14 DEF Walked, all
<1>16. JoinPlaced'
  <2>1. w'.decPos = 1 => w'.outputIdx = 0
    BY <1>5, <1>14
  <2>2. w'.decPos > 1 => /\ w'.current = decorations'[w'.decPos - 1].style
                         /\ decorations'[w'.decPos - 1].at <= w'.outputIdx
    <3> SUFFICES ASSUME w.decPos > 1
                 PROVE  /\ w.current = decorations[w.decPos - 1].style
                        /\ decorations[w.decPos - 1].at <= to
      BY <1>1, <1>14
    <3>1. w.decPos - 1 \in 1 .. Len(decorations)
      BY <1>3, <1>4
    <3>2. decorations[w.decPos - 1].at \in Nat
      BY <1>3, <3>1
    <3> QED BY <1>4, <1>5, <3>2
  <2>3. w'.decPos <= Len(decorations') => w'.outputIdx <= decorations'[w'.decPos].at
    BY <1>1, <1>4, <1>14
  <2>4. w'.tagPos <= Len(tags') => w'.outputIdx <= tags'[w'.tagPos].at
    BY <1>1, <1>5, <1>14, SMTT(30)
  <2>5. w'.tagPos \in 1 .. Len(tags') + 1 /\ w'.decPos \in 1 .. Len(decorations') + 1
    BY <1>1, <1>3, <1>4, <1>14, SMTT(30)
  <2>6. w'.outputIdx <= Len(source')
    <3>1. w'.outputIdx = to /\ source' = source
      BY <1>1, <1>14, Zenon
    <3> QED BY <1>5, <3>1, Zenon
  <2> QED BY <1>14, <2>1, <2>2, <2>3, <2>4, <2>5, <2>6 DEF JoinPlaced
<1> QED BY <1>1, <1>15, <1>16 DEF JoinInv

(* JoinInv after a decoration: the text before it was emitted with the     *)
(* style before.                                                           *)
LEMMA ConsumeDecorationKeeps ==
  ASSUME LexInv, JoinInv, ConsumeDecoration PROVE JoinInv'
<1> DEFINE entry == decorations[w.decPos]
           to == entry.at
           emitted == EmitTextUpTo(to)
<1>1. /\ stage = "joining" /\ ~OutputTag /\ w.decPos <= Len(decorations)
      /\ w' = [emitted EXCEPT !.current = entry.style, !.decPos = @ + 1]
      /\ UNCHANGED <<stage, listing, source, tags, frames, decorations>>
  BY DEF ConsumeDecoration
<1>2. /\ JoinPlaced /\ Walked(w) /\ source \in Seq(Char) /\ tags \in Seq(TagEntry)
      /\ decorations \in Seq(Decoration) /\ decorations # <<>>
      /\ DecorationsPlaced(decorations, Len(source))
  BY <1>1 DEF LexInv, LexTypes, JoinInv
<1>3. /\ Len(source) \in Nat /\ Len(tags) \in Nat
      /\ Len(decorations) \in Nat /\ Len(decorations) > 0
      /\ \A i \in 1 .. Len(tags) : tags[i].at \in Nat
      /\ \A i \in 1 .. Len(decorations) :
           decorations[i].at \in Nat /\ decorations[i].style \in Styles
      /\ \A i, j \in 1 .. Len(decorations) :
           decorations[i].at <= Len(source) /\ (i <= j => decorations[i].at <= decorations[j].at)
      /\ decorations[1].at = 0
  BY <1>2, EntryType, DecorationsAre DEF DecorationsPlaced
<1>4. /\ w \in Joining /\ w.tagPos \in 1 .. Len(tags) + 1 /\ w.decPos \in 1 .. Len(decorations)
      /\ w.outputIdx \in Nat /\ w.outputIdx <= to
  BY <1>1, <1>2, <1>3, JoiningIs DEF JoinPlaced
<1>5. /\ to \in Nat /\ to <= Len(source) /\ entry.style \in Styles
      /\ (w.decPos = 1 => to = 0)
      /\ (w.tagPos <= Len(tags) => to <= tags[w.tagPos].at)
      /\ (w.decPos + 1 <= Len(decorations) => to <= decorations[w.decPos + 1].at)
  <2>1. to \in Nat /\ to <= Len(source) /\ entry.style \in Styles /\ (w.decPos = 1 => to = 0)
    BY <1>3, <1>4
  <2>2. w.tagPos <= Len(tags) => to <= tags[w.tagPos].at
    <3> SUFFICES ASSUME w.tagPos <= Len(tags) PROVE to <= tags[w.tagPos].at
      OBVIOUS
    <3>1. ~(tags[w.tagPos].at <= to)
      BY <1>1 DEF OutputTag
    <3>2. tags[w.tagPos].at \in Nat
      BY <1>3, <1>4
    <3> QED BY <2>1, <3>1, <3>2
  <2>3. w.decPos + 1 <= Len(decorations) => to <= decorations[w.decPos + 1].at
    BY <1>3, <1>4
  <2> QED BY <2>1, <2>2, <2>3
<1>a. w.decPos <= Len(decorations) => to <= decorations[w.decPos].at
  BY <1>5
<1> HIDE DEF to
<1>6. EmitsTo(emitted, to)
  BY <1>1, <1>2, <1>4, <1>5, <1>a, EmitWalks
<1> HIDE DEF emitted
<1>7. /\ emitted \in Joining /\ Walked(emitted)
      /\ emitted.tagPos = w.tagPos /\ emitted.decPos = w.decPos
      /\ emitted.outputIdx = to
  BY <1>6 DEF EmitsTo
<1> DEFINE style == entry.style
<1>8. style \in Spans
  BY <1>5 DEF Spans
<1> HIDE DEF style
<1>9. /\ w' \in Joining /\ w'.html = emitted.html /\ w'.open = emitted.open
      /\ w'.tagPos = w.tagPos /\ w'.decPos = w.decPos + 1 /\ w'.current = style
      /\ w'.outputIdx = to /\ w'.lastWasSpace = emitted.lastWasSpace
  <2>0. w' = [emitted EXCEPT !.current = style, !.decPos = @ + 1]
    BY <1>1 DEF style
  <2>1. /\ w'.html = emitted.html /\ w'.open = emitted.open /\ w'.tagPos = emitted.tagPos
        /\ w'.decPos = emitted.decPos + 1 /\ w'.current = style
        /\ w'.outputIdx = emitted.outputIdx /\ w'.lastWasSpace = emitted.lastWasSpace
    BY <1>7, <2>0 DEF Joining
  <2>2. emitted.decPos + 1 \in Nat
    BY <1>7, JoiningIs
  <2>3. w' \in Joining
    BY <1>7, <1>8, <2>0, <2>2 DEF Joining
  <2> QED BY <1>7, <2>1, <2>3
<1>10. Walked(w)'
  BY <1>1, <1>7, <1>9 DEF Walked
<1>11. JoinPlaced'
  <2> DEFINE n == w.decPos
  <2>1. n + 1 > 1 /\ n + 1 # 1 /\ (n + 1) - 1 = n /\ n + 1 \in 1 .. Len(decorations) + 1
    BY <1>3, <1>4, SMTT(30)
  <2> HIDE DEF n
  <2>2. decorations[n].style = style /\ decorations[n].at = to
    BY DEF n, style, to
  <2>3. to <= to
    BY <1>5
  <2> QED BY <1>1, <1>4, <1>5, <1>9, <2>1, <2>2, <2>3 DEF JoinPlaced, n
<1> QED BY <1>1, <1>10, <1>11 DEF JoinInv

(* JoinInv after the rest of the text. *)
LEMMA FinishKeeps ==
  ASSUME LexInv, JoinInv, Finish PROVE JoinInv'
<1> DEFINE to == Len(source)
           emitted == EmitTextUpTo(to)
           last == emitted.lastWasSpace
<1>1. /\ stage = "joining" /\ w.decPos > Len(decorations)
      /\ w' = [emitted EXCEPT !.html = Ended(emitted), !.open = "none"]
      /\ stage' = "done" /\ UNCHANGED <<listing, source, tags, frames, decorations>>
  <2>1. /\ stage = "joining" /\ w.decPos > Len(decorations)
        /\ w' = [emitted EXCEPT
                   !.html = @ \o (IF emitted.open = "none" THEN <<>> ELSE Close),
                   !.open = "none"]
        /\ stage' = "done" /\ UNCHANGED <<listing, source, tags, frames, decorations>>
    BY DEF Finish
  <2> HIDE DEF emitted
  <2> QED BY <2>1 DEF Ended
<1>2. /\ JoinPlaced /\ Walked(w) /\ source \in Seq(Char)
      /\ decorations \in Seq(Decoration) /\ decorations # <<>>
  BY <1>1 DEF LexInv, LexTypes, JoinInv
<1>3. Len(source) \in Nat /\ Len(decorations) \in Nat /\ Len(decorations) > 0
  BY <1>2, DecorationsAre
<1>4. w.decPos \in 1 .. Len(decorations) + 1 /\ w.outputIdx <= to
  BY <1>2 DEF JoinPlaced
<1>5. to \in Nat /\ to <= Len(source) /\ (w.decPos = 1 => to = 0)
      /\ (w.decPos <= Len(decorations) => to <= decorations[w.decPos].at)
  BY <1>1, <1>3, <1>4
<1> HIDE DEF to
<1>6. EmitsTo(emitted, to)
  BY <1>1, <1>2, <1>4, <1>5, EmitWalks
<1> HIDE DEF emitted
<1>7. emitted \in Joining /\ Walked(emitted) /\ last \in BOOLEAN
  BY <1>6, JoiningIs DEF EmitsTo
<1>8. w'.html = Ended(emitted)
  BY <1>1, <1>7 DEF Joining
<1>9. /\ Ended(emitted) \in Seq(Item)
      /\ Walks(SpanSteps(decorations), Ended(emitted), "none", "none")
      /\ Walks(SpaceSteps, Ended(emitted), TRUE, last)
  BY <1>7, EndedWalks
<1> HIDE DEF last
<1>10. \E b \in BOOLEAN : Walks(SpaceSteps, Ended(emitted), TRUE, b)
  BY <1>7, <1>9
<1> QED BY <1>1, <1>8, <1>9, <1>10 DEF JoinInv

(* Every step keeps JoinInv, where LexInv holds. *)
LEMMA JoinStep ==
  LexInv /\ JoinInv /\ [HighlightNext]_<<highlightVars, patternVars>> => JoinInv'
<1> SUFFICES ASSUME LexInv, JoinInv, [HighlightNext]_<<highlightVars, patternVars>>
             PROVE  JoinInv'
  OBVIOUS
<1>1. CASE LoadScript
  <2>1. stage' \in {"script", "ready"}
    BY <1>1 DEF LoadScript
  <2> QED BY <2>1 DEF JoinInv
<1>2. ASSUME NEW l \in Listings, ApplyDecorator(l) PROVE JoinInv'
  BY <1>2 DEF ApplyDecorator, JoinInv
<1>3. CASE Decorate
  <2>1. stage' = "lexing"
    BY <1>3 DEF Decorate
  <2> QED BY <2>1 DEF JoinInv
<1>4. CASE Return
  <2>1. stage' = "lexing"
    BY <1>4 DEF Return
  <2> QED BY <2>1 DEF JoinInv
<1>5. CASE Catch
  BY <1>5 DEF Catch, JoinInv
<1>6. CASE Join
  BY <1>6, JoinKeeps
<1>7. CASE ConsumeTag
  BY <1>7, ConsumeTagKeeps
<1>8. CASE ConsumeDecoration
  BY <1>8, ConsumeDecorationKeeps
<1>9. CASE Finish
  BY <1>9, FinishKeeps
<1>10. CASE NextElement
  BY <1>10 DEF NextElement, JoinInv
<1>11. CASE UNCHANGED <<highlightVars, patternVars>>
  <2>1. UNCHANGED <<stage, listing, source, tags, frames, decorations, w>>
    BY <1>11 DEF highlightVars
  <2> QED BY <2>1 DEF JoinInv, JoinPlaced, Walked
<1> QED
  BY <1>1, <1>2, <1>3, <1>4, <1>5, <1>6, <1>7, <1>8, <1>9, <1>10, <1>11
     DEF HighlightNext, Highlight

(* recombineTagsAndDecorations, for all listings: the new html can be      *)
(* walked over with its spans and with its spaces (JoinInv).               *)
THEOREM Joins == HighlightSpec => []JoinInv
<1>1. HighlightInit => JoinInv
  BY DEF HighlightInit, JoinInv
<1>2. LexInv /\ JoinInv /\ [HighlightNext]_<<highlightVars, patternVars>> => JoinInv'
  BY JoinStep
<1> QED BY <1>1, <1>2, Lexing, PTL DEF HighlightSpec

(* The marks up to an item *)
Marks(html, n) == {m \in 1 .. n : html[m].k \in {"span", "/span"}}

(* The span that is open behind an item, by the one before. *)
LEMMA MarksNext ==
  ASSUME NEW html, NEW n \in Nat \ {0}
  PROVE  /\ html[n].k = "span" => SpanAt(html, n) = html[n].style
         /\ html[n].k = "/span" => SpanAt(html, n) = "none"
         /\ html[n].k \notin {"span", "/span"} => SpanAt(html, n) = SpanAt(html, n - 1)
         /\ SpanAt(html, 0) = "none"
<1>1. \A m \in Nat : SpanAt(html, m) = IF Marks(html, m) = {} \/ html[Max(Marks(html, m))].k = "/span"
                                       THEN "none" ELSE html[Max(Marks(html, m))].style
  BY DEF SpanAt, Marks
<1>2. n - 1 \in Nat /\ n \in Nat /\ 0 \in Nat
  OBVIOUS
<1>a. Marks(html, 0) = {} /\ 0 \in Nat
  BY DEF Marks
<1>3. CASE html[n].k \in {"span", "/span"}
  <2> DEFINE T == Marks(html, n)
  <2>1. T \subseteq Int /\ n \in T /\ \A m \in T : m <= n
    BY <1>3 DEF Marks
  <2> HIDE DEF T
  <2>2. Max(T) = n /\ T # {}
    BY <2>1, MaxUnique
  <2>3. SpanAt(html, n) = IF html[n].k = "/span" THEN "none" ELSE html[n].style
    BY <1>1, <1>2, <2>2, Zenon DEF T
  <2>4. SpanAt(html, 0) = "none"
    BY <1>1, <1>a, Zenon
  <2> QED BY <1>3, <2>3, <2>4
<1>4. CASE html[n].k \notin {"span", "/span"}
  <2>1. Marks(html, n) = Marks(html, n - 1)
    <3>1. \A m \in 1 .. n : html[m].k \in {"span", "/span"} => m \in 1 .. n - 1
      BY <1>4
    <3>2. \A m \in 1 .. n - 1 : m \in 1 .. n
      OBVIOUS
    <3> QED BY <3>1, <3>2 DEF Marks
  <2>2. SpanAt(html, n) = SpanAt(html, n - 1)
    BY <1>1, <1>2, <2>1, Zenon
  <2>3. SpanAt(html, 0) = "none"
    BY <1>1, <1>a, Zenon
  <2> QED BY <1>4, <2>2, <2>3
<1> QED BY <1>3, <1>4

(* A step of a walk with spans, written out *)
SpanStep(ds, a, x, b) ==
  CASE x.k = "span" -> a = "none" /\ b = x.style /\ b # "none"
    [] x.k = "/span" -> a # "none" /\ b = "none"
    [] x.k \in {"char", "break"} -> a = StyleIn(ds, x.at) /\ b = a
    [] OTHER -> a = "none" /\ b = "none"
SpanSeen(a, x, b) ==
  CASE x.k = "span" -> a = "none"
    [] x.k = "/span" -> a # "none"
    [] x.k \in {"char", "break"} -> b = StyleAt(x.at)
    [] OTHER -> b = "none"

(* The steps of a walk with spans. *)
LEMMA SpanStepIs ==
  ASSUME NEW ds, NEW a, NEW x, NEW b, <<a, x, b>> \in SpanSteps(ds)
  PROVE  SpanStep(ds, a, x, b)
<1> DEFINE e == <<a, x, b>>
<1>1. e \in SpanSteps(ds) /\ e[1] = a /\ e[2] = x /\ e[3] = b
  OBVIOUS
<1> HIDE DEF e
<1> QED BY <1>1 DEF SpanSteps, SpanStep

(* The states of a walk with spans are the spans that are open. *)
LEMMA SpanWalkIs ==
  ASSUME NEW ds, NEW html \in Seq(Item), NEW f, f[0] = "none",
         \A i \in 1 .. Len(html) : <<f[i - 1], html[i], f[i]>> \in SpanSteps(ds)
  PROVE  \A n \in 0 .. Len(html) : f[n] = SpanAt(html, n)
<1> DEFINE P == {n \in 0 .. Len(html) : f[n] = SpanAt(html, n)}
<1>1. Len(html) \in Nat /\ 1 \in Nat \ {0}
  OBVIOUS
<1>2. SpanAt(html, 0) = "none"
  BY <1>1, MarksNext
<1>3. 0 \in P
  BY <1>1, <1>2
<1>4. ASSUME NEW i \in 0 .. Len(html) - 1, i \in P
      PROVE  i + 1 \in P
  <2> DEFINE n == i + 1
             x == html[n]
             a == f[n - 1]
             b == f[n]
  <2>1. n \in 1 .. Len(html) /\ n - 1 = i /\ n \in 0 .. Len(html) /\ n \in Nat \ {0}
    BY <1>1
  <2>2. a = SpanAt(html, n - 1)
    BY <1>4, <2>1
  <2>3. <<a, x, b>> \in SpanSteps(ds)
    BY <2>1
  <2>4. /\ x.k = "span" => SpanAt(html, n) = x.style
        /\ x.k = "/span" => SpanAt(html, n) = "none"
        /\ x.k \notin {"span", "/span"} => SpanAt(html, n) = SpanAt(html, n - 1)
    BY <2>1, MarksNext
  <2> HIDE DEF n, x, a, b
  <2>5. SpanStep(ds, a, x, b)
    BY <2>3, SpanStepIs
  <2>6. b = SpanAt(html, n)
    BY <2>2, <2>4, <2>5 DEF SpanStep
  <2> QED BY <2>1, <2>6 DEF n, b
<1> HIDE DEF P
<1>5. 0 .. Len(html) \subseteq P
  <2>1. 0 \in Int /\ Len(html) \in Int
    BY <1>1
  <2> QED BY <1>3, <1>4, <2>1, Upwards
<1> QED BY <1>5 DEF P

(* Html that can be walked over with spans has them nested as SpansNest    *)
(* says.                                                                   *)
LEMMA SpansOfWalk ==
  ASSUME stage = "done" => /\ w.html \in Seq(Item)
                           /\ Walks(SpanSteps(decorations), w.html, "none", "none")
  PROVE  SpansNest
<1> SUFFICES ASSUME stage = "done" PROVE SpansNest
  BY DEF SpansNest
<1> DEFINE html == w.html
           ds == decorations
<1>1. html \in Seq(Item)
  OBVIOUS
<1>2. PICK f : /\ f[0] = "none" /\ f[Len(html)] = "none"
               /\ \A i \in 1 .. Len(html) : <<f[i - 1], html[i], f[i]>> \in SpanSteps(ds)
  BY DEF Walks
<1>3. \A at : StyleAt(at) = StyleIn(ds, at)
  BY DEF StyleAt, StyleIn
<1>4. Len(html) \in Nat /\ DOMAIN html = 1 .. Len(html)
  BY <1>1
<1> HIDE DEF html, ds
<1>5. \A n \in 0 .. Len(html) : f[n] = SpanAt(html, n)
  BY <1>1, <1>2, SpanWalkIs
<1>6. SpanAt(html, Len(html)) = "none"
  BY <1>2, <1>4, <1>5
<1>7. ASSUME NEW n \in DOMAIN html
      PROVE  LET item == html[n]
             IN  CASE item.k = "span" -> SpanAt(html, n - 1) = "none"
                   [] item.k = "/span" -> SpanAt(html, n - 1) # "none"
                   [] item.k \in {"char", "break"} -> SpanAt(html, n) = StyleAt(item.at)
                   [] OTHER -> SpanAt(html, n) = "none"
  <2> DEFINE x == html[n]
             a == SpanAt(html, n - 1)
             b == SpanAt(html, n)
  <2>1. n \in 1 .. Len(html) /\ n \in 0 .. Len(html) /\ n - 1 \in 0 .. Len(html)
    BY <1>4
  <2>2. <<a, x, b>> \in SpanSteps(ds)
    <3>1. <<f[n - 1], html[n], f[n]>> \in SpanSteps(ds)
      BY <1>2, <2>1
    <3>2. f[n - 1] = a /\ f[n] = b
      BY <1>5, <2>1
    <3> QED BY <3>1, <3>2
  <2> HIDE DEF x, a, b
  <2>3. SpanStep(ds, a, x, b)
    BY <2>2, SpanStepIs
  <2>4. SpanSeen(a, x, b)
    BY <1>3, <2>3 DEF SpanStep, SpanSeen
  <2> QED BY <2>4 DEF SpanSeen, x, a, b
<1> QED BY <1>6, <1>7 DEF SpansNest, html

(* Every character is in one span, that of the style its lexer gave it,    *)
(* and no span is open at a tag or a list item (SpansNest), for all        *)
(* listings.                                                               *)
THEOREM SpansAreNested == HighlightSpec => []SpansNest
<1>1. JoinInv => SpansNest
  BY SpansOfWalk DEF JoinInv
<1> QED BY <1>1, Joins, PTL

(* Whether the last character shown up to an item is a space or the end of *)
(* a line                                                                  *)
AfterGap(html, n) == Shown(html, n) = {} \/ html[Max(Shown(html, n))].c \in Gap

(* Whether a space is the last character shown, item by item. *)
LEMMA AfterGapIs ==
  ASSUME NEW html, NEW n \in Nat \ {0}
  PROVE  /\ html[n].k \in {"char", "break", "item"} =>
              (AfterGap(html, n) <=> html[n].c \in Gap)
         /\ html[n].k \notin {"char", "break", "item"} =>
              (AfterGap(html, n) <=> AfterGap(html, n - 1))
         /\ AfterGap(html, 0)
<1>1. AfterGap(html, 0)
  BY DEF AfterGap, Shown
<1>2. CASE html[n].k \in {"char", "break", "item"}
  <2> DEFINE T == Shown(html, n)
  <2>1. T \subseteq Int /\ n \in T /\ \A m \in T : m <= n
    BY <1>2 DEF Shown
  <2> HIDE DEF T
  <2>2. Max(T) = n /\ T # {}
    BY <2>1, MaxUnique
  <2>3. AfterGap(html, n) <=> html[n].c \in Gap
    BY <2>2, Zenon DEF AfterGap, T
  <2> QED BY <1>1, <1>2, <2>3
<1>3. CASE html[n].k \notin {"char", "break", "item"}
  <2>1. Shown(html, n) = Shown(html, n - 1)
    <3>1. \A m \in 1 .. n : html[m].k \in {"char", "break", "item"} => m \in 1 .. n - 1
      BY <1>3
    <3>2. \A m \in 1 .. n - 1 : m \in 1 .. n
      OBVIOUS
    <3> QED BY <3>1, <3>2 DEF Shown
  <2>2. AfterGap(html, n) <=> AfterGap(html, n - 1)
    BY <2>1, Zenon DEF AfterGap
  <2> QED BY <1>1, <1>3, <2>2
<1> QED BY <1>2, <1>3

(* The steps of a walk with spaces. *)
LEMMA SpaceStepIs ==
  ASSUME NEW a, NEW x, NEW b, <<a, x, b>> \in SpaceSteps
  PROVE  /\ a \in BOOLEAN /\ b \in BOOLEAN
         /\ x.k \in {"char", "break", "item"} => /\ x.c = " " => ~a
                                                 /\ b <=> x.c \in Gap
         /\ x.k \notin {"char", "break", "item"} => b = a
<1> DEFINE e == <<a, x, b>>
<1>1. e \in SpaceSteps /\ e[1] = a /\ e[2] = x /\ e[3] = b
  OBVIOUS
<1> HIDE DEF e
<1>2. e[1] \in BOOLEAN /\ e[3] \in BOOLEAN
  BY <1>1 DEF SpaceSteps
<1>3. IF x.k \in {"char", "break", "item"}
      THEN (x.c = " " => ~a) /\ b = (x.c \in Gap)
      ELSE b = a
  BY <1>1, Zenon DEF SpaceSteps
<1> QED BY <1>1, <1>2, <1>3, Zenon

(* The states of a walk with spaces say whether a space is the last        *)
(* character shown.                                                        *)
LEMMA SpaceWalkIs ==
  ASSUME NEW html \in Seq(Item), NEW f, f[0] = TRUE,
         \A i \in 1 .. Len(html) : <<f[i - 1], html[i], f[i]>> \in SpaceSteps
  PROVE  \A n \in 0 .. Len(html) : f[n] <=> AfterGap(html, n)
<1> DEFINE P == {n \in 0 .. Len(html) : f[n] <=> AfterGap(html, n)}
<1>1. Len(html) \in Nat /\ 1 \in Nat \ {0}
  OBVIOUS
<1>2. AfterGap(html, 0)
  BY <1>1, AfterGapIs
<1>3. 0 \in P
  <2>1. 0 \in 0 .. Len(html)
    BY <1>1
  <2> QED BY <1>2, <2>1, Zenon
<1>4. ASSUME NEW i \in 0 .. Len(html) - 1, i \in P
      PROVE  i + 1 \in P
  <2> DEFINE n == i + 1
             x == html[n]
             a == f[n - 1]
             b == f[n]
  <2>1. n \in 1 .. Len(html) /\ n - 1 = i /\ n \in 0 .. Len(html) /\ n \in Nat \ {0}
    BY <1>1
  <2>2. a <=> AfterGap(html, n - 1)
    <3>1. f[i] <=> AfterGap(html, i)
      BY <1>4, Zenon
    <3> QED BY <2>1, <3>1, Zenon
  <2>3. <<a, x, b>> \in SpaceSteps
    BY <2>1
  <2>4. /\ x.k \in {"char", "break", "item"} => (AfterGap(html, n) <=> x.c \in Gap)
        /\ x.k \notin {"char", "break", "item"} =>
             (AfterGap(html, n) <=> AfterGap(html, n - 1))
    BY <2>1, AfterGapIs
  <2> HIDE DEF n, x, a, b
  <2>5. /\ a \in BOOLEAN /\ b \in BOOLEAN
        /\ x.k \in {"char", "break", "item"} => (b <=> x.c \in Gap)
        /\ x.k \notin {"char", "break", "item"} => b = a
    BY <2>3, SpaceStepIs
  <2>6. b <=> AfterGap(html, n)
    BY <2>2, <2>4, <2>5, Zenon
  <2>7. n \in P
    BY <2>1, <2>6, Zenon DEF b
  <2> QED BY <2>7 DEF n
<1> HIDE DEF P
<1>5. 0 .. Len(html) \subseteq P
  <2>1. 0 \in Int /\ Len(html) \in Int
    BY <1>1
  <2> QED BY <1>3, <1>4, <2>1, Upwards
<1>6. ASSUME NEW n \in 0 .. Len(html) PROVE f[n] <=> AfterGap(html, n)
  <2>1. n \in P
    BY <1>5
  <2> QED BY <2>1, Zenon DEF P
<1> QED BY <1>6

(* The place before one from 1 to k. *)
LEMMA PlaceBefore == ASSUME NEW k \in Nat, NEW i \in 1 .. k PROVE i - 1 \in 0 .. k
OBVIOUS

(* Html that can be walked over with spaces has them kept as SpacesKept    *)
(* says.                                                                   *)
LEMMA SpacesOfWalk ==
  ASSUME stage = "done" => /\ w.html \in Seq(Item)
                           /\ \E b \in BOOLEAN : Walks(SpaceSteps, w.html, TRUE, b)
  PROVE  SpacesKept
<1> SUFFICES ASSUME stage = "done", NEW n \in Shown(w.html, Len(w.html)), w.html[n].c = " "
             PROVE  LET before == Shown(w.html, n - 1)
                    IN  before # {} /\ w.html[Max(before)].c \notin {" ", "\n"}
  BY DEF SpacesKept
<1> DEFINE html == w.html
<1>1. html \in Seq(Item)
  OBVIOUS
<1>2. PICK f : /\ f[0] = TRUE
               /\ \A i \in 1 .. Len(html) : <<f[i - 1], html[i], f[i]>> \in SpaceSteps
  BY DEF Walks
<1>3. html[n].k \in {"char", "break", "item"} /\ n \in 1 .. Len(html) /\ Len(html) \in Nat
      /\ n - 1 \in 0 .. Len(html)
  <2>1. n \in Shown(html, Len(html))
    BY Zenon
  <2> HIDE DEF html
  <2>a. Len(html) \in Nat
    BY <1>1, LenProperties
  <2> DEFINE m == Len(html)
  <2> HIDE DEF m
  <2>2. n \in 1 .. m /\ html[n].k \in {"char", "break", "item"} /\ m \in Nat
    BY <2>1, <2>a DEF Shown, m
  <2>3. n - 1 \in 0 .. m
    BY <2>2, PlaceBefore, Zenon
  <2> QED BY <2>2, <2>3, Zenon DEF m
<1> HIDE DEF html
<1>4. f[n - 1] <=> AfterGap(html, n - 1)
  BY <1>1, <1>2, <1>3, SpaceWalkIs, Zenon
<1>5. html[n].c = " " => ~f[n - 1]
  <2>1. <<f[n - 1], html[n], f[n]>> \in SpaceSteps
    BY <1>2, <1>3
  <2> DEFINE a == f[n - 1]
             x == html[n]
             b == f[n]
  <2> HIDE DEF a, x, b
  <2>2. <<a, x, b>> \in SpaceSteps
    BY <2>1 DEF a, x, b
  <2>3. x.k \in {"char", "break", "item"} => (x.c = " " => ~a)
    BY <2>2, SpaceStepIs
  <2> QED BY <1>3, <2>3 DEF a, x
<1>6. ~AfterGap(html, n - 1)
  BY <1>4, <1>5 DEF html
<1> QED BY <1>6 DEF AfterGap, Gap, html

(* No plain space begins a line or follows another in the new html         *)
(* (SpacesKept), for all listings.                                         *)
THEOREM SpacesAreKept == HighlightSpec => []SpacesKept
<1>1. JoinInv => SpacesKept
  BY SpacesOfWalk DEF JoinInv
<1> QED BY <1>1, Joins, PTL

-----------------------------------------------------------------------------
(* What is to be read in html, a piece at a time                           *)
Seen == Piece \cup [k : {"char"}, c : Char]
ReadState == [items : Seq(Seen), column : Nat, section : Nat]

(* f is the function by which Readable is defined. *)
Reads(f, html) ==
  f = [i \in 0 .. Len(html) |->
         IF i = 0 THEN [items |-> <<>>, column |-> 0, section |-> 0]
         ELSE ReadPiece(f[i - 1], html, i)]

(* That function *)
Reading(html) == CHOOSE f : Reads(f, html)

(* The characters to be read in a text, which c goes on in column *)
Width(c, column) == IF c = "\t" THEN PR_TAB_WIDTH - (column % PR_TAB_WIDTH) ELSE 1
ReadChars(c, column) ==
  [m \in 1 .. Width(c, column) |-> Character(IF c = "\t" THEN " " ELSE c)]
NextColumn(c, column) == IF c = "\n" THEN 0 ELSE column + Width(c, column)

(* A character takes up a number of columns. *)
LEMMA WidthIs ==
  ASSUME NEW c, NEW column \in Nat PROVE Width(c, column) \in Nat
<1>1. column % PR_TAB_WIDTH \in 0 .. PR_TAB_WIDTH - 1 /\ PR_TAB_WIDTH \in Nat \ {0}
  BY ModIs, HighlightAssumption
<1> DEFINE m == column % PR_TAB_WIDTH
<1>2. m \in 0 .. PR_TAB_WIDTH - 1
  BY <1>1
<1> HIDE DEF m
<1>3. Width(c, column) = IF c = "\t" THEN PR_TAB_WIDTH - m ELSE 1
  BY DEF m, Width
<1> QED BY <1>1, <1>2, <1>3

(* The characters read in one are as many as the columns it takes up. *)
LEMMA ReadCharsAre ==
  ASSUME NEW c \in Char, NEW column \in Nat
  PROVE  /\ ReadChars(c, column) \in Seq(Seen) /\ NextColumn(c, column) \in Nat
         /\ Len(ReadChars(c, column)) = Width(c, column)
<1> DEFINE n == Width(c, column)
           x == Character(IF c = "\t" THEN " " ELSE c)
<1>1. n \in Nat
  BY WidthIs
<1>2. x \in Seen
  <2>1. " " \in Char
    BY DEF Char, White
  <2>2. (IF c = "\t" THEN " " ELSE c) \in Char
    BY <2>1
  <2> QED BY <2>2 DEF Character, Seen
<1> HIDE DEF n, x
<1>3. [m \in 1 .. n |-> x] \in Seq(Seen) /\ Len([m \in 1 .. n |-> x]) = n
  BY <1>1, <1>2
<1>4. NextColumn(c, column) \in Nat
  <2>1. column + n \in Nat /\ 0 \in Nat
    BY <1>1
  <2> QED BY <2>1, Zenon DEF NextColumn, n
<1> QED BY <1>3, <1>4 DEF ReadChars, n, x

(* The pieces of a section, and those outside *)
LEMMA ReadPieceIs ==
  ASSUME NEW html \in Seq(Piece), NEW i \in 1 .. Len(html), NEW so \in ReadState
  PROVE  LET new == ReadPiece(so, html, i)
             section == IF i <= so.section THEN so.section ELSE NoCodeEnd(html, i)
             c == Read(html[i])
         IN  /\ new \in ReadState
             /\ i <= section \/ html[i].k = "tag" =>
                  new.items = Append(so.items, html[i]) /\ new.section = section
                  /\ new.column = so.column
             /\ i > section /\ html[i].k = "comment" => new = so
             /\ i > section /\ html[i].k \notin {"tag", "comment"} =>
                  /\ c \in Char /\ new.items = so.items \o ReadChars(c, so.column)
                  /\ new.column = NextColumn(c, so.column) /\ new.section = so.section
<1> DEFINE new == ReadPiece(so, html, i)
           section == IF i <= so.section THEN so.section ELSE NoCodeEnd(html, i)
           c == Read(html[i])
           chars == ReadChars(c, so.column)
           column == NextColumn(c, so.column)
<1>1. /\ html[i] \in Piece /\ so.items \in Seq(Seen) /\ so.column \in Nat /\ so.section \in Nat
      /\ i \in Nat
  BY DEF ReadState
<1>2. section \in Nat
  <2>1. NoCodeEnd(html, i) \in Nat
    BY NoCodeEndIs
  <2> QED BY <1>1, <2>1
<1>3. new = CASE i <= section \/ html[i].k = "tag" ->
                   [so EXCEPT !.items = Append(@, html[i]), !.section = section]
              [] i > section /\ html[i].k = "comment" -> so
              [] OTHER -> [so EXCEPT !.items = @ \o chars, !.column = column]
  BY DEF ReadPiece, ReadChars, NextColumn, Width
<1>4. so = [items |-> so.items, column |-> so.column, section |-> so.section]
  BY DEF ReadState
<1> HIDE DEF new, section, c, chars, column
<1>5. CASE i <= section \/ html[i].k = "tag"
  <2> DEFINE items == Append(so.items, html[i])
  <2>1. items \in Seq(Seen)
    <3>1. html[i] \in Seen
      BY <1>1 DEF Seen
    <3> QED BY <1>1, <3>1
  <2>2. ~(i > section /\ html[i].k = "comment")
    BY <1>1, <1>2, <1>5
  <2>3. new = [so EXCEPT !.items = items, !.section = section]
    BY <1>3, <1>5, <2>2
  <2> HIDE DEF items
  <2>4. /\ new \in ReadState /\ new.items = items /\ new.section = section
        /\ new.column = so.column
    BY <1>1, <1>2, <2>1, <2>3 DEF ReadState
  <2>5. html[i].k = "tag" \/ ~(i > section)
    BY <1>1, <1>2, <1>5
  <2> QED BY <2>4, <2>5 DEF new, section, items
<1>6. CASE ~(i <= section) /\ html[i].k = "comment"
  <2>1. i > section
    BY <1>1, <1>2, <1>6
  <2>2. new = so
    BY <1>3, <1>6, <2>1
  <2> QED BY <1>6, <2>2 DEF new, section
<1>7. CASE ~(i <= section) /\ html[i].k \notin {"tag", "comment"}
  <2>1. c \in Char
    BY <1>1, <1>7, ReadIsChar DEF c
  <2>2. chars \in Seq(Seen) /\ column \in Nat
    BY <1>1, <2>1, ReadCharsAre DEF chars, column
  <2>3. new = [so EXCEPT !.items = @ \o chars, !.column = column]
    BY <1>3, <1>7
  <2> DEFINE items == so.items \o chars
  <2>4. items \in Seq(Seen)
    BY <1>1, <2>2, ConcatProperties
  <2>5. new = [so EXCEPT !.items = items, !.column = column]
    BY <2>3
  <2> HIDE DEF items
  <2>6. /\ new \in ReadState /\ new.items = items /\ new.section = so.section
        /\ new.column = column
    BY <1>1, <2>2, <2>4, <2>5 DEF ReadState
  <2> QED BY <1>7, <2>1, <2>6 DEF new, section, items, chars, column, c
<1> QED BY <1>5, <1>6, <1>7

(* Reading computes, piece by piece, what Readable ends with. *)
LEMMA ReadingIs ==
  ASSUME NEW html \in Seq(Piece)
  PROVE  LET f == Reading(html)
         IN  /\ f \in [0 .. Len(html) -> ReadState]
             /\ Readable(html) = f[Len(html)].items
             /\ f[0] = [items |-> <<>>, column |-> 0, section |-> 0]
             /\ \A i \in 1 .. Len(html) : f[i] = ReadPiece(f[i - 1], html, i)
<1> DEFINE n == Len(html)
           base == [items |-> <<>>, column |-> 0, section |-> 0]
           step == [x \in (0 + 1 .. n) \X ReadState |-> ReadPiece(x[2], html, x[1])]
<1>1. n \in Int /\ 0 \in Int /\ 0 <= n
  OBVIOUS
<1>2. base \in ReadState
  BY DEF ReadState
<1>3. step \in [(0 + 1 .. n) \X ReadState -> ReadState]
  <2>1. \A x \in (0 + 1 .. n) \X ReadState : ReadPiece(x[2], html, x[1]) \in ReadState
    <3> TAKE x \in (0 + 1 .. n) \X ReadState
    <3>1. x[1] \in 1 .. Len(html) /\ x[2] \in ReadState
      OBVIOUS
    <3> QED BY <3>1, ReadPieceIs
  <2> QED BY <2>1
<1>4. \A f \in [0 .. n -> ReadState] : Computes(f, 0, n, base, step) => Reads(f, html)
  <2> SUFFICES ASSUME NEW f \in [0 .. n -> ReadState], Computes(f, 0, n, base, step)
               PROVE  Reads(f, html)
    OBVIOUS
  <2>1. \A i \in 0 .. n : i # 0 => step[<<i, f[i - 1]>>] = ReadPiece(f[i - 1], html, i)
    <3>1. \A i \in 0 .. n : i # 0 => i - 1 \in 0 .. n /\ i \in 0 + 1 .. n
      BY <1>1
    <3>2. \A i \in 0 .. n : i # 0 => f[i - 1] \in ReadState
      BY <3>1
    <3> QED BY <3>1, <3>2
  <2> HIDE DEF step, base
  <2>2. f = [i \in 0 .. n |-> IF i = 0 THEN base ELSE ReadPiece(f[i - 1], html, i)]
    BY <2>1 DEF Computes
  <2> QED BY <2>2 DEF Reads, base
<1> DEFINE f == Reading(html)
<1>5. Reads(f, html)
  <2>1. \E g \in [0 .. n -> ReadState] : Computes(g, 0, n, base, step)
    <3> HIDE DEF base, step
    <3> QED BY <1>1, <1>2, <1>3, RecursionExists
  <2> HIDE DEF step, base
  <2>2. \E g : Reads(g, html)
    BY <1>4, <2>1
  <2> QED BY <2>2 DEF Reading
<1>6. Readable(html) = f[n].items
  BY DEF Readable, Reads, Reading
<1> HIDE DEF f
<1>7. \A i \in 0 .. n : f[i] = IF i = 0 THEN base ELSE ReadPiece(f[i - 1], html, i)
  BY <1>5 DEF Reads
<1>8. \A i \in 0 .. n : f[i] \in ReadState
  <2> DEFINE P == {i \in 0 .. n : f[i] \in ReadState}
  <2>1. 0 \in P
    BY <1>1, <1>2, <1>7
  <2>2. ASSUME NEW i \in 0 .. n - 1, i \in P
        PROVE  i + 1 \in P
    <3>1. i + 1 \in 1 .. n /\ i + 1 \in 0 .. n /\ (i + 1) - 1 = i /\ i + 1 # 0
      BY <1>1
    <3>2. f[i + 1] = ReadPiece(f[i], html, i + 1)
      BY <1>7, <3>1
    <3> QED BY <2>2, <3>1, <3>2, ReadPieceIs
  <2> HIDE DEF P
  <2>3. 0 .. n \subseteq P
    BY <1>1, <2>1, <2>2, Upwards
  <2> QED BY <2>3 DEF P
<1>9. f \in [0 .. n -> ReadState]
  <2>1. f = [i \in 0 .. n |-> f[i]]
    BY <1>5 DEF Reads
  <2> QED BY <1>8, <2>1
<1>10. \A i \in 1 .. n : f[i] = ReadPiece(f[i - 1], html, i)
  BY <1>1, <1>7
<1> QED
  BY <1>1, <1>6, <1>7, <1>9, <1>10 DEF f

-----------------------------------------------------------------------------
(* b goes on from a: its texts and tags begin with those of a, and its     *)
(* further tags come behind the text of a.                                 *)
Further(a, b) ==
  /\ Len(a.source) <= Len(b.source) /\ Len(a.tags) <= Len(b.tags)
  /\ \A n \in 1 .. Len(a.source) : b.source[n] = a.source[n]
  /\ \A n \in 1 .. Len(a.tags) : b.tags[n] = a.tags[n]
  /\ \A n \in Len(a.tags) + 1 .. Len(b.tags) : b.tags[n].at >= Len(a.source)

(* The fields of what has been extracted *)
LEMMA ExtractType ==
  ASSUME NEW so \in Extract
  PROVE  /\ so.source \in Seq(Char) /\ so.tags \in Seq(TagEntry) /\ so.next \in Nat \ {0}
         /\ Len(so.source) \in Nat /\ Len(so.tags) \in Nat
<1>1. so.source \in Seq(Char) /\ so.tags \in Seq(TagEntry) /\ so.next \in Nat \ {0}
  BY DEF Extract
<1> QED BY <1>1, LenProperties

(* What is extracted from a piece *)
LEMMA ExtractPieceCases ==
  ASSUME NEW html \in Seq(Piece), NEW i \in 1 .. Len(html), NEW so \in Extract
  PROVE  LET end == Max({i, NoCodeEnd(html, i)})
             new == ExtractPiece(so, html, i)
         IN  /\ end \in i .. Len(html)
             /\ NoCodeEnd(html, i) = 0 => end = i
             /\ NoCodeEnd(html, i) # 0 => end = NoCodeEnd(html, i)
             /\ i < so.next \/ html[i].k = "comment" => new = so
             /\ i >= so.next /\ html[i].k = "tag" =>
                  /\ new.source = so.source /\ new.next = end + 1
                  /\ new.tags = Append(so.tags, [at |-> Len(so.source),
                                                 html |-> SubSeq(html, i, end)])
             /\ i >= so.next /\ html[i].k \notin {"tag", "comment"} =>
                  /\ Read(html[i]) \in Char
                  /\ new.source = Append(so.source, Read(html[i]))
                  /\ new.tags = so.tags /\ new.next = so.next
<1> DEFINE end == Max({i, NoCodeEnd(html, i)})
           new == ExtractPiece(so, html, i)
<1>1. /\ end \in i .. Len(html) /\ (NoCodeEnd(html, i) = 0 => end = i)
      /\ (NoCodeEnd(html, i) # 0 => end = NoCodeEnd(html, i))
  <2>1. NoCodeEnd(html, i) \in {0} \cup i .. Len(html) /\ Len(html) \in Nat
    BY NoCodeEndIs
  <2> DEFINE T == {i, NoCodeEnd(html, i)}
  <2>2. T \subseteq Int /\ T # {} /\ \A x \in T : x <= Len(html)
    BY <2>1
  <2>3. Max(T) \in T /\ \A x \in T : x <= Max(T)
    <3> HIDE DEF T
    <3>1. Len(html) \in Int
      BY <2>1
    <3> QED BY <2>2, <3>1, MaxIs
  <2> QED BY <2>1, <2>3
<1>2. /\ html[i] \in Piece /\ i \in Nat /\ so.next \in Nat /\ so.source \in Seq(Char)
      /\ so.tags \in Seq(TagEntry)
      /\ so \in [source : Seq(Char), tags : Seq(TagEntry), next : Nat \ {0}]
  BY ExtractType DEF Extract
<1> HIDE DEF end, new
<1>3. CASE i < so.next
  <2>1. new = so
    BY <1>2, <1>3 DEF ExtractPiece, new
  <2>2. ~(i >= so.next)
    BY <1>2, <1>3
  <2> QED BY <1>1, <2>1, <2>2 DEF new, end
<1>4. CASE i >= so.next /\ html[i].k = "tag"
  <2> DEFINE e == [at |-> Len(so.source), html |-> SubSeq(html, i, end)]
             all == Append(so.tags, e)
             next == end + 1
  <2>1. new = [so EXCEPT !.tags = all, !.next = next]
    BY <1>2, <1>4 DEF ExtractPiece, new, end
  <2> HIDE DEF all, next
  <2>2. new.source = so.source /\ new.tags = all /\ new.next = next
    BY <1>2, <2>1
  <2>3. ~(i < so.next)
    BY <1>2, <1>4
  <2> QED BY <1>1, <1>4, <2>2, <2>3 DEF new, end, all, next
<1>5. CASE i >= so.next /\ html[i].k = "comment"
  <2>1. new = so
    BY <1>2, <1>5 DEF ExtractPiece, new
  <2> QED BY <1>1, <1>5, <2>1 DEF new, end
<1>6. CASE i >= so.next /\ html[i].k \notin {"tag", "comment"}
  <2> DEFINE c == Read(html[i])
             all == Append(so.source, c)
  <2>1. c \in Char
    BY <1>2, <1>6, ReadIsChar
  <2>2. new = [so EXCEPT !.source = all]
    BY <1>2, <1>6 DEF ExtractPiece, new
  <2> HIDE DEF all, c
  <2>3. new.source = all /\ new.tags = so.tags /\ new.next = so.next
    BY <1>2, <2>2
  <2>4. ~(i < so.next)
    BY <1>2, <1>6
  <2> QED BY <1>1, <1>6, <2>1, <2>3, <2>4 DEF new, end, all, c
<1> QED BY <1>2, <1>3, <1>4, <1>5, <1>6

(* What has been extracted goes on from itself. *)
LEMMA FurtherSelf == ASSUME NEW so \in Extract PROVE Further(so, so)
<1>1. Len(so.source) \in Nat /\ Len(so.tags) \in Nat
  BY ExtractType
<1> QED BY <1>1 DEF Further

(* What a piece adds goes on from what was there. *)
LEMMA FurtherStep ==
  ASSUME NEW html \in Seq(Piece), NEW i \in 1 .. Len(html), NEW so \in Extract
  PROVE  Further(so, ExtractPiece(so, html, i))
<1> DEFINE new == ExtractPiece(so, html, i)
           end == Max({i, NoCodeEnd(html, i)})
           e == [at |-> Len(so.source), html |-> SubSeq(html, i, end)]
           c == Read(html[i])
<1>1. /\ so.source \in Seq(Char) /\ so.tags \in Seq(TagEntry) /\ so.next \in Nat
      /\ Len(so.source) \in Nat /\ Len(so.tags) \in Nat /\ i \in Nat
  BY ExtractType
<1>2. /\ end \in i .. Len(html)
      /\ i < so.next \/ html[i].k = "comment" => new = so
      /\ i >= so.next /\ html[i].k = "tag" =>
           new.source = so.source /\ new.tags = Append(so.tags, e)
      /\ i >= so.next /\ html[i].k \notin {"tag", "comment"} =>
           c \in Char /\ new.source = Append(so.source, c) /\ new.tags = so.tags
  BY ExtractPieceCases
<1>a. e.at = Len(so.source) /\ (SubSeq(html, i, end) \in Seq(Piece) => e \in TagEntry)
  BY <1>1 DEF TagEntry
<1>b. SubSeq(html, i, end) \in Seq(Piece)
  <2>1. Len(html) \in Nat
    OBVIOUS
  <2> HIDE DEF end
  <2> QED BY <1>1, <1>2, <2>1, SubSeqProperties
<1> HIDE DEF new, end, e, c
<1>3. CASE i < so.next \/ html[i].k = "comment"
  BY <1>2, <1>3, FurtherSelf DEF new
<1>4. CASE i >= so.next /\ html[i].k = "tag"
  <2> DEFINE m == Len(so.tags)
  <2>1. new.source = so.source /\ new.tags = Append(so.tags, e) /\ e \in TagEntry
    BY <1>2, <1>4, <1>a, <1>b DEF e
  <2>2. /\ Len(new.tags) = m + 1 /\ new.tags[m + 1] = e
        /\ \A n \in 1 .. m : new.tags[n] = so.tags[n]
    BY <1>1, <2>1, AppendProperties
  <2>3. \A n \in m + 1 .. Len(new.tags) : n = m + 1
    BY <1>1, <2>2
  <2>4. \A n \in m + 1 .. Len(new.tags) : new.tags[n].at >= Len(so.source)
    BY <1>1, <1>a, <2>2, <2>3
  <2> QED BY <1>1, <2>1, <2>2, <2>4 DEF Further, new
<1>5. CASE i >= so.next /\ html[i].k \notin {"tag", "comment"}
  <2>1. new.tags = so.tags /\ new.source = Append(so.source, c) /\ c \in Char
    BY <1>2, <1>5
  <2>2. /\ Len(new.source) = Len(so.source) + 1
        /\ \A n \in 1 .. Len(so.source) : new.source[n] = so.source[n]
    BY <1>1, <2>1, AppendProperties
  <2>3. \A n \in Len(so.tags) + 1 .. Len(new.tags) : FALSE
    BY <1>1, <2>1
  <2> QED BY <1>1, <2>1, <2>2, <2>3 DEF Further, new
<1> QED BY <1>1, <1>3, <1>4, <1>5

(* Going on is transitive. *)
LEMMA FurtherOn ==
  ASSUME NEW a \in Extract, NEW b \in Extract, NEW d \in Extract, Further(a, b), Further(b, d)
  PROVE  Further(a, d)
<1> DEFINE la == Len(a.source)
           ta == Len(a.tags)
           lb == Len(b.source)
           tb == Len(b.tags)
           ld == Len(d.source)
           td == Len(d.tags)
<1>1. la \in Nat /\ ta \in Nat /\ lb \in Nat /\ tb \in Nat /\ ld \in Nat /\ td \in Nat
  BY ExtractType
<1>2. la <= lb /\ ta <= tb /\ lb <= ld /\ tb <= td
  BY DEF Further
<1>3. /\ \A n \in 1 .. la : b.source[n] = a.source[n]
      /\ \A n \in 1 .. lb : d.source[n] = b.source[n]
  BY DEF Further
<1>4. /\ \A n \in 1 .. ta : b.tags[n] = a.tags[n]
      /\ \A n \in 1 .. tb : d.tags[n] = b.tags[n]
  BY DEF Further
<1>5. /\ \A n \in ta + 1 .. tb : b.tags[n].at >= la
      /\ \A n \in tb + 1 .. td : d.tags[n].at >= lb
  BY DEF Further
<1>6. \A n \in 1 .. td : d.tags[n].at \in Nat
  <2>1. d.tags \in Seq(TagEntry)
    BY ExtractType
  <2> QED BY <2>1, EntryType
<1> HIDE DEF la, ta, lb, tb, ld, td
<1>7. la <= ld /\ ta <= td /\ 1 .. la \subseteq 1 .. lb /\ 1 .. ta \subseteq 1 .. tb
  BY <1>1, <1>2
<1>8. \A n \in 1 .. la : d.source[n] = a.source[n]
  BY <1>3, <1>7, Zenon
<1>9. \A n \in 1 .. ta : d.tags[n] = a.tags[n]
  BY <1>4, <1>7, Zenon
<1>10. ASSUME NEW n \in ta + 1 .. td
       PROVE  d.tags[n].at >= la
  <2>0. n \in 1 .. td /\ ((n \in ta + 1 .. tb /\ n \in 1 .. tb) \/ n \in tb + 1 .. td)
    BY <1>1, <1>2
  <2>1. d.tags[n].at \in Nat
    BY <1>6, <2>0, Zenon
  <2> DEFINE at == d.tags[n].at
  <2>2. CASE n \in ta + 1 .. tb /\ n \in 1 .. tb
    BY <1>4, <1>5, <2>2, Zenon
  <2>3. CASE n \in tb + 1 .. td
    <3>1. at >= lb /\ at \in Nat
      BY <1>5, <2>1, <2>3, Zenon
    <3> HIDE DEF at
    <3>2. at >= la
      BY <1>1, <1>2, <3>1
    <3> QED BY <3>2 DEF at
  <2> QED BY <2>0, <2>2, <2>3, Zenon
<1> QED BY <1>7, <1>8, <1>9, <1>10, Zenon DEF Further, la, ta, ld, td

(* The whole text goes on from each part of it. *)
LEMMA FurtherAll ==
  ASSUME NEW html \in Seq(Piece), NEW i \in 0 .. Len(html), NEW j \in i .. Len(html)
  PROVE  Further(Extraction(html)[i], Extraction(html)[j])
<1> DEFINE f == Extraction(html)
           P == {k \in i .. Len(html) : Further(f[i], f[k])}
           n == Len(html)
<1>1. /\ f \in [0 .. n -> Extract]
      /\ \A k \in 1 .. n : f[k] = ExtractPiece(f[k - 1], html, k)
  BY ExtractionIs
<1> HIDE DEF f
<1>2. n \in Nat /\ i \in 0 .. n /\ i \in Int /\ n \in Int
  BY LenProperties
<1> HIDE DEF n
<1>3. i \in P
  BY <1>1, <1>2, FurtherSelf DEF n
<1>4. ASSUME NEW k \in i .. n - 1, k \in P
      PROVE  k + 1 \in P
  <2>1. k \in 0 .. n /\ k + 1 \in 0 .. n /\ k + 1 \in 1 .. n /\ (k + 1) - 1 = k /\ k + 1 \in i .. n
    BY <1>2
  <2>2. f[k + 1] = ExtractPiece(f[k], html, k + 1)
    BY <1>1, <2>1
  <2>3. f[i] \in Extract /\ f[k] \in Extract /\ f[k + 1] \in Extract
    BY <1>1, <1>2, <2>1
  <2>4. Further(f[k], f[k + 1])
    BY <2>1, <2>2, <2>3, FurtherStep DEF n
  <2>5. Further(f[i], f[k])
    BY <1>4
  <2>6. Further(f[i], f[k + 1])
    BY <2>3, <2>4, <2>5, FurtherOn
  <2> QED BY <2>1, <2>6 DEF n
<1> HIDE DEF P
<1>5. i .. n \subseteq P
  BY <1>2, <1>3, <1>4, Upwards
<1> QED BY <1>5 DEF P, f, n

(* The part of s that comes behind a is one item longer. *)
Grows(a, s, i, k) ==
  Append(a \o SubSeq(s, i + 1, k), s[k + 1]) = a \o SubSeq(s, i + 1, k + 1)

(* A part of a sequence grows by the item behind it. *)
LEMMA SubSeqGrows ==
  ASSUME NEW S, NEW a \in Seq(S), NEW s \in Seq(S), NEW i \in Nat, NEW k \in i .. Len(s) - 1
  PROVE  Grows(a, s, i, k)
<1> DEFINE p == SubSeq(s, i + 1, k)
           x == s[k + 1]
<1>1. /\ Len(s) \in Nat /\ i \in Nat /\ k \in Nat /\ i + 1 \in 1 .. Len(s)
      /\ k + 1 \in i + 1 .. Len(s) /\ k + 1 \in 1 .. Len(s) /\ (k + 1) - 1 = k
      /\ i + 1 \in Int /\ k \in Int /\ \A j \in i + 1 .. k : j \in 1 .. Len(s)
  OBVIOUS
<1>2. x \in S /\ p \in Seq(S)
  <2>1. \A j \in i + 1 .. k : s[j] \in S
    BY <1>1
  <2> QED BY <1>1, <2>1, SubSeqProperties
<1>3. SubSeq(s, i + 1, k + 1) = SubSeq(s, i + 1, (k + 1) - 1) \o <<x>>
  BY <1>1, SubSeqRecursiveSecond
<1>4. SubSeq(s, i + 1, k + 1) = p \o <<x>>
  BY <1>1, <1>3, Zenon
<1> HIDE DEF p, x
<1>5. Append(a \o p, x) = (a \o p) \o <<x>>
  BY <1>2, AppendIsConcat, ConcatProperties
<1>6. (a \o p) \o <<x>> = a \o (p \o <<x>>)
  <2>1. <<x>> \in Seq(S)
    BY <1>2
  <2> QED BY <1>2, <2>1, ConcatAssociative, SMTT(30)
<1>7. Append(a \o p, x) = a \o SubSeq(s, i + 1, k + 1)
  BY <1>4, <1>5, <1>6, Zenon
<1> QED BY <1>7, Zenon DEF p, x, Grows

-----------------------------------------------------------------------------
(* In a section without code, each piece is read as it is. *)
LEMMA ReadInSection ==
  ASSUME NEW html \in Seq(Piece), NEW i \in 1 .. Len(html), NEW so \in ReadState,
         i <= so.section
  PROVE  LET new == ReadPiece(so, html, i)
         IN  /\ new.items = Append(so.items, html[i]) /\ new.section = so.section
             /\ new.column = so.column
<1> DEFINE section == IF i <= so.section THEN so.section ELSE NoCodeEnd(html, i)
<1>1. section = so.section /\ i <= section
  OBVIOUS
<1>2. i <= section => /\ ReadPiece(so, html, i).items = Append(so.items, html[i])
                      /\ ReadPiece(so, html, i).section = section
                      /\ ReadPiece(so, html, i).column = so.column
  BY ReadPieceIs
<1> HIDE DEF section
<1> QED BY <1>1, <1>2

(* A tag begins a section or is one by itself. *)
LEMMA ReadOutside ==
  ASSUME NEW html \in Seq(Piece), NEW i \in 1 .. Len(html), NEW so \in ReadState,
         ~(i <= so.section)
  PROVE  LET new == ReadPiece(so, html, i)
             c == Read(html[i])
         IN  /\ new \in ReadState
             /\ html[i].k = "tag" =>
                  /\ new.items = Append(so.items, html[i]) /\ new.section = NoCodeEnd(html, i)
                  /\ new.column = so.column
             /\ html[i].k = "comment" => new = so
             /\ html[i].k \notin {"tag", "comment"} =>
                  /\ c \in Char /\ new.items = so.items \o ReadChars(c, so.column)
                  /\ new.column = NextColumn(c, so.column) /\ new.section = so.section
<1> DEFINE section == IF i <= so.section THEN so.section ELSE NoCodeEnd(html, i)
           new == ReadPiece(so, html, i)
           c == Read(html[i])
<1>1. section = NoCodeEnd(html, i)
  OBVIOUS
<1>2. html[i].k # "tag" => i > section
  BY <1>1, NoCodeEndIs
<1>3. /\ new \in ReadState
      /\ i <= section \/ html[i].k = "tag" =>
           new.items = Append(so.items, html[i]) /\ new.section = section
           /\ new.column = so.column
      /\ i > section /\ html[i].k = "comment" => new = so
      /\ i > section /\ html[i].k \notin {"tag", "comment"} =>
           /\ c \in Char /\ new.items = so.items \o ReadChars(c, so.column)
           /\ new.column = NextColumn(c, so.column) /\ new.section = so.section
  BY ReadPieceIs
<1> HIDE DEF section, new, c
<1>4. /\ html[i].k = "tag" => /\ new.items = Append(so.items, html[i])
                              /\ new.section = NoCodeEnd(html, i)
                              /\ new.column = so.column
      /\ html[i].k = "comment" => new = so
      /\ html[i].k \notin {"tag", "comment"} =>
           /\ c \in Char /\ new.items = so.items \o ReadChars(c, so.column)
           /\ new.column = NextColumn(c, so.column) /\ new.section = so.section
  BY <1>1, <1>2, <1>3
<1> QED BY <1>3, <1>4 DEF new, c

(* In a section nothing is extracted, and all pieces are read. *)
LEMMA SectionPasses ==
  ASSUME NEW html \in Seq(Piece), NEW i \in 1 .. Len(html), NEW e \in i .. Len(html),
         Extraction(html)[i].next = e + 1, e # i => Reading(html)[i].section = e
  PROVE  /\ Extraction(html)[e] = Extraction(html)[i]
         /\ Reading(html)[e].items = Reading(html)[i].items \o SubSeq(html, i + 1, e)
         /\ Reading(html)[e].column = Reading(html)[i].column
         /\ Reading(html)[e].section = Reading(html)[i].section
<1> DEFINE x == Extraction(html)
           r == Reading(html)
           n == Len(html)
           P == {k \in i .. e : /\ x[k] = x[i]
                                /\ r[k].items = r[i].items \o SubSeq(html, i + 1, k)
                                /\ r[k].column = r[i].column
                                /\ r[k].section = r[i].section}
<1>1. x \in [0 .. n -> Extract] /\ \A k \in 1 .. n : x[k] = ExtractPiece(x[k - 1], html, k)
  BY ExtractionIs
<1>2. r \in [0 .. n -> ReadState] /\ \A k \in 1 .. n : r[k] = ReadPiece(r[k - 1], html, k)
  BY ReadingIs
<1>3. x[i].next = e + 1 /\ (e # i => r[i].section = e)
  OBVIOUS
<1>4. n \in Nat /\ i \in 1 .. n /\ i \in 0 .. n /\ e \in i .. n /\ e \in Nat /\ i \in Nat
      /\ i \in Int /\ e \in Int
  BY LenProperties
<1>5. r[i].items \in Seq(Seen) /\ html \in Seq(Seen)
  <2>1. r[i] \in ReadState
    BY <1>2, <1>4
  <2>2. Piece \subseteq Seen
    BY DEF Seen
  <2> QED BY <2>1, <2>2, SeqMonotonic DEF ReadState
<1> HIDE DEF x, r, n
<1>6. i \in P
  <2>1. SubSeq(html, i + 1, i) = <<>>
    <3>1. i + 1 \in Int /\ i < i + 1
      BY <1>4
    <3> QED BY <1>4, <3>1, SubSeqEmpty
  <2>2. r[i].items \o SubSeq(html, i + 1, i) = r[i].items
    BY <1>5, <2>1, ConcatEmptySeq
  <2>3. i \in i .. e
    BY <1>4
  <2> QED BY <2>2, <2>3
<1>7. ASSUME NEW k \in i .. e - 1, k \in P
      PROVE  k + 1 \in P
  <2>1. /\ k + 1 \in 1 .. n /\ (k + 1) - 1 = k /\ k \in 0 .. n /\ k + 1 \in i .. e /\ e # i
        /\ k + 1 <= e /\ k + 1 < e + 1 /\ k + 1 \in Nat /\ k \in i .. n - 1
    BY <1>4
  <2>2. x[k + 1] = ExtractPiece(x[k], html, k + 1) /\ x[k] \in Extract
    BY <1>1, <2>1
  <2>3. r[k + 1] = ReadPiece(r[k], html, k + 1) /\ r[k] \in ReadState
    BY <1>2, <2>1
  <2>4. /\ x[k] = x[i] /\ r[k].items = r[i].items \o SubSeq(html, i + 1, k)
        /\ r[k].column = r[i].column /\ r[k].section = r[i].section
    BY <1>7
  <2> HIDE DEF P
  <2>5. x[k + 1] = x[k]
    <3>1. k + 1 < x[k].next
      BY <1>3, <2>1, <2>4
    <3> QED BY <2>1, <2>2, <3>1, ExtractPieceCases DEF n
  <2>6. k + 1 <= r[k].section
    BY <1>3, <2>1, <2>4
  <2>7. /\ r[k + 1].items = Append(r[k].items, html[k + 1])
        /\ r[k + 1].section = r[k].section /\ r[k + 1].column = r[k].column
    <3> DEFINE j == k + 1
               so == r[k]
    <3>1. j \in 1 .. Len(html) /\ so \in ReadState /\ j <= so.section
      BY <2>1, <2>3, <2>6 DEF n
    <3>2. r[j] = ReadPiece(so, html, j)
      BY <2>3
    <3> HIDE DEF j, so
    <3>3. r[j].items = Append(so.items, html[j]) /\ r[j].section = so.section
          /\ r[j].column = so.column
      BY <3>1, <3>2, ReadInSection
    <3> QED BY <3>3 DEF j, so
  <2>8. Append(r[k].items, html[k + 1]) = r[i].items \o SubSeq(html, i + 1, k + 1)
    <3>1. Append(r[i].items \o SubSeq(html, i + 1, k), html[k + 1])
            = r[i].items \o SubSeq(html, i + 1, k + 1)
      <4>1. i \in Nat /\ k \in i .. Len(html) - 1
        BY <1>4, <2>1 DEF n
      <4> DEFINE a == r[i].items
      <4>2. a \in Seq(Seen) /\ html \in Seq(Seen)
        BY <1>5
      <4> HIDE DEF a
      <4>3. Grows(a, html, i, k)
        BY <4>1, <4>2, SubSeqGrows
      <4> QED BY <4>3, Zenon DEF a, Grows
    <3> QED BY <2>4, <3>1, Zenon
  <2> QED BY <2>1, <2>4, <2>5, <2>7, <2>8, Zenon DEF P
<1>8. e \in P
  <2> HIDE DEF P
  <2>1. i .. e \subseteq P
    BY <1>4, <1>6, <1>7, Upwards
  <2> QED BY <1>4, <2>1
<1> QED BY <1>8 DEF x, r

(* The part of s that comes behind a begins with its i-th item. *)
Begins(a, s, i, k) ==
  Append(a, s[i]) \o SubSeq(s, i + 1, k) = a \o SubSeq(s, i, k)

(* A part of a sequence begins with the item before the rest. *)
LEMMA SubSeqBegins ==
  ASSUME NEW S, NEW a \in Seq(S), NEW s \in Seq(S), NEW i \in 1 .. Len(s), NEW k \in i .. Len(s)
  PROVE  Begins(a, s, i, k)
<1> DEFINE p == SubSeq(s, i + 1, k)
           x == s[i]
<1>1. Len(s) \in Nat /\ i + 1 \in Int /\ k \in Int /\ \A j \in i + 1 .. k : j \in 1 .. Len(s)
  OBVIOUS
<1>2. x \in S /\ p \in Seq(S) /\ <<x>> \in Seq(S)
  <2>1. \A j \in i + 1 .. k : s[j] \in S
    BY <1>1
  <2>2. p \in Seq(S)
    BY <1>1, <2>1, SubSeqProperties
  <2> QED BY <2>2
<1>3. SubSeq(s, i, k) = <<x>> \o p
  BY SubSeqRecursiveFirst
<1> HIDE DEF p, x
<1>4. Append(a, x) = a \o <<x>>
  BY <1>2, AppendIsConcat
<1>5. (a \o <<x>>) \o p = a \o (<<x>> \o p)
  BY <1>2, ConcatAssociative, SMTT(30)
<1>6. Append(a, x) \o p = a \o SubSeq(s, i, k)
  BY <1>3, <1>4, <1>5, Zenon
<1> QED BY <1>6, Zenon DEF p, x, Begins

-----------------------------------------------------------------------------
(* What a tag, a comment and a character that is extracted and read change *)
TagRead(a, b, ra, rb, html, m, end) ==
  /\ end \in m .. Len(html) /\ (NoCodeEnd(html, m) = 0 => end = m)
  /\ (NoCodeEnd(html, m) # 0 => end = NoCodeEnd(html, m))
  /\ b.source = a.source /\ b.next = end + 1
  /\ b.tags = Append(a.tags, [at |-> Len(a.source), html |-> SubSeq(html, m, end)])
  /\ rb.items = Append(ra.items, html[m]) /\ rb.section = NoCodeEnd(html, m)
  /\ rb.column = ra.column

(* What a character that is extracted and read changes *)
CharRead(a, b, ra, rb, c) ==
  /\ c \in Char /\ b.source = Append(a.source, c) /\ b.tags = a.tags /\ b.next = a.next
  /\ rb.items = ra.items \o ReadChars(c, ra.column)
  /\ rb.column = NextColumn(c, ra.column) /\ rb.section = ra.section

(* A tag outside sections is extracted, and read as it is. *)
LEMMA TagPiece ==
  ASSUME NEW html \in Seq(Piece), NEW m \in 1 .. Len(html), NEW a \in Extract,
         NEW ra \in ReadState, m >= a.next, ~(m <= ra.section), html[m].k = "tag"
  PROVE  TagRead(a, ExtractPiece(a, html, m), ra, ReadPiece(ra, html, m), html, m,
                 Max({m, NoCodeEnd(html, m)}))
<1> DEFINE b == ExtractPiece(a, html, m)
           rb == ReadPiece(ra, html, m)
           end == Max({m, NoCodeEnd(html, m)})
<1>1. /\ end \in m .. Len(html) /\ (NoCodeEnd(html, m) = 0 => end = m)
      /\ (NoCodeEnd(html, m) # 0 => end = NoCodeEnd(html, m))
      /\ m >= a.next /\ html[m].k = "tag" =>
           /\ b.source = a.source /\ b.next = end + 1
           /\ b.tags = Append(a.tags, [at |-> Len(a.source), html |-> SubSeq(html, m, end)])
  BY ExtractPieceCases
<1>2. html[m].k = "tag" =>
           /\ rb.items = Append(ra.items, html[m]) /\ rb.section = NoCodeEnd(html, m)
           /\ rb.column = ra.column
  BY ReadOutside
<1> HIDE DEF b, rb, end
<1>3. TagRead(a, b, ra, rb, html, m, end)
  BY <1>1, <1>2, Zenon DEF TagRead
<1> QED BY <1>3, Zenon DEF b, rb, end

(* A comment outside sections is neither extracted nor read. *)
LEMMA CommentPiece ==
  ASSUME NEW html \in Seq(Piece), NEW m \in 1 .. Len(html), NEW a \in Extract,
         NEW ra \in ReadState, ~(m <= ra.section), html[m].k = "comment"
  PROVE  ExtractPiece(a, html, m) = a /\ ReadPiece(ra, html, m) = ra
<1> DEFINE b == ExtractPiece(a, html, m)
           rb == ReadPiece(ra, html, m)
<1>1. m < a.next \/ html[m].k = "comment" => b = a
  BY ExtractPieceCases
<1>2. html[m].k = "comment" => rb = ra
  BY ReadOutside
<1> HIDE DEF b, rb
<1>3. b = a /\ rb = ra
  BY <1>1, <1>2, Zenon
<1> QED BY <1>3, Zenon DEF b, rb

(* A character outside sections is extracted and read. *)
LEMMA CharPiece ==
  ASSUME NEW html \in Seq(Piece), NEW m \in 1 .. Len(html), NEW a \in Extract,
         NEW ra \in ReadState, m >= a.next, ~(m <= ra.section),
         html[m].k \notin {"tag", "comment"}
  PROVE  CharRead(a, ExtractPiece(a, html, m), ra, ReadPiece(ra, html, m), Read(html[m]))
<1> DEFINE b == ExtractPiece(a, html, m)
           rb == ReadPiece(ra, html, m)
           c == Read(html[m])
<1>1. m >= a.next /\ html[m].k \notin {"tag", "comment"} =>
        /\ c \in Char /\ b.source = Append(a.source, c) /\ b.tags = a.tags /\ b.next = a.next
  BY ExtractPieceCases
<1>2. html[m].k \notin {"tag", "comment"} =>
        /\ c \in Char /\ rb.items = ra.items \o ReadChars(c, ra.column)
        /\ rb.column = NextColumn(c, ra.column) /\ rb.section = ra.section
  BY ReadOutside
<1> HIDE DEF b, rb, c
<1>3. CharRead(a, b, ra, rb, c)
  BY <1>1, <1>2, Zenon DEF CharRead
<1> QED BY <1>3, Zenon DEF b, rb, c

-----------------------------------------------------------------------------
(* Extracting and reading have both dealt with the first i pieces of html, *)
(* and no section goes on behind them.                                     *)
Synced(html, i) == Extraction(html)[i].next <= i + 1 /\ Reading(html)[i].section <= i

(* What comes from i to j is a comment, a tag or a section, or a           *)
(* character.                                                              *)
Skips(html, i, j) ==
  Extraction(html)[j] = Extraction(html)[i] /\ Reading(html)[j] = Reading(html)[i]

(* What comes from i to j is a tag, or a section, which is extracted as    *)
(* one tag.                                                                *)
ReadsTag(html, i, j) ==
  LET from == Extraction(html)[i]
      to == Extraction(html)[j]
      part == SubSeq(html, i + 1, j)
  IN  /\ to.source = from.source
      /\ to.tags = Append(from.tags, [at |-> Len(from.source), html |-> part])
      /\ Reading(html)[j].items = Reading(html)[i].items \o part
      /\ Reading(html)[j].column = Reading(html)[i].column

(* What comes from i to j is a character. *)
ReadsChar(html, i, j) ==
  LET from == Extraction(html)[i]
      to == Extraction(html)[j]
      column == Reading(html)[i].column
  IN  \E c \in Char :
        /\ to.source = Append(from.source, c) /\ to.tags = from.tags
        /\ Reading(html)[j].items = Reading(html)[i].items \o ReadChars(c, column)
        /\ Reading(html)[j].column = NextColumn(c, column)

(* A tag is extracted with its section, and read with it. *)
LEMMA NextIsTag ==
  ASSUME NEW html \in Seq(Piece), NEW i \in 0 .. Len(html) - 1, Synced(html, i),
         html[i + 1].k = "tag"
  PROVE  \E j \in i + 1 .. Len(html) : Synced(html, j) /\ ReadsTag(html, i, j)
<1> DEFINE x == Extraction(html)
           r == Reading(html)
           n == Len(html)
           m == i + 1
           end == Max({m, NoCodeEnd(html, m)})
<1>1. x \in [0 .. n -> Extract] /\ \A k \in 1 .. n : x[k] = ExtractPiece(x[k - 1], html, k)
  BY ExtractionIs
<1>2. r \in [0 .. n -> ReadState] /\ \A k \in 1 .. n : r[k] = ReadPiece(r[k - 1], html, k)
  BY ReadingIs
<1>3. n \in Nat /\ m \in 1 .. n /\ m - 1 = i /\ i \in 0 .. n /\ m \in Nat /\ i \in Nat
      /\ m \in 0 .. n
  BY LenProperties
<1>4. x[i].next <= m /\ r[i].section <= i /\ html[m].k = "tag"
  BY DEF Synced
<1>5. x[i] \in Extract /\ r[i] \in ReadState /\ x[m] = ExtractPiece(x[i], html, m)
      /\ r[m] = ReadPiece(r[i], html, m)
  BY <1>1, <1>2, <1>3
<1>6. x[i].next \in Nat /\ r[i].section \in Nat /\ r[i].items \in Seq(Seen)
  BY <1>5, ExtractType DEF ReadState
<1> HIDE DEF x, r, n, m
<1>7. /\ m >= x[i].next /\ ~(m <= r[i].section) /\ m \in 1 .. Len(html)
  BY <1>3, <1>4, <1>6 DEF n
<1>8. TagRead(x[i], x[m], r[i], r[m], html, m, end)
  <2> DEFINE a == x[i]
             ra == r[i]
  <2>1. /\ a \in Extract /\ ra \in ReadState /\ m >= a.next /\ ~(m <= ra.section)
        /\ x[m] = ExtractPiece(a, html, m) /\ r[m] = ReadPiece(ra, html, m)
    BY <1>5, <1>7
  <2> HIDE DEF a, ra, end
  <2>2. TagRead(a, ExtractPiece(a, html, m), ra, ReadPiece(ra, html, m), html, m, end)
    BY <1>4, <1>7, <2>1, TagPiece DEF end
  <2> QED BY <2>1, <2>2, Zenon DEF a, ra
<1> HIDE DEF end
<1>9. /\ end \in m .. n /\ (NoCodeEnd(html, m) = 0 => end = m)
      /\ (NoCodeEnd(html, m) # 0 => end = NoCodeEnd(html, m))
      /\ x[m].source = x[i].source /\ x[m].next = end + 1
      /\ x[m].tags = Append(x[i].tags, [at |-> Len(x[i].source),
                                        html |-> SubSeq(html, m, end)])
      /\ r[m].items = Append(r[i].items, html[m]) /\ r[m].section = NoCodeEnd(html, m)
      /\ r[m].column = r[i].column
  BY <1>8, Zenon DEF TagRead, n
<1>10. end # m => r[m].section = end
  BY <1>9
<1>11. /\ x[end] = x[m] /\ r[end].items = r[m].items \o SubSeq(html, m + 1, end)
       /\ r[end].column = r[m].column /\ r[end].section = r[m].section
  <2>1. m \in 1 .. Len(html) /\ end \in m .. Len(html)
    BY <1>7, <1>9 DEF n
  <2>2. Extraction(html)[m].next = end + 1
    BY <1>9 DEF x
  <2>3. end # m => Reading(html)[m].section = end
    BY <1>10 DEF r
  <2> QED BY <2>1, <2>2, <2>3, SectionPasses DEF x, r
<1>12. r[end].items = r[i].items \o SubSeq(html, m, end)
  <2>1. html \in Seq(Seen)
    <3>1. Piece \subseteq Seen
      BY DEF Seen
    <3> QED BY <3>1, SeqMonotonic
  <2> DEFINE a == r[i].items
  <2>2. a \in Seq(Seen) /\ m \in 1 .. Len(html) /\ end \in m .. Len(html)
    BY <1>6, <1>7, <1>9 DEF n
  <2> HIDE DEF a
  <2>3. Begins(a, html, m, end)
    BY <2>1, <2>2, SubSeqBegins
  <2> QED BY <1>9, <1>11, <2>3, Zenon DEF Begins, a
<1>13. Synced(html, end)
  <2>1. x[end].next <= end + 1
    BY <1>3, <1>9, <1>11
  <2>2. r[end].section <= end
    BY <1>3, <1>9, <1>11
  <2> QED BY <2>1, <2>2 DEF Synced, x, r
<1>14. ReadsTag(html, i, end)
  BY <1>9, <1>11, <1>12, Zenon DEF ReadsTag, x, r, m
<1> QED BY <1>9, <1>13, <1>14 DEF n, m

(* A piece that is no tag is a comment or a character. *)
LEMMA NextIsNoTag ==
  ASSUME NEW html \in Seq(Piece), NEW i \in 0 .. Len(html) - 1, Synced(html, i),
         html[i + 1].k # "tag"
  PROVE  Synced(html, i + 1) /\ (Skips(html, i, i + 1) \/ ReadsChar(html, i, i + 1))
<1> DEFINE x == Extraction(html)
           r == Reading(html)
           n == Len(html)
           m == i + 1
           c == Read(html[m])
<1>1. x \in [0 .. n -> Extract] /\ \A k \in 1 .. n : x[k] = ExtractPiece(x[k - 1], html, k)
  BY ExtractionIs
<1>2. r \in [0 .. n -> ReadState] /\ \A k \in 1 .. n : r[k] = ReadPiece(r[k - 1], html, k)
  BY ReadingIs
<1>3. n \in Nat /\ m \in 1 .. n /\ m - 1 = i /\ i \in 0 .. n /\ m \in Nat /\ i \in Nat
      /\ m \in 0 .. n /\ m + 1 \in Nat /\ m = i + 1
  BY LenProperties
<1>4. x[i].next <= m /\ r[i].section <= i /\ html[m].k # "tag"
  BY DEF Synced
<1>5. x[i] \in Extract /\ r[i] \in ReadState /\ x[m] = ExtractPiece(x[i], html, m)
      /\ r[m] = ReadPiece(r[i], html, m)
  BY <1>1, <1>2, <1>3
<1>6. x[i].next \in Nat /\ r[i].section \in Nat
  BY <1>5, ExtractType DEF ReadState
<1> HIDE DEF x, r, n, m, c
<1>7. /\ m >= x[i].next /\ ~(m <= r[i].section) /\ m \in 1 .. Len(html)
  BY <1>3, <1>4, <1>6 DEF n
<1>8. CASE html[m].k = "comment"
  <2> DEFINE a == x[i]
             ra == r[i]
  <2>a. /\ a \in Extract /\ ra \in ReadState /\ ~(m <= ra.section)
        /\ x[m] = ExtractPiece(a, html, m) /\ r[m] = ReadPiece(ra, html, m)
    BY <1>5, <1>7
  <2>b. x[m] = a /\ r[m] = ra
    <3> HIDE DEF a, ra
    <3>1. ExtractPiece(a, html, m) = a /\ ReadPiece(ra, html, m) = ra
      BY <1>7, <1>8, <2>a, CommentPiece
    <3> QED BY <2>a, <3>1, Zenon
  <2>1. x[m] = x[i]
    BY <2>b
  <2>2. r[m] = r[i]
    BY <2>b
  <2> HIDE DEF a, ra
  <2>3. x[m].next <= m + 1 /\ r[m].section <= m
    BY <1>3, <1>4, <1>6, <2>1, <2>2
  <2> QED BY <2>1, <2>2, <2>3 DEF Synced, Skips, x, r, m
<1>9. CASE html[m].k # "comment"
  <2>1. html[m].k \notin {"tag", "comment"}
    BY <1>4, <1>9
  <2>2. CharRead(x[i], x[m], r[i], r[m], c)
    <3> DEFINE a == x[i]
               ra == r[i]
    <3>1. /\ a \in Extract /\ ra \in ReadState /\ m >= a.next /\ ~(m <= ra.section)
          /\ x[m] = ExtractPiece(a, html, m) /\ r[m] = ReadPiece(ra, html, m)
      BY <1>5, <1>7
    <3> HIDE DEF a, ra
    <3>2. CharRead(a, ExtractPiece(a, html, m), ra, ReadPiece(ra, html, m), c)
      BY <1>7, <2>1, <3>1, CharPiece DEF c
    <3> QED BY <3>1, <3>2, Zenon DEF a, ra
  <2>3. /\ c \in Char /\ x[m].source = Append(x[i].source, c)
        /\ x[m].tags = x[i].tags /\ x[m].next = x[i].next
        /\ r[m].items = r[i].items \o ReadChars(c, r[i].column)
        /\ r[m].column = NextColumn(c, r[i].column) /\ r[m].section = r[i].section
    BY <2>2, Zenon DEF CharRead
  <2>4. x[m].next <= m + 1 /\ r[m].section <= m
    BY <1>3, <1>4, <1>6, <2>3
  <2>5. Synced(html, m)
    BY <2>4 DEF Synced, x, r
  <2>6. ReadsChar(html, i, m)
    BY <2>3 DEF ReadsChar, x, r
  <2> QED BY <2>5, <2>6 DEF m
<1> QED BY <1>8, <1>9

(* When s characters and t tags have been extracted, it goes on in column, *)
(* and items have been read.                                               *)
ReachesAt(html, i, s, t, column, items) ==
  /\ i \in 0 .. Len(html) /\ Synced(html, i)
  /\ Len(Extraction(html)[i].source) = s /\ Len(Extraction(html)[i].tags) = t
  /\ Reading(html)[i].column = column /\ Reading(html)[i].items = items

(* Extracting and reading come to this at some piece of html. *)
Reach(html, s, t, column, items) == \E i : ReachesAt(html, i, s, t, column, items)

(* The next thing that is extracted, if there is any *)
ReachEnd(html, s, t, items) ==
  /\ s = Len(ExtractTags(html).source) /\ t = Len(ExtractTags(html).tags)
  /\ items = Readable(html)

(* Next comes a tag: the next of all, at this place. *)
ReachTag(html, s, t, column, items) ==
  LET entries == ExtractTags(html).tags
  IN  /\ t < Len(entries) /\ entries[t + 1].at = s
      /\ Reach(html, s, t + 1, column, items \o entries[t + 1].html)

(* Next comes a character: the next of all, with no tag before it. *)
ReachChar(html, s, t, column, items) ==
  LET text == ExtractTags(html).source
      entries == ExtractTags(html).tags
  IN  /\ s < Len(text) /\ (t < Len(entries) => entries[t + 1].at > s)
      /\ Reach(html, s + 1, t, NextColumn(text[s + 1], column),
               items \o ReadChars(text[s + 1], column))

(* They begin with nothing. *)
LEMMA ReachStart == ASSUME NEW html \in Seq(Piece) PROVE Reach(html, 0, 0, 0, <<>>)
<1> DEFINE x == Extraction(html)
           r == Reading(html)
<1>1. x[0] = [source |-> <<>>, tags |-> <<>>, next |-> 1]
  BY ExtractionIs
<1>2. r[0] = [items |-> <<>>, column |-> 0, section |-> 0]
  BY ReadingIs
<1>3. Len(html) \in Nat /\ 0 \in 0 .. Len(html)
  OBVIOUS
<1> HIDE DEF x, r
<1>4. /\ Len(x[0].source) = 0 /\ Len(x[0].tags) = 0 /\ r[0].column = 0 /\ r[0].items = <<>>
      /\ x[0].next <= 0 + 1 /\ r[0].section <= 0
  BY <1>1, <1>2
<1>5. ReachesAt(html, 0, 0, 0, 0, <<>>)
  BY <1>3, <1>4, Zenon DEF ReachesAt, Synced, x, r
<1> QED BY <1>5, Zenon DEF Reach

(* A tag that is extracted is the next of all. *)
LEMMA TagReached ==
  ASSUME NEW html \in Seq(Piece), NEW i \in 0 .. Len(html), NEW j \in i .. Len(html),
         NEW s, NEW t, NEW column, NEW items,
         ReachesAt(html, i, s, t, column, items), Synced(html, j), ReadsTag(html, i, j)
  PROVE  ReachTag(html, s, t, column, items)
<1> DEFINE x == Extraction(html)
           r == Reading(html)
           n == Len(html)
           part == SubSeq(html, i + 1, j)
           e == [at |-> Len(x[i].source), html |-> part]
           all == x[n]
<1>1. x \in [0 .. n -> Extract] /\ ExtractTags(html) = all
  BY ExtractionIs
<1>2. n \in Nat /\ i \in 0 .. n /\ j \in 0 .. n /\ n \in 0 .. n /\ j \in i .. n /\ n \in j .. n
      /\ i \in Nat /\ j \in Nat
  BY LenProperties
<1>3. x[i] \in Extract /\ x[j] \in Extract /\ all \in Extract
  BY <1>1, <1>2
<1>4. Further(x[j], all)
  BY <1>2, FurtherAll
<1>5. /\ x[j].source = x[i].source /\ x[j].tags = Append(x[i].tags, e)
      /\ r[j].items = r[i].items \o part /\ r[j].column = r[i].column
  BY Zenon DEF ReadsTag
<1>6. /\ Len(x[i].source) = s /\ Len(x[i].tags) = t /\ r[i].column = column
      /\ r[i].items = items
  BY Zenon DEF ReachesAt
<1>7. /\ x[i].tags \in Seq(TagEntry) /\ s \in Nat /\ t \in Nat
      /\ x[j].tags \in Seq(TagEntry) /\ all.tags \in Seq(TagEntry) /\ Len(all.tags) \in Nat
  BY <1>3, <1>6, ExtractType
<1>8. part \in Seq(Piece)
  <2>1. i + 1 \in Int /\ j \in Int /\ \A k \in i + 1 .. j : k \in 1 .. n
    BY <1>2
  <2>2. \A k \in i + 1 .. j : html[k] \in Piece
    BY <2>1
  <2> QED BY <2>1, <2>2, SubSeqProperties
<1>9. e \in TagEntry /\ e.at = s /\ e.html = part
  BY <1>6, <1>7, <1>8 DEF TagEntry
<1> HIDE DEF x, r, n, part, e, all
<1>10. Len(x[j].tags) = t + 1 /\ x[j].tags[t + 1] = e
  BY <1>5, <1>6, <1>7, <1>9, AppendProperties
<1>11. t < Len(all.tags) /\ all.tags[t + 1] = e
  <2>1. Len(x[j].tags) <= Len(all.tags)
    BY <1>4 DEF Further
  <2>2. t + 1 \in 1 .. Len(x[j].tags) /\ t < Len(all.tags)
    BY <1>7, <1>10, <2>1
  <2>3. \A k \in 1 .. Len(x[j].tags) : all.tags[k] = x[j].tags[k]
    BY <1>4 DEF Further
  <2> QED BY <1>10, <2>2, <2>3
<1>12. ReachesAt(html, j, s, t + 1, column, items \o part)
  BY <1>2, <1>5, <1>6, <1>10, Zenon DEF ReachesAt, x, r, n
<1>13. Reach(html, s, t + 1, column, items \o all.tags[t + 1].html)
  BY <1>9, <1>11, <1>12, Zenon DEF Reach
<1> QED BY <1>1, <1>9, <1>11, <1>13, Zenon DEF ReachTag

(* So is a character, and no tag of all comes before it. *)
LEMMA CharReached ==
  ASSUME NEW html \in Seq(Piece), NEW i \in 0 .. Len(html) - 1,
         NEW s, NEW t, NEW column, NEW items,
         ReachesAt(html, i, s, t, column, items), Synced(html, i + 1),
         ReadsChar(html, i, i + 1)
  PROVE  ReachChar(html, s, t, column, items)
<1> DEFINE x == Extraction(html)
           r == Reading(html)
           n == Len(html)
           j == i + 1
           all == x[n]
<1>1. x \in [0 .. n -> Extract] /\ ExtractTags(html) = all
  BY ExtractionIs
<1>2. n \in Nat /\ i \in 0 .. n /\ j \in 0 .. n /\ n \in 0 .. n /\ n \in j .. n
  BY LenProperties
<1>3. x[i] \in Extract /\ x[j] \in Extract /\ all \in Extract
  BY <1>1, <1>2
<1>4. Further(x[j], all)
  BY <1>2, FurtherAll
<1>5. PICK c \in Char :
        /\ x[j].source = Append(x[i].source, c) /\ x[j].tags = x[i].tags
        /\ r[j].items = r[i].items \o ReadChars(c, r[i].column)
        /\ r[j].column = NextColumn(c, r[i].column)
  BY Zenon DEF ReadsChar
<1>6. /\ Len(x[i].source) = s /\ Len(x[i].tags) = t /\ r[i].column = column
      /\ r[i].items = items /\ Synced(html, j)
  BY Zenon DEF ReachesAt
<1>7. /\ x[i].source \in Seq(Char) /\ s \in Nat /\ t \in Nat
      /\ all.source \in Seq(Char) /\ all.tags \in Seq(TagEntry)
      /\ Len(all.source) \in Nat /\ Len(all.tags) \in Nat
  BY <1>3, <1>6, ExtractType
<1> HIDE DEF x, r, n, j, all
<1>8. Len(x[j].source) = s + 1 /\ x[j].source[s + 1] = c /\ Len(x[j].tags) = t
  BY <1>5, <1>6, <1>7, AppendProperties
<1>9. s < Len(all.source) /\ all.source[s + 1] = c
  <2>1. Len(x[j].source) <= Len(all.source)
    BY <1>4 DEF Further
  <2>2. s + 1 \in 1 .. Len(x[j].source) /\ s < Len(all.source)
    BY <1>7, <1>8, <2>1
  <2>3. \A k \in 1 .. Len(x[j].source) : all.source[k] = x[j].source[k]
    BY <1>4 DEF Further
  <2> QED BY <1>8, <2>2, <2>3
<1>10. ASSUME t < Len(all.tags)
       PROVE  all.tags[t + 1].at > s
  <2>1. \A k \in Len(x[j].tags) + 1 .. Len(all.tags) : all.tags[k].at >= Len(x[j].source)
    BY <1>4 DEF Further
  <2>2. t + 1 \in t + 1 .. Len(all.tags) /\ t + 1 \in DOMAIN all.tags
    BY <1>7, <1>10
  <2>3. all.tags[t + 1].at >= s + 1
    BY <1>8, <2>1, <2>2
  <2>4. all.tags[t + 1].at \in Nat
    BY <1>7, <2>2, EntryType
  <2> DEFINE at == all.tags[t + 1].at
  <2> HIDE DEF at
  <2>5. at >= s + 1 /\ at \in Nat => at > s
    BY <1>7
  <2> QED BY <2>3, <2>4, <2>5 DEF at
<1>11. ReachesAt(html, j, s + 1, t, NextColumn(c, column), items \o ReadChars(c, column))
  BY <1>2, <1>5, <1>6, <1>8, Zenon DEF ReachesAt, x, r, n
<1>12. Reach(html, s + 1, t, NextColumn(all.source[s + 1], column),
             items \o ReadChars(all.source[s + 1], column))
  BY <1>9, <1>11, Zenon DEF Reach
<1> QED BY <1>1, <1>9, <1>10, <1>12, Zenon DEF ReachChar

(* Behind the last of the comments that may come, it is the end of html or *)
(* the next tag or character of all.                                       *)
LEMMA ReachCases ==
  ASSUME NEW html \in Seq(Piece), NEW s, NEW t, NEW column, NEW items,
         Reach(html, s, t, column, items)
  PROVE  \/ ReachEnd(html, s, t, items)
         \/ ReachTag(html, s, t, column, items)
         \/ ReachChar(html, s, t, column, items)
<1> DEFINE n == Len(html)
           P == {k \in 0 .. n : ReachesAt(html, k, s, t, column, items)}
           i == Max(P)
<1>1. n \in Nat /\ n \in Int
  BY LenProperties
<1>2. P # {} /\ P \subseteq Int /\ \A k \in P : k <= n
  <2>1. \E k \in 0 .. n : ReachesAt(html, k, s, t, column, items)
    BY Zenon DEF Reach, ReachesAt
  <2> QED BY <1>1, <2>1
<1>3. i \in P /\ \A k \in P : k <= i
  <2> HIDE DEF P, n
  <2> QED BY <1>1, <1>2, MaxIs
<1>4. i \in 0 .. n /\ ReachesAt(html, i, s, t, column, items)
  <2> HIDE DEF i
  <2> QED BY <1>3
<1> HIDE DEF P, n, i
<1>5. Synced(html, i)
  BY <1>4 DEF ReachesAt
<1>6. CASE i = n
  <2>1. ExtractTags(html) = Extraction(html)[n]
    BY ExtractionIs DEF n
  <2>2. Readable(html) = Reading(html)[n].items
    BY ReadingIs DEF n
  <2>3. ReachEnd(html, s, t, items)
    BY <1>4, <1>6, <2>1, <2>2, Zenon DEF ReachEnd, ReachesAt
  <2> QED BY <2>3
<1>7. CASE i # n
  <2>1. /\ i \in 0 .. n - 1 /\ i + 1 \in i .. n /\ i + 1 \in 0 .. n /\ ~(i + 1 <= i)
        /\ i + 1 .. n \subseteq i .. n
    BY <1>1, <1>4, <1>7
  <2>2. CASE html[i + 1].k = "tag"
    <3>1. PICK j \in i + 1 .. n : Synced(html, j) /\ ReadsTag(html, i, j)
      BY <1>5, <2>1, <2>2, NextIsTag DEF n
    <3>2. j \in i .. n
      BY <2>1
    <3>3. ReachTag(html, s, t, column, items)
      BY <1>4, <3>1, <3>2, TagReached DEF n
    <3> QED BY <3>3
  <2>3. CASE html[i + 1].k # "tag"
    <3>1. Synced(html, i + 1) /\ (Skips(html, i, i + 1) \/ ReadsChar(html, i, i + 1))
      BY <1>5, <2>1, <2>3, NextIsNoTag DEF n
    <3>2. CASE Skips(html, i, i + 1)
      <4>1. ReachesAt(html, i + 1, s, t, column, items)
        BY <1>4, <2>1, <3>1, <3>2, Zenon DEF Skips, ReachesAt, n
      <4>2. i + 1 \in P
        BY <2>1, <4>1 DEF P
      <4> QED BY <1>3, <2>1, <4>2
    <3>3. CASE ReadsChar(html, i, i + 1)
      <4>1. ReachChar(html, s, t, column, items)
        BY <1>4, <2>1, <3>1, <3>3, CharReached DEF n
      <4> QED BY <4>1
    <3> QED BY <3>1, <3>2, <3>3
  <2> QED BY <2>2, <2>3
<1> QED BY <1>6, <1>7

(* Reaching comes to numbers and what can be read. *)
LEMMA ReachType ==
  ASSUME NEW html \in Seq(Piece), NEW s, NEW t, NEW column, NEW items,
         Reach(html, s, t, column, items)
  PROVE  s \in Nat /\ t \in Nat /\ column \in Nat /\ items \in Seq(Seen)
<1> DEFINE x == Extraction(html)
           r == Reading(html)
<1>1. x \in [0 .. Len(html) -> Extract] /\ r \in [0 .. Len(html) -> ReadState]
  BY ExtractionIs, ReadingIs
<1>2. PICK i : ReachesAt(html, i, s, t, column, items)
  BY Zenon DEF Reach
<1>3. /\ i \in 0 .. Len(html) /\ Len(x[i].source) = s /\ Len(x[i].tags) = t
      /\ r[i].column = column /\ r[i].items = items
  BY <1>2, Zenon DEF ReachesAt
<1> HIDE DEF x, r
<1>4. x[i] \in Extract /\ r[i] \in ReadState
  BY <1>1, <1>3
<1>5. Len(x[i].source) \in Nat /\ Len(x[i].tags) \in Nat
  BY <1>4, ExtractType
<1>6. r[i].column \in Nat /\ r[i].items \in Seq(Seen)
  BY <1>4 DEF ReadState
<1> QED BY <1>3, <1>5, <1>6

-----------------------------------------------------------------------------
(* What is read in an item of the new html: marks are not read, html that  *)
(* is copied is read as it is, and a character or the end of a line as a   *)
(* character.                                                              *)
CharItem(c) == Character(IF c = "nbsp" THEN " " ELSE c)

(* Characters are what can be read. *)
LEMMA CharsAreSeen ==
  ASSUME NEW c \in Char \cup {"nbsp"}
  PROVE  CharItem(c) \in Seen /\ Character("\n") \in Seen /\ (c # "nbsp" => Character(c) \in Seen)
<1>1. " " \in Char /\ "\n" \in Char
  BY DEF Char, White
<1>2. \A x \in Char : Character(x) \in Seen
  BY DEF Character, Seen
<1>3. (IF c = "nbsp" THEN " " ELSE c) \in Char
  <2>1. c # "nbsp" => c \in Char
    OBVIOUS
  <2> QED BY <1>1, <2>1, Zenon
<1> QED BY <1>1, <1>2, <1>3, Zenon DEF CharItem

(* Nothing is read in a mark. *)
LEMMA MarkRead == ASSUME NEW x \in Mark PROVE ReadItem(x) = <<>>
<1>1. x.k \in {"span", "/span"}
  BY DEF Mark
<1>2. x.k \notin {"break", "item"} /\ x.k # "char"
  BY <1>1
<1> QED BY <1>1, <1>2 DEF ReadItem

(* A piece of html is read as it is. *)
LEMMA PieceRead == ASSUME NEW x \in Piece PROVE ReadItem(x) = <<x>> /\ x \in Seen
<1>1. x.k \in {"text", "cdata", "entity", "br", "comment", "tag"}
  BY DEF Piece
<1>2. x.k \notin {"span", "/span"} /\ x.k \notin {"break", "item"} /\ x.k # "char"
  BY <1>1
<1>3. ReadItem(x) = <<x>>
  BY <1>2 DEF ReadItem
<1> QED BY <1>3 DEF Seen

(* A character is read as one, and the end of a line as one. *)
LEMMA ShownRead ==
  ASSUME NEW x \in Shows
  PROVE  /\ x.k = "char" => ReadItem(x) = <<CharItem(x.c)>>
         /\ x.k \in {"break", "item"} => ReadItem(x) = <<Character("\n")>>
         /\ x.c \in Char \cup {"nbsp"}
<1>1. x.c \in Char \cup {"nbsp"}
  BY DEF Shows
<1>2. CASE x.k = "char"
  <2>1. x.k \notin {"span", "/span"} /\ x.k \notin {"break", "item"}
    BY <1>2
  <2>2. ReadItem(x) = <<CharItem(x.c)>>
    BY <1>2, <2>1 DEF ReadItem, CharItem
  <2> QED BY <1>1, <2>1, <2>2, Zenon
<1>3. CASE x.k \in {"break", "item"}
  <2>1. x.k \notin {"span", "/span"} /\ x.k # "char"
    BY <1>3
  <2>2. ReadItem(x) = <<Character("\n")>>
    BY <1>3, <2>1 DEF ReadItem
  <2> QED BY <1>1, <2>1, <2>2, Zenon
<1>4. x.k \in {"char", "break", "item"}
  BY DEF Shows
<1> QED BY <1>1, <1>2, <1>3, <1>4

(* What is read in an item *)
LEMMA ReadItemType == ASSUME NEW x \in Item PROVE ReadItem(x) \in Seq(Seen)
<1>1. <<>> \in Seq(Seen) /\ \A y \in Seen : <<y>> \in Seq(Seen)
  OBVIOUS
<1>2. CASE x \in Piece
  BY <1>1, <1>2, PieceRead, Zenon
<1>3. CASE x \in Mark
  BY <1>1, <1>3, MarkRead, Zenon
<1>4. CASE x \in Shows
  <2>1. x.c \in Char \cup {"nbsp"} /\ x.k \in {"char", "break", "item"}
    BY <1>4 DEF Shows
  <2>2. CharItem(x.c) \in Seen /\ Character("\n") \in Seen
    BY <2>1, CharsAreSeen
  <2>3. /\ x.k = "char" => ReadItem(x) = <<CharItem(x.c)>>
        /\ x.k \in {"break", "item"} => ReadItem(x) = <<Character("\n")>>
    BY <1>4, ShownRead
  <2>4. x.k = "char" \/ x.k \in {"break", "item"}
    BY <2>1
  <2> QED BY <1>1, <2>2, <2>3, <2>4, Zenon
<1> QED BY <1>2, <1>3, <1>4 DEF Item

-----------------------------------------------------------------------------
(* Reading the new html goes on with what is read in each item. *)
ReadSteps == {e \in Seq(Seen) \X Item \X Seq(Seen) : e[3] = e[1] \o ReadItem(e[2])}

(* A step of reading appends what is read in an item. *)
LEMMA ReadStepIs ==
  ASSUME NEW a, NEW x, NEW b
  PROVE  <<a, x, b>> \in ReadSteps <=>
           a \in Seq(Seen) /\ x \in Item /\ b \in Seq(Seen) /\ b = a \o ReadItem(x)
<1> DEFINE e == <<a, x, b>>
<1>1. e[1] = a /\ e[2] = x /\ e[3] = b
  OBVIOUS
<1>2. e \in Seq(Seen) \X Item \X Seq(Seen) <=> a \in Seq(Seen) /\ x \in Item /\ b \in Seq(Seen)
  OBVIOUS
<1> HIDE DEF e
<1>3. e \in ReadSteps <=> a \in Seq(Seen) /\ x \in Item /\ b \in Seq(Seen) /\ b = a \o ReadItem(x)
  BY <1>1, <1>2, Zenon DEF ReadSteps
<1> QED BY <1>3 DEF e

(* An item that reads as one thing appends that. *)
LEMMA ReadMore ==
  ASSUME NEW a \in Seq(Seen), NEW x \in Item, NEW y, ReadItem(x) = <<y>>
  PROVE  <<a, x, Append(a, y)>> \in ReadSteps
<1>1. <<y>> \in Seq(Seen)
  BY ReadItemType
<1>2. y \in Seen
  BY <1>1
<1>3. Append(a, y) \in Seq(Seen) /\ Append(a, y) = a \o <<y>>
  BY <1>2, AppendProperties, AppendIsConcat
<1> QED BY <1>3, ReadStepIs, Zenon

(* Nothing is read in marks. *)
LEMMA MarksRead ==
  ASSUME NEW s \in Seq(Mark), NEW a \in Seq(Seen) PROVE Walks(ReadSteps, s, a, a)
<1>1. \A x \in Mark : <<a, x, a>> \in ReadSteps
  <2> TAKE x \in Mark
  <2>1. x \in Item /\ a = a \o ReadItem(x)
    BY MarkRead, ConcatEmptySeq DEF Item
  <2> QED BY <2>1, ReadStepIs, Zenon
<1> QED BY <1>1, WalkStays

(* Items that read as one thing each are read as the sequence of these. *)
LEMMA OneByOne ==
  ASSUME NEW s \in Seq(Item), NEW r \in Seq(Seen), NEW a \in Seq(Seen), Len(r) = Len(s),
         \A i \in 1 .. Len(s) : ReadItem(s[i]) = <<r[i]>>
  PROVE  Walks(ReadSteps, s, a, a \o r)
<1> DEFINE n == Len(s)
           f == [i \in 0 .. n |-> a \o SubSeq(r, 1, i)]
<1>1. n \in Nat /\ \A i \in 1 .. n : s[i] \in Item
  BY LenProperties, ElementOfSeq
<1>2. \A i \in 0 .. n : a \o SubSeq(r, 1, i) \in Seq(Seen)
  <2> TAKE i \in 0 .. n
  <2>1. \A j \in 1 .. i : r[j] \in Seen
    BY <1>1
  <2>2. SubSeq(r, 1, i) \in Seq(Seen)
    BY <2>1, SubSeqProperties
  <2> QED BY <2>2, ConcatProperties
<1>3. a \o SubSeq(r, 1, 0) = a /\ a \o SubSeq(r, 1, n) = a \o r
  <2>1. SubSeq(r, 1, 0) = <<>> /\ SubSeq(r, 1, n) = r
    BY <1>1, SubSeqEmpty, SubSeqFull
  <2> QED BY <2>1, ConcatEmptySeq
<1>4. \A i \in 0 .. n : f[i] = a \o SubSeq(r, 1, i)
  OBVIOUS
<1> HIDE DEF f, n
<1>5. f[0] = a /\ f[n] = a \o r
  <2>1. 0 \in 0 .. n /\ n \in 0 .. n
    BY <1>1
  <2> QED BY <1>3, <1>4, <2>1
<1>6. ASSUME NEW i \in 1 .. n
      PROVE  <<f[i - 1], s[i], f[i]>> \in ReadSteps
  <2> DEFINE k == i - 1
  <2>1. k \in 0 .. n /\ k + 1 = i /\ k \in 0 .. Len(r) - 1 /\ i \in 0 .. n /\ 0 + 1 = 1
        /\ 0 \in Nat
    BY <1>1 DEF n
  <2> HIDE DEF k
  <2>2. Append(a \o SubSeq(r, 1, k), r[i]) = a \o SubSeq(r, 1, i)
    <3>1. Grows(a, r, 0, k)
      BY <2>1, SubSeqGrows
    <3> QED BY <2>1, <3>1, Zenon DEF Grows
  <2>3. f[i] = Append(f[k], r[i]) /\ f[k] \in Seq(Seen)
    BY <1>2, <1>4, <2>1, <2>2, Zenon
  <2>4. ReadItem(s[i]) = <<r[i]>> /\ s[i] \in Item
    BY <1>1 DEF n
  <2>5. <<f[k], s[i], f[i]>> \in ReadSteps
    BY <2>3, <2>4, ReadMore, Zenon
  <2> QED BY <2>5 DEF k
<1> QED BY <1>5, <1>6, Zenon DEF Walks, n

(* Html that is copied *)
LEMMA PiecesRead ==
  ASSUME NEW s \in Seq(Piece), NEW a \in Seq(Seen)
  PROVE  Walks(ReadSteps, s, a, a \o s)
<1>1. Piece \subseteq Item /\ Piece \subseteq Seen
  BY DEF Item, Seen
<1>2. s \in Seq(Item) /\ s \in Seq(Seen)
  BY <1>1, SeqMonotonic
<1>3. \A i \in 1 .. Len(s) : ReadItem(s[i]) = <<s[i]>>
  BY PieceRead, ElementOfSeq
<1> QED BY <1>2, <1>3, OneByOne

(* Items that read alike *)
LEMMA AlikeRead ==
  ASSUME NEW s \in Seq(Item), NEW t \in Seq(Item), Len(t) = Len(s),
         \A i \in 1 .. Len(s) : ReadItem(t[i]) = ReadItem(s[i]),
         NEW a, NEW b, Walks(ReadSteps, s, a, b)
  PROVE  Walks(ReadSteps, t, a, b)
<1>1. PICK f : /\ f[0] = a /\ f[Len(s)] = b
               /\ \A i \in 1 .. Len(s) : <<f[i - 1], s[i], f[i]>> \in ReadSteps
  BY DEF Walks
<1>2. \A i \in 1 .. Len(s) : t[i] \in Item
  BY ElementOfSeq
<1>3. ASSUME NEW i \in 1 .. Len(s)
      PROVE  <<f[i - 1], t[i], f[i]>> \in ReadSteps
  <2> DEFINE p == f[i - 1]
             q == f[i]
             x == s[i]
             y == t[i]
  <2>1. <<p, x, q>> \in ReadSteps /\ ReadItem(y) = ReadItem(x) /\ y \in Item
    BY <1>1, <1>2
  <2> HIDE DEF p, q, x, y
  <2>2. <<p, y, q>> \in ReadSteps
    <3>1. p \in Seq(Seen) /\ q \in Seq(Seen) /\ q = p \o ReadItem(x)
      BY <2>1, ReadStepIs, Zenon
    <3> QED BY <2>1, <3>1, ReadStepIs, Zenon
  <2> QED BY <2>2 DEF p, q, y
<1>4. f[Len(t)] = b /\ \A i \in 1 .. Len(t) : <<f[i - 1], t[i], f[i]>> \in ReadSteps
  BY <1>1, <1>3
<1> QED BY <1>1, <1>4, Zenon DEF Walks

(* lineBreaker changes nothing in what is read. *)
LEMMA BreaksRead ==
  ASSUME NEW from \in Nat, NEW to \in Nat, NEW x \in ShownChar(from, to),
         NEW style \in Spans, NEW p, NEW q, <<p, x, q>> \in ReadSteps
  PROVE  Walks(ReadSteps, BreakChar(x, style), p, q)
<1> DEFINE item == [x EXCEPT !.k = "item"]
           break == [x EXCEPT !.k = "break"]
<1>1. item \in Item /\ break \in Item /\ x \in Item /\ x \in Shows /\ x.k = "char"
  BY ShownCharIs
<1>2. item \in Shows /\ break \in Shows /\ item.k = "item" /\ break.k = "break"
  BY <1>1 DEF Shows
<1> HIDE DEF item, break
<1>3. BreakChar(x, style) = IF x.c = "\n"
                            THEN IF listing.lineNums THEN Close \o <<item>> \o Open(style)
                                 ELSE <<break>>
                            ELSE <<x>>
  BY DEF BreakChar, LineBreak, item, break
<1>4. Walks(ReadSteps, <<x>>, p, q)
  BY WalkOne
<1>5. p \in Seq(Seen) /\ q \in Seq(Seen) /\ q = p \o ReadItem(x)
  BY ReadStepIs, Zenon
<1>6. CASE x.c = "\n"
  <2>1. ReadItem(x) = <<Character("\n")>>
    <3>1. ReadItem(x) = <<CharItem(x.c)>>
      BY <1>1, ShownRead
    <3>2. CharItem(x.c) = Character("\n")
      <4>1. x.c # "nbsp"
        BY <1>6
      <4> QED BY <1>6, <4>1, Zenon DEF CharItem
    <3> QED BY <3>1, <3>2, Zenon
  <2>2. ReadItem(item) = ReadItem(x) /\ ReadItem(break) = ReadItem(x)
    BY <1>2, <2>1, ShownRead
  <2>3. Walks(ReadSteps, <<break>>, p, q)
    <3>1. <<p, break, q>> \in ReadSteps
      BY <1>1, <1>5, <2>2, ReadStepIs, Zenon
    <3> QED BY <3>1, WalkOne
  <2>4. Walks(ReadSteps, Close \o <<item>> \o Open(style), p, q)
    <3> DEFINE one == <<item>>
    <3>1. one \in Seq(Item) /\ Close \in Seq(Item) /\ Open(style) \in Seq(Item)
      BY <1>1, OneItem, MarksAre
    <3>2. Walks(ReadSteps, one, p, q)
      <4>1. <<p, item, q>> \in ReadSteps
        BY <1>1, <1>5, <2>2, ReadStepIs, Zenon
      <4> QED BY <4>1, WalkOne
    <3> HIDE DEF one
    <3>3. Walks(ReadSteps, Close, p, p) /\ Walks(ReadSteps, Open(style), q, q)
      <4>1. Close \in Seq(Mark) /\ Open(style) \in Seq(Mark)
        BY DEF Close, Open, Mark
      <4> QED BY <1>5, <4>1, MarksRead
    <3>4. Walks(ReadSteps, Close \o one \o Open(style), p, q)
      BY <3>1, <3>2, <3>3, WalkThree, Zenon
    <3> QED BY <3>4 DEF one
  <2> QED BY <1>3, <1>6, <2>3, <2>4, Zenon
<1>7. CASE x.c # "\n"
  BY <1>3, <1>4, <1>7, Zenon
<1> QED BY <1>6, <1>7

(* A change of the span changes nothing in what is read. *)
LEMMA SwitchRead ==
  ASSUME w \in Joining, NEW a \in Seq(Seen) PROVE Walks(ReadSteps, Switch, a, a)
<1>1. w.current \in Spans
  BY JoiningIs
<1>2. Open(w.current) \in Seq(Mark) /\ Close \in Seq(Mark) /\ <<>> \in Seq(Mark)
  BY <1>1 DEF Open, Close, Mark
<1> DEFINE close == IF w.open = "none" THEN <<>> ELSE Close
<1>3. close \in Seq(Mark)
  BY <1>2
<1> HIDE DEF close
<1>4. close \o Open(w.current) \in Seq(Mark)
  BY <1>2, <1>3, ConcatProperties
<1>5. Switch \in Seq(Mark)
  BY <1>2, <1>4, Zenon DEF Switch, close
<1> QED BY <1>5, MarksRead

-----------------------------------------------------------------------------
(* The text that comes after items, up to place k of it, reads as html     *)
(* does, up to its t-th tag.                                               *)
ReadsTo(html, k, t, so, items) ==
  \E b \in Seq(Seen) : /\ Reach(html, k, t, so.charInLine, b)
                       /\ Walks(ReadSteps, so.chars, items, b)

(* makeTabExpander turns a character into what is read in it. *)
LEMMA CharExpands ==
  ASSUME source \in Seq(Char), NEW so, so.charInLine \in Nat, NEW at \in 1 .. Len(source),
         NEW a \in Seq(Seen)
  PROVE  Walks(ReadSteps, ExpandedChars(so, at), a,
               a \o ReadChars(source[at], so.charInLine))
<1> DEFINE c == source[at]
           column == so.charInLine
           n == Width(c, column)
           d == IF c = "\t" THEN " " ELSE c
           x == TextToHtml(d, at - 1)
           y == Character(d)
           s == [i \in 1 .. n |-> x]
           r == [i \in 1 .. n |-> y]
<1>1. c \in Char /\ column \in Nat
  BY ElementOfSeq
<1>2. n \in Nat
  BY <1>1, WidthIs
<1>3. ExpandedChars(so, at) = s /\ ReadChars(c, column) = r
  BY DEF ExpandedChars, ReadChars, Width
<1>4. d \in Char
  <2>1. " " \in Char
    BY DEF Char, White
  <2> QED BY <1>1, <2>1
<1>5. at - 1 \in Nat
  OBVIOUS
<1> HIDE DEF d, c, column, n
<1>6. x \in Shows /\ x.k = "char" /\ x.c = d /\ y \in Seen
  BY <1>4, <1>5 DEF TextToHtml, Shows, Character, Seen
<1>7. ReadItem(x) = <<y>>
  <2>1. ReadItem(x) = <<CharItem(d)>>
    BY <1>6, ShownRead
  <2>2. d # "nbsp"
    BY <1>4 DEF Char, White, Quote, Word, Letter
  <2> QED BY <2>1, <2>2, Zenon DEF CharItem
<1>8. x \in Item
  BY <1>6 DEF Item
<1> HIDE DEF x, y
<1>9. /\ s \in Seq(Item) /\ r \in Seq(Seen) /\ Len(r) = Len(s)
      /\ \A i \in 1 .. Len(s) : s[i] = x /\ r[i] = y
  BY <1>2, <1>6, <1>8
<1> HIDE DEF s, r
<1>10. \A i \in 1 .. Len(s) : ReadItem(s[i]) = <<r[i]>>
  BY <1>7, <1>9, Zenon
<1>11. Walks(ReadSteps, s, a, a \o r)
  BY <1>9, <1>10, OneByOne
<1> QED BY <1>3, <1>11, Zenon DEF c, column

(* makeTabExpander counts columns as the reading does. *)
LEMMA ExpandLine ==
  ASSUME NEW so, NEW at
  PROVE  ExpandChar(so, at).charInLine = NextColumn(source[at], so.charInLine)
BY DEF ExpandChar, NextColumn, Width

(* A character is expanded behind what came before it. *)
ExpandsBehind(so, at) == ExpandChar(so, at).chars = so.chars \o ExpandedChars(so, at)

(* makeTabExpander appends a character's expansion. *)
LEMMA ExpandBehind ==
  ASSUME source \in Seq(Char), NEW from \in Nat, NEW to \in Nat, NEW at \in 1 .. Len(source),
         from < at, at <= to, NEW so \in Expansion(from, to)
  PROVE  ExpandsBehind(so, at)
BY ExpandCharIs DEF ExpandsBehind

(* makeTabExpander's text, up to a place that no tag comes before, reads   *)
(* as the html does up to there.                                           *)
LEMMA ExpandRead ==
  ASSUME source \in Seq(Char), NEW html \in Seq(Piece), source = ExtractTags(html).source,
         tags = ExtractTags(html).tags, NEW from \in Nat, NEW to \in from .. Len(source),
         NEW t \in Nat, t < Len(tags) => tags[t + 1].at \in Nat /\ to <= tags[t + 1].at,
         NEW column \in Nat, NEW items \in Seq(Seen), Reach(html, from, t, column, items)
  PROVE  ReadsTo(html, to, t, Expanded(from, to, column), items)
<1>1. PICK f \in [from .. to -> Expansion(from, to)] :
        /\ Expanded(from, to, column) = f[to]
        /\ f[from] = [chars |-> <<>>, charInLine |-> column]
        /\ \A at \in from + 1 .. to : f[at] = ExpandChar(f[at - 1], at)
  BY ExpandedIs DEF ExpandsTo
<1> DEFINE P == {k \in from .. to : ReadsTo(html, k, t, f[k], items)}
<1>2. /\ from \in from .. to /\ to \in from .. to /\ to \in Nat /\ from \in Int /\ to \in Int
      /\ Len(source) \in Nat
  BY LenProperties
<1>3. from \in P
  <2>1. f[from].chars = <<>> /\ f[from].charInLine = column
    BY <1>1
  <2>2. Walks(ReadSteps, <<>>, items, items)
    BY WalkEmpty, Zenon
  <2> QED BY <1>2, <2>1, <2>2, Zenon DEF ReadsTo
<1>4. ASSUME NEW k \in from .. to - 1, k \in P
      PROVE  k + 1 \in P
  <2> DEFINE j == k + 1
             so == f[k]
             col == so.charInLine
             c == source[j]
  <2>1. /\ j \in from + 1 .. to /\ j - 1 = k /\ k \in from .. to /\ j \in 1 .. Len(source)
        /\ j \in from .. to /\ k < Len(source) /\ k < to /\ from < j /\ j <= to /\ k \in Nat
    <3> DEFINE n == Len(source)
    <3>1. n \in Nat /\ to \in from .. n /\ from \in Nat /\ k \in from .. to - 1
      BY <1>2
    <3> HIDE DEF n
    <3>2. /\ j \in from + 1 .. to /\ j - 1 = k /\ k \in from .. to /\ j \in from .. to /\ k < to
      BY <3>1
    <3>3. j \in 1 .. n /\ k < n /\ from < j /\ j <= to /\ k \in Nat
      BY <3>1
    <3> QED BY <3>2, <3>3, Zenon DEF n
  <2>2. f[j] = ExpandChar(so, j) /\ so \in Expansion(from, to) /\ f[j] \in Expansion(from, to)
    BY <1>1, <2>1
  <2>3. PICK b \in Seq(Seen) : Reach(html, k, t, col, b) /\ Walks(ReadSteps, so.chars, items, b)
    BY <1>4 DEF ReadsTo
  <2> HIDE DEF P
  <2>4. col \in Nat /\ so.chars \in Seq(TextChar(from, to))
    BY <2>2 DEF Expansion
  <2>5. ReachChar(html, k, t, col, b)
    <3>1. ~ReachEnd(html, k, t, b)
      BY <2>1 DEF ReachEnd
    <3>2. ~ReachTag(html, k, t, col, b)
      <4>1. SUFFICES ASSUME t < Len(tags), tags[t + 1].at = k PROVE FALSE
        BY Zenon DEF ReachTag
      <4> QED BY <1>2, <2>1, <4>1
    <3> HIDE DEF col, j
    <3> QED BY <2>3, <3>1, <3>2, ReachCases
  <2>6. Reach(html, j, t, NextColumn(c, col), b \o ReadChars(c, col))
    BY <2>5, Zenon DEF ReachChar
  <2>7. Walks(ReadSteps, ExpandedChars(so, j), b, b \o ReadChars(c, col))
    BY <2>1, <2>4, CharExpands
  <2>8. f[j].chars = so.chars \o ExpandedChars(so, j)
    <3>1. ExpandChar(so, j).chars = so.chars \o ExpandedChars(so, j)
      <4>1. /\ j \in 1 .. Len(source) /\ from < j /\ j <= to /\ to \in Nat
            /\ so \in Expansion(from, to)
        BY <1>2, <2>1, <2>2, Zenon
      <4> HIDE DEF so, j
      <4>2. ExpandsBehind(so, j)
        BY <4>1, ExpandBehind
      <4> QED BY <4>2, Zenon DEF ExpandsBehind
    <3> QED BY <2>2, <3>1, Zenon
  <2>9. f[j].charInLine = NextColumn(c, col)
    BY <2>2, ExpandLine, Zenon
  <2>10. ExpandedChars(so, j) \in Seq(TextChar(from, to))
    BY <1>2, <2>1, <2>4, ExpandedCharsAre
  <2> DEFINE old == so.chars
             more == ExpandedChars(so, j)
             all == b \o ReadChars(c, col)
  <2>11. all \in Seq(Seen)
    <3>1. c \in Char
      BY <2>1, ElementOfSeq
    <3>2. ReadChars(c, col) \in Seq(Seen)
      BY <2>4, <3>1, ReadCharsAre
    <3> QED BY <3>2, ConcatProperties
  <2>12. Walks(ReadSteps, old \o more, items, all)
    <3> HIDE DEF old, more, all, so
    <3>1. /\ old \in Seq(TextChar(from, to)) /\ more \in Seq(TextChar(from, to))
          /\ Walks(ReadSteps, old, items, b) /\ Walks(ReadSteps, more, b, all)
      BY <2>3, <2>4, <2>7, <2>10, Zenon DEF old, more, all
    <3> QED BY <3>1, WalkConcat
  <2>13. ReadsTo(html, j, t, f[j], items)
    <3>1. Reach(html, j, t, f[j].charInLine, all)
      BY <2>6, <2>9, Zenon
    <3>2. Walks(ReadSteps, f[j].chars, items, all)
      BY <2>8, <2>12, Zenon
    <3> QED BY <2>11, <3>1, <3>2, Zenon DEF ReadsTo
  <2> QED BY <2>1, <2>13 DEF P
<1> HIDE DEF P
<1>5. from .. to \subseteq P
  BY <1>2, <1>3, <1>4, Upwards
<1>6. to \in P
  BY <1>2, <1>5
<1> QED BY <1>1, <1>6 DEF P

(* A space that becomes &#160; still reads as a space. *)
LEMMA SpaceRead ==
  ASSUME NEW from \in Nat, NEW to \in Nat, NEW x \in TextChar(from, to), NEW before \in BOOLEAN
  PROVE  ReadItem(SpaceChar(before, x)) = ReadItem(x)
<1> DEFINE y == SpaceChar(before, x)
<1>1. x \in ShownChar(from, to)
  BY DEF TextChar, ShownChar
<1>2. y \in ShownChar(from, to)
  BY SpaceCharIs
<1>3. y.c = (IF x.c = " " /\ before THEN "nbsp" ELSE x.c)
  BY SpaceCharIs
<1> HIDE DEF y
<1>4. x \in Shows /\ x.k = "char" /\ y \in Shows /\ y.k = "char"
  BY <1>1, <1>2, ShownCharIs
<1>5. ReadItem(x) = <<CharItem(x.c)>> /\ ReadItem(y) = <<CharItem(y.c)>>
  BY <1>4, ShownRead
<1>6. CASE x.c = " " /\ before
  <2>1. y.c = "nbsp" /\ " " # "nbsp"
    BY <1>3, <1>6
  <2>2. CharItem("nbsp") = CharItem(" ")
    BY <2>1, Zenon DEF CharItem
  <2> QED BY <1>5, <1>6, <2>1, <2>2, Zenon DEF y
<1>7. CASE ~(x.c = " " /\ before)
  <2>1. y.c = x.c
    BY <1>3, <1>7, Zenon
  <2> QED BY <1>5, <2>1, Zenon DEF y
<1> QED BY <1>6, <1>7

(* So what has been spaced reads as it did before. *)
LEMMA SpacedRead ==
  ASSUME NEW from \in Nat, NEW to \in Nat, NEW chars \in Seq(TextChar(from, to)),
         chars # <<>>, NEW last \in BOOLEAN, NEW a, NEW b, Walks(ReadSteps, chars, a, b)
  PROVE  Walks(ReadSteps, Spaced(chars, last), a, b)
<1> DEFINE f == Spaced(chars, last)
<1>1. /\ f \in Seq(ShownChar(from, to)) /\ Len(f) = Len(chars)
      /\ \A i \in 1 .. Len(chars) : f[i] = SpaceChar(SpaceBefore(f, last, i), chars[i])
  BY SpacedIs
<1>2. TextChar(from, to) \subseteq ShownChar(from, to) /\ ShownChar(from, to) \subseteq Item
  BY ShownCharIs DEF TextChar, ShownChar
<1>3. f \in Seq(Item) /\ chars \in Seq(Item)
  BY <1>1, <1>2, SeqMonotonic
<1> HIDE DEF f
<1>4. ASSUME NEW i \in 1 .. Len(chars)
      PROVE  ReadItem(f[i]) = ReadItem(chars[i])
  <2> DEFINE before == SpaceBefore(f, last, i)
             x == chars[i]
             y == f[i]
  <2>1. before \in BOOLEAN /\ x \in TextChar(from, to) /\ y = SpaceChar(before, x)
    BY <1>1, SpaceBeforeIs, ElementOfSeq
  <2> HIDE DEF before, x, y
  <2>2. ReadItem(SpaceChar(before, x)) = ReadItem(x)
    BY <2>1, SpaceRead
  <2> QED BY <2>1, <2>2, Zenon DEF x, y
<1>5. Walks(ReadSteps, f, a, b)
  BY <1>1, <1>3, <1>4, AlikeRead
<1> QED BY <1>5, Zenon DEF f

-----------------------------------------------------------------------------
(* The new html so far reads as the html does up to the place and the tag  *)
(* that it has come to.                                                    *)
JoinReads(html, x) ==
  \E b \in Seq(Seen) : /\ Reach(html, x.outputIdx, x.tagPos - 1, x.charInLine, b)
                       /\ Walks(ReadSteps, x.html, <<>>, b)

(* new is what has been emitted up to place to, and reads as the html      *)
(* does.                                                                   *)
EmitsReadably(html, new, to) ==
  /\ new \in Joining /\ new.tagPos = w.tagPos /\ new.outputIdx = to
  /\ JoinReads(html, new)

(* emitTextUpTo goes on with what is to be read next. *)
LEMMA EmitReads ==
  ASSUME LexInv, stage = "joining", JoinPlaced, NEW html \in Seq(Piece),
         source = ExtractTags(html).source, tags = ExtractTags(html).tags,
         JoinReads(html, w), NEW to \in Nat, w.outputIdx <= to, to <= Len(source),
         w.tagPos <= Len(tags) => to <= tags[w.tagPos].at
  PROVE  EmitsReadably(html, EmitTextUpTo(to), to)
<1> DEFINE new == EmitTextUpTo(to)
           from == w.outputIdx
           t == w.tagPos - 1
           column == w.charInLine
           style == w.current
           last == w.lastWasSpace
<1>1. /\ source \in Seq(Char) /\ w \in Joining /\ from \in Nat /\ column \in Nat
      /\ style \in Spans /\ w.tagPos \in Nat /\ w.tagPos >= 1 /\ tags \in Seq(TagEntry)
      /\ Len(source) \in Nat /\ Len(tags) \in Nat /\ last \in BOOLEAN /\ w.html \in Seq(Item)
  BY JoiningIs, LenProperties DEF LexInv, LexTypes, JoinPlaced
<1>2. Emits(new, to)
  BY <1>1, EmitIs, Zenon
<1>3. PICK b \in Seq(Seen) : Reach(html, from, t, column, b) /\ Walks(ReadSteps, w.html, <<>>, b)
  BY DEF JoinReads
<1>4. CASE to <= from
  <2>1. new = w /\ from = to
    BY <1>1, <1>2, <1>4 DEF Emits
  <2>2. EmitsReadably(html, w, to)
    BY <1>1, <2>1, Zenon DEF EmitsReadably
  <2> QED BY <2>1, <2>2, Zenon
<1>5. CASE ~(to <= from)
  <2> DEFINE chunk == Chunk(to)
             text == chunk.chars
             chars == NextChars(to)
             broken == Broken(chars, style)
  <2>1. /\ new.html = w.html \o Switch \o broken /\ new.charInLine = chunk.charInLine
        /\ new \in Joining /\ new.tagPos = w.tagPos /\ new.outputIdx = to
    BY <1>2, <1>5, Zenon DEF Emits
  <2>2. from < to /\ to \in from .. Len(source)
    BY <1>1, <1>5
  <2>3. t \in Nat /\ (t < Len(tags) => tags[t + 1].at \in Nat /\ to <= tags[t + 1].at)
    <3>1. t \in Nat /\ t + 1 = w.tagPos /\ (t < Len(tags) => w.tagPos \in 1 .. Len(tags))
      BY <1>1
    <3>2. t < Len(tags) => tags[w.tagPos].at \in Nat
      BY <1>1, <3>1, EntryType
    <3>3. t < Len(tags) => w.tagPos <= Len(tags)
      BY <1>1
    <3> HIDE DEF t
    <3> QED BY <3>1, <3>2, <3>3, Zenon
  <2>4. ReadsTo(html, to, t, chunk, b)
    <3>1. chunk = Expanded(from, to, column)
      BY DEF Chunk
    <3> HIDE DEF chunk, from, t, column
    <3>2. ReadsTo(html, to, t, Expanded(from, to, column), b)
      BY <1>1, <1>3, <2>2, <2>3, ExpandRead
    <3> QED BY <3>1, <3>2, Zenon
  <2>5. PICK d \in Seq(Seen) : /\ Reach(html, to, t, chunk.charInLine, d)
                               /\ Walks(ReadSteps, text, b, d)
    BY <2>4, Zenon DEF ReadsTo
  <2>6. /\ text \in Seq(TextChar(from, to)) /\ text # <<>>
        /\ chars \in Seq(ShownChar(from, to)) /\ chars # <<>>
    BY <1>1, <2>2, NextCharsAre
  <2>7. chars = Spaced(text, last)
    BY DEF NextChars
  <2> HIDE DEF from, t, column, style, last, chunk, text, chars
  <2>8. Walks(ReadSteps, chars, b, d)
    BY <1>1, <2>5, <2>6, <2>7, SpacedRead
  <2>9. broken \in Seq(Item) /\ Walks(ReadSteps, broken, b, d)
    <3>1. \A p, q : \A x \in ShownChar(from, to) :
            <<p, x, q>> \in ReadSteps => Walks(ReadSteps, BreakChar(x, style), p, q)
      BY <1>1, BreaksRead
    <3> QED BY <1>1, <2>6, <2>8, <3>1, BrokenWalks
  <2>10. Switch \in Seq(Item) /\ Walks(ReadSteps, Switch, b, b)
    BY <1>1, SwitchIs, SwitchRead
  <2> DEFINE html0 == w.html
             part == Switch
  <2> HIDE DEF html0, part, broken
  <2>11. Walks(ReadSteps, html0 \o part \o broken, <<>>, d)
    <3>1. /\ html0 \in Seq(Item) /\ part \in Seq(Item) /\ broken \in Seq(Item)
          /\ Walks(ReadSteps, html0, <<>>, b) /\ Walks(ReadSteps, part, b, b)
          /\ Walks(ReadSteps, broken, b, d)
      BY <1>1, <1>3, <2>9, <2>10, Zenon DEF html0, part
    <3> QED BY <3>1, WalkThree, Zenon
  <2>12. Walks(ReadSteps, new.html, <<>>, d)
    BY <2>1, <2>11, Zenon DEF html0, part
  <2>13. Reach(html, new.outputIdx, new.tagPos - 1, new.charInLine, d)
    BY <2>1, <2>5, Zenon DEF t
  <2>14. JoinReads(html, new)
    BY <2>12, <2>13, Zenon DEF JoinReads
  <2> QED BY <2>1, <2>14, Zenon DEF EmitsReadably
<1> QED BY <1>4, <1>5

(* The end of an open span is not read. *)
LEMMA EndedRead ==
  ASSUME NEW x \in Joining, NEW b \in Seq(Seen), Walks(ReadSteps, x.html, <<>>, b)
  PROVE  Ended(x) \in Seq(Item) /\ Walks(ReadSteps, Ended(x), <<>>, b)
<1> DEFINE close == IF x.open = "none" THEN <<>> ELSE Close
<1>1. x.html \in Seq(Item)
  BY JoiningIs
<1>2. close \in Seq(Mark)
  <2>1. Close \in Seq(Mark) /\ <<>> \in Seq(Mark)
    BY DEF Close, Mark
  <2> QED BY <2>1
<1> HIDE DEF close
<1>3. close \in Seq(Item)
  <2>1. Mark \subseteq Item
    BY DEF Item
  <2> QED BY <1>2, <2>1, SeqMonotonic
<1>4. Walks(ReadSteps, close, b, b)
  BY <1>2, MarksRead
<1> DEFINE html == x.html
<1> HIDE DEF html
<1>5. html \in Seq(Item) /\ Walks(ReadSteps, html, <<>>, b)
  BY <1>1 DEF html
<1>6. html \o close \in Seq(Item) /\ Walks(ReadSteps, html \o close, <<>>, b)
  BY <1>3, <1>4, <1>5, WalkConcat, ConcatProperties
<1> QED BY <1>6, Zenon DEF Ended, close, html

-----------------------------------------------------------------------------
(* The inductive invariant: what is emitted reads as what it is made of.   *)
ReadInv ==
  /\ stage \in {"lexing", "joining", "done"} => listing.html \in Seq(Piece)
  /\ stage \in {"lexing", "joining"} => /\ source = ExtractTags(listing.html).source
                                        /\ tags = ExtractTags(listing.html).tags
  /\ stage = "joining" => JoinReads(listing.html, w)
  /\ stage = "done" => /\ w.html \in Seq(Item)
                       /\ Walks(ReadSteps, w.html, <<>>, Readable(listing.html))

(* recombineTagsAndDecorations begins with nothing read. *)
LEMMA JoinKeepsRead == ASSUME LexInv, ReadInv, Join PROVE ReadInv'
<1>1. /\ stage = "lexing" /\ stage' = "joining"
      /\ UNCHANGED <<listing, source, tags, frames, decorations, w>>
  BY DEF Join
<1>2. /\ w = Nothing /\ listing.html \in Seq(Piece)
      /\ source = ExtractTags(listing.html).source /\ tags = ExtractTags(listing.html).tags
  BY <1>1 DEF LexInv, ReadInv
<1>3. w.outputIdx = 0 /\ w.tagPos - 1 = 0 /\ w.charInLine = 0 /\ w.html = <<>>
  BY <1>2 DEF Nothing
<1>4. JoinReads(listing.html, w)
  <2>1. Reach(listing.html, 0, 0, 0, <<>>)
    BY <1>2, ReachStart
  <2>2. Walks(ReadSteps, <<>>, <<>>, <<>>)
    BY WalkEmpty, Zenon
  <2>3. <<>> \in Seq(Seen)
    OBVIOUS
  <2> QED BY <1>3, <2>1, <2>2, <2>3, Zenon DEF JoinReads
<1>5. JoinReads(listing.html, w)'
  BY <1>1, <1>4 DEF JoinReads
<1> QED BY <1>1, <1>2, <1>5 DEF ReadInv

(* A tag that is consumed is the one to be read next. *)
LEMMA ConsumeTagKeepsRead ==
  ASSUME LexInv, JoinInv, ReadInv, ConsumeTag PROVE ReadInv'
<1> DEFINE html == listing.html
           i == w.tagPos
           entry == tags[i]
           to == entry.at
           emitted == EmitTextUpTo(to)
<1>1. /\ stage = "joining" /\ OutputTag
      /\ w' = [emitted EXCEPT !.html = Ended(emitted) \o entry.html,
                              !.open = "none", !.tagPos = @ + 1]
      /\ UNCHANGED <<stage, listing, source, tags, frames, decorations>>
  <2>1. /\ stage = "joining" /\ OutputTag
        /\ w' = [emitted EXCEPT
                   !.html = @ \o (IF emitted.open = "none" THEN <<>> ELSE Close)
                              \o entry.html,
                   !.open = "none", !.tagPos = @ + 1]
        /\ UNCHANGED <<stage, listing, source, tags, frames, decorations>>
    BY DEF ConsumeTag
  <2> HIDE DEF emitted, entry
  <2> QED BY <2>1 DEF Ended
<1>2. /\ JoinPlaced /\ source \in Seq(Char) /\ tags \in Seq(TagEntry) /\ TagsPlaced(source, tags)
      /\ html \in Seq(Piece) /\ source = ExtractTags(html).source
      /\ tags = ExtractTags(html).tags /\ JoinReads(html, w)
  BY <1>1 DEF LexInv, LexTypes, JoinInv, ReadInv
<1>3. /\ w \in Joining /\ i \in 1 .. Len(tags) /\ w.outputIdx <= to /\ Len(tags) \in Nat
  <2>1. i \in 1 .. Len(tags) + 1 /\ i <= Len(tags) /\ Len(tags) \in Nat
    BY <1>1, <1>2, LenProperties DEF JoinPlaced, OutputTag
  <2> QED BY <1>2, <2>1 DEF JoinPlaced
<1>4. to \in Nat /\ to <= Len(source) /\ entry.html \in Seq(Piece)
  <2>1. i \in DOMAIN tags
    BY <1>2, <1>3, EntryType
  <2> QED BY <1>2, <2>1, EntryType DEF TagsPlaced
<1>5. i <= Len(tags) => to <= tags[i].at
  BY <1>4
<1> HIDE DEF to, html, emitted
<1>6. EmitsReadably(html, EmitTextUpTo(to), to)
  BY <1>1, <1>2, <1>3, <1>4, <1>5, EmitReads
<1>7. /\ emitted \in Joining /\ emitted.tagPos = i /\ emitted.outputIdx = to
      /\ JoinReads(html, emitted)
  BY <1>6, Zenon DEF EmitsReadably, emitted
<1>8. PICK b \in Seq(Seen) : /\ Reach(html, to, i - 1, emitted.charInLine, b)
                             /\ Walks(ReadSteps, emitted.html, <<>>, b)
  BY <1>7, Zenon DEF JoinReads
<1> DEFINE col == emitted.charInLine
           t == i - 1
           more == entry.html
           ended == Ended(emitted)
           all == ended \o more
           read == b \o more
<1>9. t \in Nat /\ t + 1 = i /\ t < Len(tags) /\ i \in Nat
  BY <1>3
<1>10. ReachTag(html, to, t, col, b)
  <2>1. ~ReachEnd(html, to, t, b)
    BY <1>2, <1>9 DEF ReachEnd
  <2>2. ~ReachChar(html, to, t, col, b)
    <3>1. SUFFICES ASSUME tags[i].at > to PROVE FALSE
      BY <1>2, <1>9, Zenon DEF ReachChar
    <3>2. tags[i].at = to
      BY DEF to
    <3> QED BY <1>4, <3>1, <3>2
  <2> HIDE DEF t, col
  <2>3. Reach(html, to, t, col, b)
    BY <1>8 DEF t, col
  <2> QED BY <1>2, <2>1, <2>2, <2>3, ReachCases
<1>11. Reach(html, to, i, col, read)
  BY <1>2, <1>9, <1>10, Zenon DEF ReachTag
<1>12. more \in Seq(Seen) /\ more \in Seq(Item)
  <2>1. Piece \subseteq Seen /\ Piece \subseteq Item
    BY DEF Seen, Item
  <2> QED BY <1>4, <2>1, SeqMonotonic
<1>13. ended \in Seq(Item) /\ Walks(ReadSteps, ended, <<>>, b)
  BY <1>7, <1>8, EndedRead
<1>14. Walks(ReadSteps, more, b, read)
  BY <1>4, PiecesRead
<1> HIDE DEF more, ended, read, t
<1>15. Walks(ReadSteps, all, <<>>, read) /\ all \in Seq(Item) /\ read \in Seq(Seen)
  <2>1. Walks(ReadSteps, ended \o more, <<>>, read)
    BY <1>12, <1>13, <1>14, WalkConcat
  <2>2. ended \o more \in Seq(Item) /\ b \o more \in Seq(Seen)
    BY <1>12, <1>13, ConcatProperties
  <2> QED BY <2>1, <2>2 DEF read
<1>16. /\ w'.html = all /\ w'.tagPos = i + 1 /\ w'.outputIdx = to /\ w'.charInLine = col
  <2> HIDE DEF all, entry, i
  <2>1. w' = [emitted EXCEPT !.html = all, !.open = "none", !.tagPos = @ + 1]
    BY <1>1 DEF all, ended, more, html
  <2>2. /\ w'.html = all /\ w'.tagPos = emitted.tagPos + 1
        /\ w'.outputIdx = emitted.outputIdx /\ w'.charInLine = emitted.charInLine
    BY <1>7, <2>1 DEF Joining
  <2> QED BY <1>7, <2>2, Zenon
<1> HIDE DEF all, col
<1>17. JoinReads(html, w)'
  <2>1. html' = html
    BY <1>1 DEF html
  <2>2. w'.tagPos - 1 = i
    BY <1>9, <1>16
  <2>3. \E d \in Seq(Seen) : /\ Reach(html, w'.outputIdx, w'.tagPos - 1, w'.charInLine, d)
                             /\ Walks(ReadSteps, w'.html, <<>>, d)
    BY <1>11, <1>15, <1>16, <2>2, Zenon
  <2> QED BY <2>1, <2>3 DEF JoinReads
<1> QED BY <1>1, <1>2, <1>17 DEF ReadInv, html

(* A decoration that is consumed changes nothing but the text before it. *)
LEMMA ConsumeDecorationKeepsRead ==
  ASSUME LexInv, JoinInv, ReadInv, ConsumeDecoration PROVE ReadInv'
<1> DEFINE html == listing.html
           entry == decorations[w.decPos]
           to == entry.at
           style == entry.style
           emitted == EmitTextUpTo(to)
<1>1. /\ stage = "joining" /\ ~OutputTag /\ w.decPos <= Len(decorations)
      /\ w' = [emitted EXCEPT !.current = style, !.decPos = @ + 1]
      /\ UNCHANGED <<stage, listing, source, tags, frames, decorations>>
  BY DEF ConsumeDecoration
<1>2. /\ JoinPlaced /\ source \in Seq(Char) /\ tags \in Seq(TagEntry)
      /\ decorations \in Seq(Decoration) /\ DecorationsPlaced(decorations, Len(source))
      /\ html \in Seq(Piece) /\ source = ExtractTags(html).source
      /\ tags = ExtractTags(html).tags /\ JoinReads(html, w)
  BY <1>1 DEF LexInv, LexTypes, JoinInv, ReadInv
<1>3. /\ Len(source) \in Nat /\ Len(tags) \in Nat /\ Len(decorations) \in Nat
      /\ DOMAIN decorations = 1 .. Len(decorations)
      /\ \A n \in 1 .. Len(tags) : tags[n].at \in Nat
      /\ \A n \in 1 .. Len(decorations) : decorations[n].at \in Nat
  BY <1>2, LenProperties, EntryType, DecorationsAre
<1>4. /\ w \in Joining /\ w.tagPos \in 1 .. Len(tags) + 1 /\ w.decPos \in 1 .. Len(decorations)
      /\ w.outputIdx <= to
  BY <1>1, <1>2, <1>3 DEF JoinPlaced
<1>5. /\ to \in Nat /\ to <= Len(source)
      /\ (w.tagPos <= Len(tags) => to <= tags[w.tagPos].at)
  <2>1. to \in Nat /\ to <= Len(source)
    BY <1>2, <1>3, <1>4 DEF DecorationsPlaced
  <2>2. w.tagPos <= Len(tags) => to <= tags[w.tagPos].at
    <3> SUFFICES ASSUME w.tagPos <= Len(tags) PROVE to <= tags[w.tagPos].at
      OBVIOUS
    <3>1. ~(tags[w.tagPos].at <= to)
      BY <1>1 DEF OutputTag
    <3>2. tags[w.tagPos].at \in Nat
      BY <1>3, <1>4
    <3> QED BY <2>1, <3>1, <3>2
  <2> QED BY <2>1, <2>2
<1> HIDE DEF to, html, emitted, style
<1>6. EmitsReadably(html, EmitTextUpTo(to), to)
  BY <1>1, <1>2, <1>4, <1>5, EmitReads
<1>7. emitted \in Joining /\ JoinReads(html, emitted)
  BY <1>6, Zenon DEF EmitsReadably, emitted
<1>8. /\ w'.html = emitted.html /\ w'.tagPos = emitted.tagPos
      /\ w'.outputIdx = emitted.outputIdx /\ w'.charInLine = emitted.charInLine
  BY <1>1, <1>7 DEF Joining
<1>9. JoinReads(html, w)'
  <2>1. html' = html
    BY <1>1 DEF html
  <2> QED BY <1>7, <1>8, <2>1 DEF JoinReads
<1> QED BY <1>1, <1>2, <1>9 DEF ReadInv, html

(* At the end all of the html has been read. *)
LEMMA FinishKeepsRead ==
  ASSUME LexInv, JoinInv, ReadInv, Finish PROVE ReadInv'
<1> DEFINE html == listing.html
           to == Len(source)
           emitted == EmitTextUpTo(to)
           ended == Ended(emitted)
<1>1. /\ stage = "joining" /\ w.tagPos > Len(tags)
      /\ w' = [emitted EXCEPT !.html = ended, !.open = "none"]
      /\ stage' = "done" /\ UNCHANGED <<listing, source, tags, frames, decorations>>
  <2>1. /\ stage = "joining" /\ w.tagPos > Len(tags)
        /\ w' = [emitted EXCEPT
                   !.html = @ \o (IF emitted.open = "none" THEN <<>> ELSE Close),
                   !.open = "none"]
        /\ stage' = "done" /\ UNCHANGED <<listing, source, tags, frames, decorations>>
    BY DEF Finish
  <2> HIDE DEF emitted
  <2> QED BY <2>1 DEF Ended
<1>2. /\ JoinPlaced /\ source \in Seq(Char) /\ tags \in Seq(TagEntry)
      /\ html \in Seq(Piece) /\ source = ExtractTags(html).source
      /\ tags = ExtractTags(html).tags /\ JoinReads(html, w)
  BY <1>1 DEF LexInv, LexTypes, JoinInv, ReadInv
<1>3. /\ to \in Nat /\ Len(tags) \in Nat /\ to <= Len(source) /\ w.outputIdx <= to
      /\ w.tagPos \in 1 .. Len(tags) + 1
  BY <1>2, LenProperties DEF JoinPlaced
<1>4. w.tagPos - 1 = Len(tags) /\ (w.tagPos <= Len(tags) => to <= tags[w.tagPos].at)
  BY <1>1, <1>3
<1>a. w.outputIdx <= to /\ to = Len(source)
  BY <1>3
<1> HIDE DEF to, html, emitted
<1>5. EmitsReadably(html, EmitTextUpTo(to), to)
  BY <1>1, <1>2, <1>3, <1>4, EmitReads
<1>6. /\ emitted \in Joining /\ emitted.tagPos = w.tagPos /\ emitted.outputIdx = to
      /\ JoinReads(html, emitted)
  BY <1>5, Zenon DEF EmitsReadably, emitted
<1> DEFINE col == emitted.charInLine
           t == Len(tags)
<1>7. PICK b \in Seq(Seen) : Reach(html, to, t, col, b) /\ Walks(ReadSteps, emitted.html, <<>>, b)
  BY <1>4, <1>6, Zenon DEF JoinReads
<1>8. ReachEnd(html, to, t, b)
  <2>1. ~ReachTag(html, to, t, col, b)
    BY <1>2, <1>3 DEF ReachTag
  <2>2. ~ReachChar(html, to, t, col, b)
    BY <1>2, <1>3, <1>a DEF ReachChar
  <2> HIDE DEF t, col
  <2> QED BY <1>2, <1>7, <2>1, <2>2, ReachCases
<1>9. b = Readable(html)
  BY <1>8, Zenon DEF ReachEnd
<1>10. ended \in Seq(Item) /\ Walks(ReadSteps, ended, <<>>, b)
  BY <1>6, <1>7, EndedRead
<1> HIDE DEF ended
<1>11. w'.html = ended
  BY <1>1, <1>6 DEF Joining
<1>12. html' = html
  BY <1>1 DEF html
<1>13. /\ stage' = "done" /\ w'.html \in Seq(Item)
       /\ Walks(ReadSteps, w'.html, <<>>, Readable(html)) /\ html \in Seq(Piece)
  BY <1>1, <1>2, <1>9, <1>10, <1>11, Zenon
<1> QED BY <1>12, <1>13 DEF ReadInv, html

-----------------------------------------------------------------------------
(* A set that has the empty sequence, and with a sequence all that are one *)
(* longer, has every sequence.                                             *)
LEMMA EverySequence ==
  ASSUME NEW S, NEW P, <<>> \in P,
         \A u \in Seq(S) \cap P, x \in S : Append(u, x) \in P
  PROVE  Seq(S) \subseteq P
<1> SUFFICES ASSUME NEW u \in Seq(S), u \notin P PROVE FALSE
  OBVIOUS
<1> DEFINE T == {Len(v) : v \in Seq(S) \ P}
<1>1. T \subseteq Nat /\ Len(u) \in T
  BY LenProperties
<1>2. PICK d \in T : \A e \in T : ~(e < d)
  <2> HIDE DEF T
  <2> QED BY <1>1, LeastNumber
<1>3. PICK v \in Seq(S) \ P : Len(v) = d
  OBVIOUS
<1>4. v # <<>>
  BY <1>3
<1>5. PICK f \in Seq(S), y \in S : v = Append(f, y)
  BY <1>3, <1>4, SequenceEmptyOrAppend
<1>6. Len(v) = Len(f) + 1 /\ Len(f) \in Nat
  BY <1>5, AppendProperties, LenProperties
<1>7. Len(f) \notin T
  <2>1. Len(f) < d /\ d \in Nat
    BY <1>1, <1>3, <1>6
  <2> HIDE DEF T
  <2> QED
    BY <1>2, <2>1
<1> QED
  BY <1>3, <1>5, <1>7

-----------------------------------------------------------------------------
(* FlattenSeq as it is defined, for a sequence that is not empty. *)
Flattens(f, s) == f = [i \in 1 .. Len(s) |-> IF i = 1 THEN s[i] ELSE f[i - 1] \o s[i]]

(* The function that FlattenSeq chooses exists. *)
LEMMA FlattenExists ==
  ASSUME NEW S, NEW s \in Seq(Seq(S))
  PROVE  \E f : Flattens(f, s)
<1> DEFINE P == {t \in Seq(Seq(S)) : \E f : Flattens(f, t)}
<1>1. <<>> \in P
  <2> DEFINE f == [i \in 1 .. Len(<<>>) |-> <<>>]
  <2>1. Flattens(f, <<>>)
    BY DEF Flattens
  <2> QED BY <2>1
<1>2. ASSUME NEW t \in Seq(Seq(S)) \cap P, NEW x \in Seq(S)
      PROVE  Append(t, x) \in P
  <2>1. PICK f : Flattens(f, t)
    OBVIOUS
  <2> DEFINE n == Len(t)
             y == IF n = 0 THEN x ELSE f[n] \o x
             g == [i \in 1 .. n + 1 |-> IF i = n + 1 THEN y ELSE f[i]]
             r == Append(t, x)
  <2>2. n \in Nat /\ Len(r) = n + 1 /\ r[n + 1] = x /\ \A i \in 1 .. n : r[i] = t[i]
    OBVIOUS
  <2>3. \A i \in 1 .. n + 1 : g[i] = IF i = 1 THEN r[i] ELSE g[i - 1] \o r[i]
    <3> SUFFICES ASSUME NEW i \in 1 .. n + 1
                 PROVE  g[i] = IF i = 1 THEN r[i] ELSE g[i - 1] \o r[i]
      OBVIOUS
    <3>1. CASE i = n + 1
      BY <3>1, <2>2
    <3>2. CASE i # n + 1
      <4>1. i \in 1 .. n /\ (i # 1 => i - 1 \in 1 .. n)
        BY <3>2, <2>2
      <4>2. f[i] = IF i = 1 THEN t[i] ELSE f[i - 1] \o t[i]
        BY <4>1, <2>1 DEF Flattens
      <4>3. g[i] = f[i] /\ (i # 1 => g[i - 1] = f[i - 1])
        BY <4>1, <2>2
      <4> QED BY <4>1, <4>2, <4>3, <2>2
    <3> QED BY <3>1, <3>2
  <2>4. g = [i \in 1 .. Len(r) |-> IF i = 1 THEN r[i] ELSE g[i - 1] \o r[i]]
    <3> DEFINE h == [i \in 1 .. Len(r) |-> IF i = 1 THEN r[i] ELSE g[i - 1] \o r[i]]
    <3>1. DOMAIN g = 1 .. n + 1 /\ DOMAIN h = 1 .. n + 1
      BY <2>2
    <3>2. \A i \in 1 .. n + 1 : g[i] = h[i]
      BY <2>2, <2>3
    <3>3. g = [i \in DOMAIN g |-> g[i]] /\ h = [i \in DOMAIN h |-> h[i]]
      OBVIOUS
    <3> HIDE DEF g, h
    <3>4. g = h
      BY <3>1, <3>2, <3>3
    <3> QED BY <3>4 DEF h
  <2>5. Flattens(g, r)
    <3> HIDE DEF g
    <3> QED BY <2>4 DEF Flattens
  <2> HIDE DEF g
  <2> QED BY <2>5
<1> HIDE DEF P
<1>3. Seq(Seq(S)) \subseteq P
  BY <1>1, <1>2, EverySequence
<1> QED
  BY <1>3 DEF P

(* Its last value is a sequence, and one longer goes on where s ends. *)
LEMMA FlattenValues ==
  ASSUME NEW S, NEW s \in Seq(Seq(S)), NEW f, Flattens(f, s)
  PROVE  \A i \in 1 .. Len(s) : f[i] \in Seq(S)
<1> DEFINE T == {i \in 1 .. Len(s) : f[i] \notin Seq(S)}
<1> SUFFICES ASSUME T # {} PROVE FALSE
  OBVIOUS
<1>1. PICK d \in T : \A e \in T : ~(e < d)
  <2>1. T \subseteq Nat
    OBVIOUS
  <2> HIDE DEF T
  <2> QED BY <2>1, LeastNumber
<1>2. f[d] = IF d = 1 THEN s[d] ELSE f[d - 1] \o s[d]
  BY DEF Flattens
<1>3. d \in 1 .. Len(s) /\ f[d] \notin Seq(S) /\ d - 1 \notin T /\ s[d] \in Seq(S)
  BY <1>1
<1>4. d # 1 => f[d - 1] \in Seq(S)
  <2>1. d # 1 => d - 1 \in 1 .. Len(s)
    BY <1>3, LenProperties
  <2> QED
    BY <1>3, <2>1
<1> QED
  BY <1>2, <1>3, <1>4, ConcatProperties

(* For a sequence one longer it is the same so far, and goes on where s    *)
(* ends.                                                                   *)
LEMMA FlattenAgrees ==
  ASSUME NEW S, NEW s \in Seq(Seq(S)), NEW x \in Seq(S),
         NEW f, Flattens(f, s), NEW g, Flattens(g, Append(s, x))
  PROVE  /\ \A i \in 1 .. Len(s) : g[i] = f[i]
         /\ g[Len(s) + 1] = IF Len(s) = 0 THEN x ELSE f[Len(s)] \o x
<1> DEFINE r == Append(s, x)
           T == {i \in 1 .. Len(s) : g[i] # f[i]}
<1>0. /\ Len(s) \in Nat /\ Len(r) = Len(s) + 1 /\ r[Len(s) + 1] = x
      /\ \A i \in 1 .. Len(s) : r[i] = s[i]
  OBVIOUS
<1>1. \A i \in 1 .. Len(s) + 1 : g[i] = IF i = 1 THEN r[i] ELSE g[i - 1] \o r[i]
  BY <1>0 DEF Flattens
<1>2. \A i \in 1 .. Len(s) : f[i] = IF i = 1 THEN s[i] ELSE f[i - 1] \o s[i]
  BY DEF Flattens
<1> HIDE DEF r
<1>3. T = {}
  <2> SUFFICES ASSUME T # {} PROVE FALSE
    OBVIOUS
  <2>1. PICK d \in T : \A e \in T : ~(e < d)
    <3>1. T \subseteq Nat
      OBVIOUS
    <3> HIDE DEF T
    <3> QED BY <3>1, LeastNumber
  <2>2. d # 1 => g[d - 1] = f[d - 1]
    BY <2>1
  <2>3. d \in 1 .. Len(s) + 1 /\ d \in 1 .. Len(s)
    BY <1>0
  <2> QED BY <1>0, <1>1, <1>2, <2>2, <2>3
<1>4. g[Len(s) + 1] = IF Len(s) = 0 THEN x ELSE g[Len(s)] \o x
  BY <1>0, <1>1
<1>5. Len(s) # 0 => Len(s) \in 1 .. Len(s)
  BY <1>0
<1>6. \A i \in 1 .. Len(s) : g[i] = f[i]
  BY <1>3
<1> QED
  BY <1>4, <1>5, <1>6

(* FlattenSeq of no sequences is empty. *)
LEMMA FlattenEmpty == FlattenSeq(<<>>) = <<>>
BY DEF FlattenSeq

(* FlattenSeq of others is the last value of that function. *)
LEMMA FlattenIs ==
  ASSUME NEW s, Len(s) # 0
  PROVE  FlattenSeq(s) = (CHOOSE f : Flattens(f, s))[Len(s)]
BY DEF FlattenSeq, Flattens

(* FlattenSeq puts what is appended behind the rest. *)
LEMMA FlattenAppend ==
  ASSUME NEW S, NEW s \in Seq(Seq(S)), NEW x \in Seq(S)
  PROVE  /\ FlattenSeq(s) \in Seq(S)
         /\ FlattenSeq(Append(s, x)) = FlattenSeq(s) \o x
<1> DEFINE f == CHOOSE f : Flattens(f, s)
           g == CHOOSE g : Flattens(g, Append(s, x))
<1>1. Append(s, x) \in Seq(Seq(S)) /\ Len(Append(s, x)) = Len(s) + 1 /\ Len(s) \in Nat
  OBVIOUS
<1>2. Flattens(f, s) /\ Flattens(g, Append(s, x))
  BY <1>1, FlattenExists
<1> HIDE DEF f, g
<1>3. FlattenSeq(Append(s, x)) = g[Len(s) + 1]
  <2>1. FlattenSeq(Append(s, x)) = g[Len(Append(s, x))]
    <3>1. Len(Append(s, x)) # 0
      BY <1>1
    <3> QED
      BY <3>1, FlattenIs DEF g
  <2> QED
    BY <1>1, <2>1
<1>4. g[Len(s) + 1] = IF Len(s) = 0 THEN x ELSE f[Len(s)] \o x
  BY <1>2, FlattenAgrees
<1>5. CASE Len(s) = 0
  <2>1. s = <<>>
    BY <1>5, EmptySeq
  <2>2. FlattenSeq(s) = <<>> /\ <<>> \in Seq(S) /\ <<>> \o x = x
    BY <2>1, FlattenEmpty, EmptySeq, ConcatEmptySeq
  <2> QED BY <1>3, <1>4, <1>5, <2>2
<1>6. CASE Len(s) # 0
  <2>1. FlattenSeq(s) = f[Len(s)]
    BY <1>6, FlattenIs DEF f
  <2>2. f[Len(s)] \in Seq(S)
    BY <1>1, <1>2, <1>6, FlattenValues
  <2> QED BY <1>3, <1>4, <1>6, <2>1, <2>2
<1> QED
  BY <1>5, <1>6

-----------------------------------------------------------------------------
(* What a walk of reading comes to is NewReadable. *)
LEMMA WalkRead ==
  ASSUME NEW html \in Seq(Item), NEW b, Walks(ReadSteps, html, <<>>, b)
  PROVE  NewReadable(html) = b
<1> DEFINE n == Len(html)
           s == [i \in DOMAIN html |-> ReadItem(html[i])]
<1>1. PICK f : /\ f[0] = <<>> /\ f[n] = b
               /\ \A i \in 1 .. n : <<f[i - 1], html[i], f[i]>> \in ReadSteps
  BY DEF Walks
<1>2. n \in Nat /\ DOMAIN html = 1 .. n /\ \A i \in 1 .. n : html[i] \in Item
  BY LenProperties, ElementOfSeq
<1>3. \A i \in 1 .. n : ReadItem(html[i]) \in Seq(Seen)
  BY <1>2, ReadItemType
<1>4. /\ s \in Seq(Seq(Seen)) /\ Len(s) = n
      /\ \A i \in 1 .. n : s[i] = ReadItem(html[i]) /\ s[i] \in Seq(Seen)
  <2> DEFINE D == Seq(Seen)
  <2> HIDE DEF D, n
  <2>1. s \in [1 .. n -> D]
    BY <1>2, <1>3 DEF D
  <2>2. s \in Seq(D) /\ Len(s) = n
    BY <1>2, <2>1
  <2>3. \A i \in 1 .. n : s[i] = ReadItem(html[i])
    BY <1>2
  <2> QED BY <1>3, <2>2, <2>3 DEF D
<1>5. \A i \in 1 .. n : f[i - 1] \in Seq(Seen) /\ f[i] = f[i - 1] \o s[i]
  <2> TAKE i \in 1 .. n
  <2> DEFINE p == f[i - 1]
             q == f[i]
             x == html[i]
  <2>1. <<p, x, q>> \in ReadSteps
    BY <1>1
  <2> HIDE DEF p, q, x
  <2>2. p \in Seq(Seen) /\ q = p \o ReadItem(x)
    BY <2>1, ReadStepIs, Zenon
  <2> QED BY <1>4, <2>2 DEF p, q, x
<1> HIDE DEF s, n
<1> DEFINE P == {k \in 0 .. n : FlattenSeq(SubSeq(s, 1, k)) = f[k]}
<1>6. 0 \in P
  <2>1. SubSeq(s, 1, 0) = <<>>
    BY <1>4, SubSeqEmpty
  <2>2. 0 \in 0 .. n
    BY <1>2
  <2> QED BY <1>1, <2>1, <2>2, FlattenEmpty
<1>7. ASSUME NEW k \in 0 .. n - 1, k \in P
      PROVE  k + 1 \in P
  <2> DEFINE t == SubSeq(s, 1, k)
             x == s[k + 1]
  <2>1. k + 1 \in 1 .. n /\ (k + 1) - 1 = k /\ k + 1 \in 0 .. n /\ k \in Int
        /\ k + 1 \in 1 .. Len(s) /\ 1 \in 1 .. Len(s)
    BY <1>2, <1>4
  <2>2. x \in Seq(Seen) /\ f[k + 1] = f[k] \o x
    BY <1>4, <1>5, <2>1, Zenon
  <2>3. t \in Seq(Seq(Seen))
    <3>1. \A i \in 1 .. k : s[i] \in Seq(Seen)
      <4>1. \A i \in 1 .. k : i \in 1 .. n
        BY <1>2
      <4> QED BY <1>4, <4>1, Zenon
    <3> DEFINE D == Seq(Seen)
    <3> HIDE DEF D
    <3>2. s \in Seq(D) /\ \A i \in 1 .. k : s[i] \in D
      BY <1>4, <3>1 DEF D
    <3>3. t \in Seq(D)
      BY <2>1, <3>2, SubSeqProperties
    <3> QED BY <3>3 DEF D
  <2>4. SubSeq(s, 1, k + 1) = t \o <<x>>
    <3>1. SubSeq(s, 1, k + 1) = SubSeq(s, 1, (k + 1) - 1) \o <<s[k + 1]>>
      BY <1>4, <2>1, SubSeqRecursiveSecond
    <3> QED BY <2>1, <3>1, Zenon
  <2>5. Append(t, x) = t \o <<x>>
    <3> DEFINE D == Seq(Seen)
    <3> HIDE DEF D, t, x
    <3>1. t \in Seq(D) /\ x \in D
      BY <2>2, <2>3 DEF D
    <3> QED BY <3>1, AppendIsConcat
  <2>6. FlattenSeq(t) = f[k]
    BY <1>7
  <2> HIDE DEF P, t, x
  <2>7. FlattenSeq(Append(t, x)) = FlattenSeq(t) \o x
    BY <2>2, <2>3, FlattenAppend
  <2>8. FlattenSeq(SubSeq(s, 1, k + 1)) = f[k + 1]
    BY <2>2, <2>4, <2>5, <2>6, <2>7, Zenon
  <2> QED BY <2>1, <2>8 DEF P
<1> HIDE DEF P
<1>8. n \in P
  <2>1. 0 .. n \subseteq P
    <3>1. 0 \in Int /\ n \in Int
      BY <1>2
    <3> QED BY <1>6, <1>7, <3>1, Upwards
  <2> QED BY <1>2, <2>1
<1>9. FlattenSeq(s) = f[n]
  <2>1. SubSeq(s, 1, n) = s
    BY <1>4, SubSeqFull
  <2> QED BY <1>8, <2>1 DEF P
<1> QED BY <1>1, <1>9 DEF NewReadable, s

(* The invariant implies HtmlKept. *)
LEMMA KeptIfRead == ReadInv => HtmlKept
BY WalkRead DEF ReadInv, HtmlKept

(* Every step of the script keeps the invariant. *)
LEMMA ReadStep ==
  LexInv /\ JoinInv /\ ReadInv /\ [HighlightNext]_<<highlightVars, patternVars>> => ReadInv'
<1> SUFFICES ASSUME LexInv, JoinInv, ReadInv, [HighlightNext]_<<highlightVars, patternVars>>
             PROVE  ReadInv'
  OBVIOUS
<1>1. CASE LoadScript
  <2>1. stage' \in {"script", "ready"}
    BY <1>1 DEF LoadScript, LexInv, LexTypes
  <2> QED BY <2>1 DEF ReadInv
<1>2. ASSUME NEW l \in Listings, ApplyDecorator(l) PROVE ReadInv'
  <2>1. l.html \in Seq(Piece)
    BY HighlightAssumption
  <2>2. /\ stage' = "lexing" /\ listing' = l
        /\ source' = ExtractTags(l.html).source /\ tags' = ExtractTags(l.html).tags
    BY <1>2 DEF ApplyDecorator
  <2> QED BY <2>1, <2>2 DEF ReadInv
<1>3. CASE Decorate
  <2>1. stage = "lexing" /\ UNCHANGED <<stage, listing, source, tags, w>>
    BY <1>3 DEF Decorate
  <2> QED BY <2>1 DEF ReadInv
<1>4. CASE Return
  <2>1. stage = "lexing" /\ UNCHANGED <<stage, listing, source, tags, w>>
    BY <1>4 DEF Return
  <2> QED BY <2>1 DEF ReadInv
<1>5. CASE Catch
  BY <1>5 DEF Catch, ReadInv
<1>6. CASE Join
  BY <1>6, JoinKeepsRead
<1>7. CASE ConsumeTag
  BY <1>7, ConsumeTagKeepsRead
<1>8. CASE ConsumeDecoration
  BY <1>8, ConsumeDecorationKeepsRead
<1>9. CASE Finish
  BY <1>9, FinishKeepsRead
<1>10. CASE NextElement
  BY <1>10 DEF NextElement, ReadInv
<1>11. CASE UNCHANGED <<highlightVars, patternVars>>
  <2>1. UNCHANGED <<stage, listing, source, tags, frames, decorations, w>>
    BY <1>11 DEF highlightVars
  <2> QED BY <2>1 DEF ReadInv, JoinReads
<1> QED
  BY <1>1, <1>2, <1>3, <1>4, <1>5, <1>6, <1>7, <1>8, <1>9, <1>10, <1>11
     DEF HighlightNext, Highlight

(* applyDecorator: whatever the html, the new html reads as it does,       *)
(* character by character and tag by tag, with tabs expanded, comments     *)
(* left out and sections without code untouched.                           *)
THEOREM HtmlIsKept == HighlightSpec => []HtmlKept
<1>1. HighlightInit => ReadInv
  BY DEF HighlightInit, ReadInv
<1>2. LexInv /\ JoinInv /\ ReadInv /\ [HighlightNext]_<<highlightVars, patternVars>>
        => ReadInv'
  BY ReadStep
<1>3. ReadInv => HtmlKept
  BY KeptIfRead
<1> QED BY <1>1, <1>2, <1>3, Lexing, Joins, PTL DEF HighlightSpec

-----------------------------------------------------------------------------
(* groupIndex *)
OpensUpTo(parts, i) == {j \in 1 .. i : parts[j].k = "open"}

(* The places up to i where some groups are opened. *)
OpensIn(parts, i, groups) == {j \in OpensUpTo(parts, i) : GroupIndex(parts, j) \in groups}

(* The groups that are opened up to a place are finitely many, and         *)
(* GroupIndex counts them.                                                 *)
LEMMA OpensAre ==
  ASSUME NEW parts, NEW i \in Nat
  PROVE  /\ IsFiniteSet(OpensUpTo(parts, i)) /\ GroupIndex(parts, i) \in Nat
         /\ GroupIndex(parts, i) = Cardinality(OpensUpTo(parts, i))
<1>1. IsFiniteSet(1 .. i)
  BY FS_Interval
<1>2. OpensUpTo(parts, i) \in SUBSET (1 .. i)
  BY DEF OpensUpTo
<1>3. IsFiniteSet(OpensUpTo(parts, i))
  BY <1>1, <1>2, FS_Subset
<1> QED BY <1>3, FS_CardinalityType DEF GroupIndex, OpensUpTo

(* groupIndex goes up by one at each opening parenthesis. *)
LEMMA GroupIndexNext ==
  ASSUME NEW parts, NEW i \in Nat
  PROVE  /\ GroupIndex(parts, 0) = 0
         /\ GroupIndex(parts, i + 1) = GroupIndex(parts, i)
                                         + (IF parts[i + 1].k = "open" THEN 1 ELSE 0)
<1>1. GroupIndex(parts, 0) = 0
  <2>1. OpensUpTo(parts, 0) = {}
    BY DEF OpensUpTo
  <2> QED BY <2>1, OpensAre, FS_EmptySet
<1> DEFINE S == OpensUpTo(parts, i)
<1>2. IsFiniteSet(S) /\ i + 1 \notin S /\ i + 1 \in Nat
  <2>1. i + 1 \notin 1 .. i /\ i + 1 \in Nat
    OBVIOUS
  <2> QED BY <2>1, OpensAre DEF OpensUpTo
<1>3. CASE parts[i + 1].k = "open"
  <2>1. OpensUpTo(parts, i + 1) = S \cup {i + 1}
    <3>1. 1 .. i + 1 = (1 .. i) \cup {i + 1}
      OBVIOUS
    <3> QED BY <1>3, <3>1 DEF OpensUpTo
  <2> HIDE DEF S
  <2>2. Cardinality(S \cup {i + 1}) = Cardinality(S) + 1
    BY <1>2, FS_AddElement
  <2> QED BY <1>1, <1>2, <1>3, <2>1, <2>2, OpensAre DEF S
<1>4. CASE parts[i + 1].k # "open"
  <2>1. OpensUpTo(parts, i + 1) = S
    <3>1. 1 .. i + 1 = (1 .. i) \cup {i + 1}
      OBVIOUS
    <3> QED BY <1>4, <3>1 DEF OpensUpTo
  <2>2. GroupIndex(parts, i + 1) = GroupIndex(parts, i) /\ GroupIndex(parts, i) \in Nat
    BY <1>2, <2>1, OpensAre
  <2> QED BY <1>1, <1>4, <2>2
<1> QED BY <1>3, <1>4

(* A later place has no smaller groupIndex, and a greater one at a         *)
(* parenthesis.                                                            *)
LEMMA GroupIndexGrows ==
  ASSUME NEW parts, NEW i \in Nat, NEW j \in Nat, i < j
  PROVE  /\ GroupIndex(parts, i) <= GroupIndex(parts, j)
         /\ parts[j].k = "open" => GroupIndex(parts, i) < GroupIndex(parts, j)
<1>1. \A a, b \in Nat : a <= b => GroupIndex(parts, a) <= GroupIndex(parts, b)
  <2> TAKE a, b \in Nat
  <2> HAVE a <= b
  <2>1. OpensUpTo(parts, a) \in SUBSET OpensUpTo(parts, b)
    <3>1. 1 .. a \subseteq 1 .. b
      OBVIOUS
    <3> QED BY <3>1 DEF OpensUpTo
  <2> QED BY <2>1, OpensAre, FS_Subset
<1>2. j - 1 \in Nat /\ i <= j - 1 /\ i <= j /\ (j - 1) + 1 = j
  OBVIOUS
<1>3. GroupIndex(parts, j) = GroupIndex(parts, j - 1)
                               + (IF parts[j].k = "open" THEN 1 ELSE 0)
  BY <1>2, GroupIndexNext
<1>4. GroupIndex(parts, i) \in Nat /\ GroupIndex(parts, j - 1) \in Nat
  BY <1>2, OpensAre
<1>5. GroupIndex(parts, i) <= GroupIndex(parts, j - 1) /\ GroupIndex(parts, i) <= GroupIndex(parts, j)
  BY <1>1, <1>2
<1> QED BY <1>3, <1>4, <1>5

(* Each group up to a place was opened, and only once. *)
LEMMA GroupOpened ==
  ASSUME NEW parts, NEW i \in Nat, NEW g \in 1 .. GroupIndex(parts, i)
  PROVE  \E j \in OpensUpTo(parts, i) : GroupIndex(parts, j) = g
<1> DEFINE T == {j \in Nat : g <= GroupIndex(parts, j)}
<1>1. GroupIndex(parts, i) \in Nat /\ g \in Nat /\ g >= 1 /\ g <= GroupIndex(parts, i)
  BY OpensAre
<1>2. T \subseteq Nat /\ i \in T
  BY <1>1
<1>3. PICK d \in T : \A e \in T : ~(e < d)
  <2> HIDE DEF T
  <2>1. T # {}
    BY <1>2
  <2> QED BY <1>2, <2>1, LeastNumber
<1>4. d \in Nat /\ d # 0 /\ d <= i
  <2>1. GroupIndex(parts, 0) = 0
    BY GroupIndexNext
  <2>2. 0 \notin T
    BY <1>1, <2>1
  <2>3. d \in Nat /\ d # 0
    BY <1>3, <2>2
  <2> QED BY <1>2, <1>3, <2>3
<1> DEFINE c == d - 1
<1>5. c \in Nat /\ c + 1 = d /\ c < d
  BY <1>4
<1>6. ~(g <= GroupIndex(parts, c))
  <2> HIDE DEF c
  <2>1. c \notin T
    BY <1>3, <1>5
  <2> QED BY <1>5, <2>1
<1>7. GroupIndex(parts, c) \in Nat /\ g <= GroupIndex(parts, d)
  BY <1>3, <1>5, OpensAre
<1>8. GroupIndex(parts, d) = GroupIndex(parts, c) + (IF parts[d].k = "open" THEN 1 ELSE 0)
  <2> HIDE DEF c
  <2>1. GroupIndex(parts, c + 1) = GroupIndex(parts, c)
                                     + (IF parts[c + 1].k = "open" THEN 1 ELSE 0)
    BY <1>5, GroupIndexNext
  <2> QED BY <1>5, <2>1
<1> HIDE DEF c
<1>9. parts[d].k = "open" /\ GroupIndex(parts, d) = g
  BY <1>1, <1>6, <1>7, <1>8
<1>10. d \in 1 .. i
  BY <1>4
<1> QED BY <1>9, <1>10 DEF OpensUpTo

(* No two parentheses have the same number. *)
LEMMA OpenedOnce ==
  ASSUME NEW parts, NEW i \in Nat, NEW j \in Nat, parts[i].k = "open", parts[j].k = "open",
         GroupIndex(parts, i) = GroupIndex(parts, j)
  PROVE  i = j
<1>1. GroupIndex(parts, i) \in Nat
  BY OpensAre
<1>2. CASE i < j
  <2>1. GroupIndex(parts, i) < GroupIndex(parts, j)
    BY <1>2, GroupIndexGrows
  <2> QED BY <1>1, <2>1
<1>3. CASE j < i
  <2>1. GroupIndex(parts, j) < GroupIndex(parts, i)
    BY <1>3, GroupIndexGrows
  <2> QED BY <1>1, <2>1
<1> QED BY <1>2, <1>3

(* So some groups are as many as the places where they are opened. *)
LEMMA GroupsCounted ==
  ASSUME NEW parts, NEW i \in Nat, NEW T, T \subseteq 1 .. GroupIndex(parts, i)
  PROVE  Cardinality(OpensIn(parts, i, T)) = Cardinality(T)
<1> DEFINE U == OpensIn(parts, i, T)
           f == [j \in U |-> GroupIndex(parts, j)]
<1>1. IsFiniteSet(OpensUpTo(parts, i)) /\ U \in SUBSET OpensUpTo(parts, i)
  BY OpensAre DEF OpensIn
<1>2. IsFiniteSet(U)
  BY <1>1, FS_Subset
<1>3. \A j \in U : j \in Nat /\ parts[j].k = "open" /\ GroupIndex(parts, j) \in T
  BY DEF OpensUpTo, OpensIn
<1>4. \A t \in T : \E j \in U : GroupIndex(parts, j) = t
  <2> TAKE t \in T
  <2>1. PICK j \in OpensUpTo(parts, i) : GroupIndex(parts, j) = t
    BY GroupOpened
  <2> QED BY <2>1 DEF OpensIn
<1> HIDE DEF U
<1>5. f \in Bijection(U, T)
  <2>1. f \in [U -> T]
    BY <1>3
  <2>2. \A a, b \in U : f[a] = f[b] => a = b
    BY <1>3, OpenedOnce
  <2>3. \A t \in T : \E j \in U : f[j] = t
    BY <1>4
  <2> HIDE DEF f
  <2> QED BY <2>1, <2>2, <2>3 DEF Bijection, Injection, Surjection, IsInjective
<1>6. ExistsBijection(U, T)
  BY <1>5 DEF ExistsBijection
<1> QED BY <1>2, <1>6, FS_Bijection DEF U

-----------------------------------------------------------------------------
(* Ranges of codes in their order *)
LEMMA CodeRangeIs ==
  ASSUME NEW r \in CodeRange
  PROVE  /\ r[1] \in Nat /\ r[2] \in Nat /\ r[1] <= r[2] /\ r = <<r[1], r[2]>>
         /\ r \in Nat \X Nat
BY DEF CodeRange

(* The order of ranges is a strict total one, and goes by their            *)
(* beginnings.                                                             *)
LEMMA BeforeIs ==
  ASSUME NEW a \in CodeRange, NEW b \in CodeRange, NEW c \in CodeRange
  PROVE  /\ ~Before(a, a)
         /\ (Before(a, b) \/ Before(b, a) \/ a = b)
         /\ (Before(a, b) /\ Before(b, c) => Before(a, c))
         /\ (~Before(b, a) => a[1] <= b[1])
<1>1. /\ a[1] \in Nat /\ a[2] \in Nat /\ b[1] \in Nat /\ b[2] \in Nat /\ c[1] \in Nat
      /\ c[2] \in Nat /\ a = <<a[1], a[2]>> /\ b = <<b[1], b[2]>>
  BY CodeRangeIs
<1>2. a[1] = b[1] /\ a[2] = b[2] => a = b
  BY <1>1
<1> QED BY <1>1, <1>2 DEF Before

(* The ranges of T that come before r in the order *)
RangesBefore(T, r) == {q \in T : Before(q, r)}

(* A range has as many before it as its place in the order says. *)
LEMMA RankIs ==
  ASSUME NEW T, IsFiniteSet(T), T \subseteq CodeRange, NEW a \in T, NEW b \in T
  PROVE  /\ Cardinality(RangesBefore(T, a)) \in 0 .. Cardinality(T) - 1
         /\ (Before(a, b) =>
               Cardinality(RangesBefore(T, a)) < Cardinality(RangesBefore(T, b)))
<1>1. \A r \in T : /\ RangesBefore(T, r) \in SUBSET T /\ r \notin RangesBefore(T, r)
                   /\ IsFiniteSet(RangesBefore(T, r))
                   /\ Cardinality(RangesBefore(T, r)) \in Nat
                   /\ Cardinality(RangesBefore(T, r)) < Cardinality(T)
  <2> TAKE r \in T
  <2>1. RangesBefore(T, r) \in SUBSET T /\ r \notin RangesBefore(T, r)
    BY BeforeIs DEF RangesBefore
  <2>2. IsFiniteSet(RangesBefore(T, r)) /\ Cardinality(RangesBefore(T, r)) <= Cardinality(T)
        /\ (Cardinality(T) = Cardinality(RangesBefore(T, r)) => T = RangesBefore(T, r))
    BY <2>1, FS_Subset
  <2>3. Cardinality(RangesBefore(T, r)) \in Nat /\ Cardinality(T) \in Nat
    BY <2>2, FS_CardinalityType
  <2> QED BY <2>1, <2>2, <2>3
<1>2. Cardinality(T) \in Nat
  BY FS_CardinalityType
<1>3. ASSUME Before(a, b)
      PROVE  Cardinality(RangesBefore(T, a)) < Cardinality(RangesBefore(T, b))
  <2> DEFINE A == RangesBefore(T, a)
             B == RangesBefore(T, b)
  <2>1. A \in SUBSET B /\ a \in B /\ a \notin A
    BY <1>1, <1>3, BeforeIs DEF RangesBefore
  <2>2. IsFiniteSet(B) /\ Cardinality(A) \in Nat /\ Cardinality(B) \in Nat
    BY <1>1
  <2> HIDE DEF A, B
  <2>3. Cardinality(A) <= Cardinality(B) /\ (Cardinality(B) = Cardinality(A) => B = A)
    BY <2>1, <2>2, FS_Subset
  <2> QED BY <2>1, <2>2, <2>3 DEF A, B
<1> QED BY <1>1, <1>2, <1>3

(* No two ranges have the same place in the order. *)
LEMMA RankOnce ==
  ASSUME NEW T, IsFiniteSet(T), T \subseteq CodeRange, NEW a \in T, NEW b \in T,
         Cardinality(RangesBefore(T, a)) = Cardinality(RangesBefore(T, b))
  PROVE  a = b
<1>1. /\ Cardinality(RangesBefore(T, a)) \in 0 .. Cardinality(T) - 1
      /\ Before(a, b) => Cardinality(RangesBefore(T, a)) < Cardinality(RangesBefore(T, b))
      /\ Before(b, a) => Cardinality(RangesBefore(T, b)) < Cardinality(RangesBefore(T, a))
  BY RankIs
<1>2. Before(a, b) \/ Before(b, a) \/ a = b
  BY BeforeIs
<1> QED BY <1>1, <1>2

(* Each place in the order is that of a range. *)
LEMMA RankTaken ==
  ASSUME NEW T, IsFiniteSet(T), T \subseteq CodeRange, NEW n \in 0 .. Cardinality(T) - 1
  PROVE  \E r \in T : Cardinality(RangesBefore(T, r)) = n
<1> DEFINE size == Cardinality(T)
           ranks == 0 .. size - 1
           f == [r \in T |-> Cardinality(RangesBefore(T, r))]
<1>1. size \in Nat
  BY FS_CardinalityType
<1>2. IsFiniteSet(ranks) /\ Cardinality(ranks) = size
  <2> HIDE DEF size
  <2>1. IsFiniteSet(ranks) /\ Cardinality(ranks) = IF 0 > size - 1 THEN 0 ELSE (size - 1) - 0 + 1
    BY <1>1, FS_Interval
  <2>2. (IF 0 > size - 1 THEN 0 ELSE (size - 1) - 0 + 1) = size
    BY <1>1
  <2> QED BY <2>1, <2>2
<1>3. f \in Injection(T, ranks)
  <2>1. \A r \in T : Cardinality(RangesBefore(T, r)) \in ranks
    BY RankIs
  <2>2. f \in [T -> ranks]
    BY <2>1
  <2>3. \A a, b \in T : f[a] = f[b] => a = b
    BY RankOnce
  <2> HIDE DEF f, ranks
  <2> QED BY <2>2, <2>3 DEF Injection, IsInjective
<1>4. f \in Surjection(T, ranks)
  <2> HIDE DEF f, ranks
  <2> QED BY <1>2, <1>3, FS_Injection DEF size
<1>5. \E r \in T : f[r] = n
  <2> HIDE DEF f
  <2> QED BY <1>4 DEF Surjection
<1> QED BY <1>5

(* Ranges in the order of their beginnings *)
Sorted(s) == \A i, j \in DOMAIN s : i <= j => s[i][1] <= s[j][1]

(* Sorting a finite set of ranges gives each of them once, in order. *)
LEMMA OrderedIs ==
  ASSUME NEW T, IsFiniteSet(T), T \subseteq CodeRange
  PROVE  /\ Ordered(T) \in Seq(CodeRange) /\ Len(Ordered(T)) = Cardinality(T)
         /\ {Ordered(T)[n] : n \in 1 .. Len(Ordered(T))} = T /\ Sorted(Ordered(T))
<1> DEFINE f == Ordered(T)
           size == Cardinality(T)
           rank(r) == Cardinality(RangesBefore(T, r))
<1>1. size \in Nat
  BY FS_CardinalityType
<1>2. f = [n \in 1 .. size |-> CHOOSE r \in T : rank(r) = n - 1]
  BY DEF Ordered, RangesBefore
<1> HIDE DEF f, size
<1>3. ASSUME NEW n \in 1 .. size
      PROVE  f[n] \in T /\ rank(f[n]) = n - 1
  <2>1. n - 1 \in 0 .. size - 1
    BY <1>1
  <2>2. \E r \in T : rank(r) = n - 1
    BY <2>1, RankTaken DEF size
  <2> HIDE DEF rank
  <2> QED BY <1>2, <2>2
<1>4. f \in [1 .. size -> T]
  <2> HIDE DEF rank
  <2>1. DOMAIN f = 1 .. size /\ f = [n \in 1 .. size |-> f[n]]
    BY <1>2
  <2> QED BY <1>3, <2>1
<1>5. f \in Seq(T) /\ Len(f) = size /\ DOMAIN f = 1 .. size
  BY <1>1, <1>4
<1>6. f \in Seq(CodeRange)
  BY <1>5
<1>7. ASSUME NEW r \in T
      PROVE  \E n \in 1 .. size : f[n] = r
  <2> DEFINE n == rank(r) + 1
  <2>1. rank(r) \in 0 .. size - 1
    BY RankIs DEF size
  <2>2. n \in 1 .. size /\ n - 1 = rank(r)
    BY <1>1, <2>1
  <2>3. f[n] \in T /\ rank(f[n]) = rank(r)
    BY <1>3, <2>2
  <2>4. f[n] = r
    BY <2>3, RankOnce
  <2> QED BY <2>2, <2>4
<1>8. {f[n] : n \in 1 .. size} = T
  BY <1>3, <1>7
<1>9. Sorted(f)
  <2> SUFFICES ASSUME NEW i \in 1 .. size, NEW j \in 1 .. size, i <= j
               PROVE  f[i][1] <= f[j][1]
    BY <1>5 DEF Sorted
  <2>1. f[i] \in T /\ f[j] \in T /\ rank(f[i]) = i - 1 /\ rank(f[j]) = j - 1
    BY <1>3
  <2>2. ~Before(f[j], f[i])
    <3> SUFFICES ASSUME Before(f[j], f[i]) PROVE FALSE
      OBVIOUS
    <3>1. rank(f[j]) < rank(f[i])
      BY <2>1, RankIs
    <3> HIDE DEF rank
    <3> QED BY <2>1, <3>1
  <2>3. f[i] \in CodeRange /\ f[j] \in CodeRange
    BY <2>1
  <2> QED BY <2>2, <2>3, BeforeIs
<1> QED BY <1>5, <1>6, <1>8, <1>9 DEF f, size

-----------------------------------------------------------------------------
(* Ranges that meet are merged. *)
LEMMA MaxOfTwo == ASSUME NEW a \in Int, NEW b \in Int
                  PROVE  Max({a, b}) = IF a <= b THEN b ELSE a
<1> DEFINE T == {a, b}
           m == IF a <= b THEN b ELSE a
<1>1. T \subseteq Int /\ m \in T /\ \A x \in T : x <= m
  OBVIOUS
<1> HIDE DEF T, m
<1>2. Max(T) = m
  BY <1>1, MaxUnique
<1> QED BY <1>2 DEF T, m

(* The Min of two numbers. *)
LEMMA MinOfTwo == ASSUME NEW a \in Nat, NEW b \in Nat
                  PROVE  Min({a, b}) = IF a <= b THEN a ELSE b
<1> DEFINE T == {a, b}
<1>1. T \subseteq Nat /\ T # {}
  OBVIOUS
<1>2. Min(T) \in T /\ \A x \in T : Min(T) <= x
  <2> HIDE DEF T
  <2> QED BY <1>1, MinIs
<1> QED BY <1>1, <1>2

(* A range of s has the character. *)
Covered(s, c) == \E i \in 1 .. Len(s) : c \in s[i][1] .. s[i][2]

(* Merging the next range in order with those before covers what both      *)
(* cover.                                                                  *)
LEMMA MergeIs ==
  ASSUME NEW done \in Seq(CodeRange), NEW r \in CodeRange
  PROVE  /\ Merge(done, r) \in Seq(CodeRange) /\ Merge(done, r) # <<>>
         /\ (done = <<>> => Merge(done, r)[1] = r)
         /\ (done # <<>> => Merge(done, r)[1][1] = done[1][1])
         /\ (done = <<>> \/ done[Len(done)][1] <= r[1]) =>
              /\ Merge(done, r)[Len(Merge(done, r))][1] <= r[1]
              /\ \A c \in Int : Covered(Merge(done, r), c)
                                  <=> (Covered(done, c) \/ c \in r[1] .. r[2])
<1> DEFINE n == Len(done)
           new == Merge(done, r)
<1>1. n \in Nat /\ DOMAIN done = 1 .. n /\ (done # <<>> <=> n > 0)
      /\ \A i \in 1 .. n : done[i] \in CodeRange
  BY EmptySeq, LenProperties, ElementOfSeq
<1>2. r[1] \in Nat /\ r[2] \in Nat /\ r[1] <= r[2]
  BY CodeRangeIs
<1>3. CASE done # <<>> /\ r[1] <= done[n][2] + 1
  <2> DEFINE last == done[n]
             end == Max({last[2], r[2]})
             x == <<last[1], end>>
  <2>1. n \in 1 .. n /\ last \in CodeRange
    BY <1>1, <1>3
  <2>2. last[1] \in Nat /\ last[2] \in Nat /\ last[1] <= last[2]
    BY <2>1, CodeRangeIs
  <2>3. end = IF last[2] <= r[2] THEN r[2] ELSE last[2]
    BY <1>2, <2>2, MaxOfTwo
  <2>4. new = [done EXCEPT ![n] = x]
    BY <1>3 DEF Merge
  <2> HIDE DEF end, last, new
  <2>5. end \in Nat /\ last[1] <= end /\ end >= last[2] /\ end >= r[2]
    BY <1>2, <2>2, <2>3
  <2>6. x \in CodeRange /\ x[1] = last[1] /\ x[2] = end
    BY <2>2, <2>5 DEF CodeRange
  <2> HIDE DEF x
  <2>7. new \in Seq(CodeRange) /\ Len(new) = n
    BY <1>1, <2>1, <2>4, <2>6, ExceptSeq
  <2>8. \A i \in 1 .. n : new[i] = IF i = n THEN x ELSE done[i]
    BY <1>1, <2>4
  <2>9. new # <<>> /\ new[1][1] = done[1][1] /\ new[n] = x
    <3>1. 1 \in 1 .. n /\ n \in 1 .. n
      BY <1>1, <1>3
    <3>2. new # <<>>
      BY <1>1, <1>3, <2>7, EmptySeq
    <3> QED BY <2>6, <2>8, <3>1, <3>2 DEF last
  <2>10. ASSUME last[1] <= r[1], NEW c \in Int
         PROVE  Covered(new, c) <=> (Covered(done, c) \/ c \in r[1] .. r[2])
    <3>1. c \in x[1] .. x[2] <=> (c \in last[1] .. last[2] \/ c \in r[1] .. r[2])
      <4>1. r[1] <= last[2] + 1
        BY <1>3 DEF last
      <4> QED BY <1>2, <2>2, <2>3, <2>6, <2>10, <4>1
    <3>2. Covered(new, c) <=> \/ \E i \in 1 .. n : i # n /\ c \in done[i][1] .. done[i][2]
                              \/ c \in x[1] .. x[2]
      BY <2>1, <2>7, <2>8 DEF Covered
    <3>3. Covered(done, c) <=> \/ \E i \in 1 .. n : i # n /\ c \in done[i][1] .. done[i][2]
                               \/ c \in last[1] .. last[2]
      BY <2>1 DEF Covered, last
    <3> QED BY <3>1, <3>2, <3>3
  <2> QED BY <1>3, <2>6, <2>7, <2>9, <2>10 DEF new, last
<1>4. CASE ~(done # <<>> /\ r[1] <= done[n][2] + 1)
  <2>1. new = Append(done, r)
    BY <1>4 DEF Merge
  <2> HIDE DEF new
  <2>2. /\ new \in Seq(CodeRange) /\ Len(new) = n + 1 /\ new[n + 1] = r
        /\ \A i \in 1 .. n : new[i] = done[i]
    BY <2>1, AppendProperties
  <2>3. new # <<>> /\ (done = <<>> => new[1] = r) /\ (done # <<>> => new[1][1] = done[1][1])
    <3>1. new # <<>>
      BY <1>1, <2>2, EmptySeq
    <3>2. done = <<>> => n + 1 = 1
      BY <1>1
    <3>3. done # <<>> => 1 \in 1 .. n
      BY <1>1
    <3> QED BY <2>2, <3>1, <3>2, <3>3
  <2>4. new[Len(new)][1] <= r[1]
    BY <1>2, <2>2
  <2>5. ASSUME NEW c \in Int
        PROVE  Covered(new, c) <=> (Covered(done, c) \/ c \in r[1] .. r[2])
    <3>1. 1 .. n + 1 = (1 .. n) \cup {n + 1}
      BY <1>1
    <3> QED BY <2>2, <3>1 DEF Covered
  <2> QED BY <2>2, <2>3, <2>4, <2>5 DEF new
<1> QED BY <1>3, <1>4

(* f is what is consolidated after each range. *)
Consolidates(f, s) ==
  f = [n \in 0 .. Len(s) |-> IF n = 0 THEN <<>> ELSE Merge(f[n - 1], s[n])]

(* The ranges after each merge. *)
LEMMA ConsolidatedIs ==
  ASSUME NEW s \in Seq(CodeRange)
  PROVE  \E f \in [0 .. Len(s) -> Seq(CodeRange)] :
           /\ Consolidated(s) = f[Len(s)] /\ f[0] = <<>>
           /\ \A n \in 1 .. Len(s) : f[n] = Merge(f[n - 1], s[n])
<1> DEFINE m == Len(s)
           D == Seq(CodeRange)
           base == <<>>
           step == [x \in (0 + 1 .. m) \X D |-> Merge(x[2], s[x[1]])]
<1>1. m \in Int /\ 0 \in Int /\ 0 <= m
  OBVIOUS
<1>2. base \in D
  OBVIOUS
<1>3. step \in [(0 + 1 .. m) \X D -> D]
  <2>1. \A x \in (0 + 1 .. m) \X D : Merge(x[2], s[x[1]]) \in D
    <3> TAKE x \in (0 + 1 .. m) \X D
    <3>1. x[1] \in 1 .. Len(s) /\ x[2] \in D
      OBVIOUS
    <3>2. s[x[1]] \in CodeRange
      BY <3>1, ElementOfSeq
    <3> QED BY <3>1, <3>2, MergeIs
  <2> HIDE DEF D
  <2> QED BY <2>1
<1>4. PICK g \in [0 .. m -> D] : Computes(g, 0, m, base, step)
  <2> HIDE DEF base, step, D, m
  <2> QED BY <1>1, <1>2, <1>3, RecursionExists
<1>5. \A i \in 1 .. m : i - 1 \in 0 .. m /\ i \in 0 .. m /\ i # 0
  BY <1>1
<1>6. /\ g[0] = base
      /\ \A i \in 1 .. m : g[i] = Merge(g[i - 1], s[i])
      /\ Consolidates(g, s)
  <2>1. \A i \in 0 .. m : i # 0 => i - 1 \in 0 .. m /\ i \in 0 + 1 .. m
    BY <1>1
  <2>2. \A i \in 0 .. m : i # 0 => step[<<i, g[i - 1]>>] = Merge(g[i - 1], s[i])
    <3>1. \A i \in 0 .. m : i # 0 => g[i - 1] \in D
      BY <2>1
    <3> HIDE DEF D
    <3> QED BY <2>1, <3>1
  <2> HIDE DEF step, base, D
  <2>3. g = [i \in 0 .. m |-> IF i = 0 THEN base ELSE Merge(g[i - 1], s[i])]
    BY <1>4, <2>2 DEF Computes
  <2>4. 0 \in 0 .. m
    BY <1>1
  <2> HIDE DEF m
  <2>5. g[0] = base
    BY <2>3, <2>4
  <2>6. \A i \in 1 .. m : g[i] = Merge(g[i - 1], s[i])
    BY <1>5, <2>3
  <2> QED BY <2>3, <2>5, <2>6 DEF Consolidates, base, m
<1> DEFINE f == CHOOSE f : Consolidates(f, s)
<1>7. Consolidates(f, s) /\ Consolidated(s) = f[m]
  <2>1. Consolidates(f, s)
    BY <1>6
  <2> QED BY <2>1 DEF Consolidated, Consolidates
<1> HIDE DEF f, step, D
<1>8. f[0] = base /\ \A i \in 1 .. m : f[i] = Merge(f[i - 1], s[i])
  BY <1>1, <1>5, <1>7 DEF Consolidates
<1> HIDE DEF base
<1>9. Agree(f, g, 0, m)
  <2> HIDE DEF m
  <2>0. \A i \in 1 .. m : f[i - 1] = g[i - 1] => f[i] = g[i]
    BY <1>6, <1>8, Zenon
  <2>1. \A i \in 0 + 1 .. m : f[i - 1] = g[i - 1] => f[i] = g[i]
    <3>1. 0 + 1 = 1
      OBVIOUS
    <3> QED BY <2>0, <3>1, Zenon
  <2>2. 0 <= m => f[0] = g[0]
    BY <1>6, <1>8
  <2>3. Alike(f, g, 0, m)
    BY <2>1, <2>2 DEF Alike
  <2> QED BY <1>1, <2>3, AlikeAgree, Zenon
<1>10. f[m] = g[m]
  BY <1>1, <1>9 DEF Agree
<1> QED BY <1>6, <1>7, <1>10 DEF D, base

(* The next place *)
LEMMA StepUp ==
  ASSUME NEW k \in Nat, NEW i \in 0 .. k - 1
  PROVE  /\ i + 1 \in 1 .. k /\ (i + 1) - 1 = i /\ i + 1 \in 0 .. k /\ i \in 0 .. k
         /\ i + 1 > 0 /\ i + 1 # 0 /\ i \in Nat
OBVIOUS

(* Consolidated ranges cover what the sorted ones did, from the same       *)
(* character on.                                                           *)
LEMMA ConsolidatedCovers ==
  ASSUME NEW s \in Seq(CodeRange), Sorted(s)
  PROVE  /\ Consolidated(s) \in Seq(CodeRange) /\ (Consolidated(s) = <<>> <=> s = <<>>)
         /\ s # <<>> => Consolidated(s)[1][1] = s[1][1]
         /\ \A c \in Int : Covered(Consolidated(s), c) <=> Covered(s, c)
<1> DEFINE m == Len(s)
           CoveredTo(n, c) == \E i \in 1 .. n : c \in s[i][1] .. s[i][2]
<1>1. PICK f \in [0 .. m -> Seq(CodeRange)] :
        /\ Consolidated(s) = f[m] /\ f[0] = <<>>
        /\ \A n \in 1 .. m : f[n] = Merge(f[n - 1], s[n])
  BY ConsolidatedIs
<1>2. /\ m \in Nat /\ DOMAIN s = 1 .. m /\ (s # <<>> <=> m > 0)
      /\ \A i \in 1 .. m : s[i] \in CodeRange /\ s[i][1] \in Nat
  BY EmptySeq, LenProperties, ElementOfSeq, CodeRangeIs
<1> DEFINE P == {n \in 0 .. m :
                   /\ n = 0 <=> f[n] = <<>>
                   /\ n > 0 => /\ f[n][1][1] = s[1][1]
                               /\ f[n][Len(f[n])][1] <= s[n][1]
                   /\ \A c \in Int : Covered(f[n], c) <=> CoveredTo(n, c)}
<1> HIDE DEF m
<1>3. 0 \in P
  <2>1. Len(<<>>) = 0 /\ 1 .. 0 = {}
    OBVIOUS
  <2>2. \A c \in Int : Covered(f[0], c) <=> CoveredTo(0, c)
    BY <1>1, <2>1 DEF Covered
  <2>3. 0 \in 0 .. m
    BY <1>2
  <2> HIDE DEF CoveredTo
  <2> QED BY <1>1, <2>2, <2>3
<1>4. ASSUME NEW i \in 0 .. m - 1, i \in P
      PROVE  i + 1 \in P
  <2> DEFINE n == i + 1
             done == f[i]
             r == s[n]
             new == f[n]
  <2>1. n \in 1 .. m /\ n - 1 = i /\ n \in 0 .. m /\ i \in 0 .. m /\ n > 0 /\ n # 0 /\ i \in Nat
    BY <1>2, StepUp, Zenon
  <2>2. new = Merge(done, r) /\ done \in Seq(CodeRange) /\ r \in CodeRange
    BY <1>1, <1>2, <2>1
  <2>3. /\ i = 0 <=> done = <<>>
        /\ i > 0 => /\ done[1][1] = s[1][1]
                    /\ done[Len(done)][1] <= s[i][1]
        /\ \A c \in Int : Covered(done, c) <=> CoveredTo(i, c)
    BY <1>4
  <2>4. done = <<>> \/ done[Len(done)][1] <= r[1]
    <3> SUFFICES ASSUME done # <<>> PROVE done[Len(done)][1] <= r[1]
      OBVIOUS
    <3>1. i > 0 /\ done[Len(done)][1] <= s[i][1]
      BY <2>1, <2>3
    <3>2. i \in 1 .. m /\ i <= n
      BY <1>2, <2>1, <3>1
    <3>3. s[i][1] <= s[n][1]
      BY <1>2, <2>1, <3>2 DEF Sorted
    <3>4. done[Len(done)][1] \in Nat
      <4> HIDE DEF done
      <4>1. Len(done) \in 1 .. Len(done) /\ done[Len(done)] \in CodeRange
        BY <2>2, EmptySeq, ElementOfSeq
      <4> QED BY <4>1, CodeRangeIs
    <3>5. s[i][1] \in Nat /\ s[n][1] \in Nat
      BY <1>2, <2>1, <3>2
    <3> DEFINE a == done[Len(done)][1]
               b == s[i][1]
               c == s[n][1]
    <3>6. a <= b /\ b <= c /\ a \in Nat /\ b \in Nat /\ c \in Nat
      BY <3>1, <3>3, <3>4, <3>5
    <3> HIDE DEF a, b, c
    <3>7. a <= c
      BY <3>6
    <3> QED BY <3>7 DEF a, c
  <2>5. CoveredTo(n, 0) \in BOOLEAN /\ \A c : CoveredTo(n, c) <=> CoveredTo(i, c) \/ c \in r[1] .. r[2]
    <3>1. 1 .. n = (1 .. i) \cup {n}
      BY <2>1
    <3> QED BY <3>1
  <2> HIDE DEF n, done, r, new, CoveredTo, P
  <2>6. /\ new # <<>> /\ (done = <<>> => new[1] = r) /\ (done # <<>> => new[1][1] = done[1][1])
        /\ new[Len(new)][1] <= r[1]
        /\ \A c \in Int : Covered(new, c) <=> (Covered(done, c) \/ c \in r[1] .. r[2])
    BY <2>2, <2>4, MergeIs
  <2>7. new[1][1] = s[1][1]
    <3>1. CASE i = 0
      <4>1. n = 1
        BY <3>1 DEF n
      <4>2. new[1] = s[1]
        BY <2>3, <2>6, <3>1, <4>1 DEF r
      <4> QED BY <4>2
    <3>2. CASE i # 0
      <4>1. i > 0
        BY <2>1, <3>2
      <4> QED BY <2>3, <2>6, <3>2, <4>1
    <3> QED BY <3>1, <3>2
  <2>8. \A c \in Int : Covered(new, c) <=> CoveredTo(n, c)
    BY <2>3, <2>5, <2>6
  <2>9. n \in P
    BY <2>1, <2>6, <2>7, <2>8 DEF P, new, r
  <2> QED BY <2>9 DEF n
<1> HIDE DEF P
<1>5. 0 .. m \subseteq P
  <2>1. 0 \in Int /\ m \in Int
    BY <1>2
  <2> QED BY <1>3, <1>4, <2>1, Upwards
<1>6. m \in P
  BY <1>2, <1>5
<1>7. /\ m = 0 <=> f[m] = <<>>
      /\ m > 0 => f[m][1][1] = s[1][1]
      /\ \A c \in Int : Covered(f[m], c) <=> CoveredTo(m, c)
  BY <1>6 DEF P
<1>8. \A c \in Int : Covered(Consolidated(s), c) <=> Covered(s, c)
  BY <1>1, <1>7 DEF Covered, m
<1>9. f[m] \in Seq(CodeRange)
  <2>1. m \in 0 .. m
    BY <1>2
  <2> QED BY <1>1, <2>1
<1>10. m = 0 <=> s = <<>>
  BY <1>2
<1> QED BY <1>1, <1>2, <1>7, <1>8, <1>9, <1>10

-----------------------------------------------------------------------------
(* caseFoldCharset *)
LEMMA FoldedIs ==
  ASSUME NEW r \in CodeRange
  PROVE  /\ Folded(r) \subseteq CodeRange /\ IsFiniteSet(Folded(r)) /\ r \in Folded(r)
         /\ \A c \in Int : (\E q \in Folded(r) : c \in q[1] .. q[2])
                             <=> (c \in r[1] .. r[2] \/ OtherCase(c) \in r[1] .. r[2])
<1> DEFINE a == r[1]
           b == r[2]
           up == <<Max({65, a}) + 32, Min({b, 90}) + 32>>
           down == <<Max({97, a}) - 32, Min({b, 122}) - 32>>
           A == IF b < 65 \/ a > 90 THEN {} ELSE {up}
           B == IF b < 97 \/ a > 122 THEN {} ELSE {down}
<1>1. a \in Nat /\ b \in Nat /\ a <= b
  BY CodeRangeIs
<1>2. Folded(r) = {r} \cup A \cup B
  BY DEF Folded
<1> HIDE DEF a, b
<1>3. /\ up[1] = (IF 65 <= a THEN a ELSE 65) + 32 /\ up[2] = (IF b <= 90 THEN b ELSE 90) + 32
      /\ down[1] = (IF 97 <= a THEN a ELSE 97) - 32 /\ down[2] = (IF b <= 122 THEN b ELSE 122) - 32
      /\ up = <<up[1], up[2]>> /\ down = <<down[1], down[2]>>
  <2>1. /\ Max({65, a}) = (IF 65 <= a THEN a ELSE 65) /\ Max({97, a}) = (IF 97 <= a THEN a ELSE 97)
        /\ Min({b, 90}) = (IF b <= 90 THEN b ELSE 90) /\ Min({b, 122}) = (IF b <= 122 THEN b ELSE 122)
    BY <1>1, MaxOfTwo, MinOfTwo
  <2> QED BY <2>1
<1> HIDE DEF up, down
<1>4. ~(b < 65 \/ a > 90) => up \in CodeRange
  <2> SUFFICES ASSUME ~(b < 65 \/ a > 90) PROVE up \in CodeRange
    OBVIOUS
  <2>1. up[1] \in Nat /\ up[2] \in Nat /\ up[1] <= up[2]
    BY <1>1, <1>3
  <2> QED BY <1>3, <2>1 DEF CodeRange
<1>5. ~(b < 97 \/ a > 122) => down \in CodeRange
  <2> SUFFICES ASSUME ~(b < 97 \/ a > 122) PROVE down \in CodeRange
    OBVIOUS
  <2>1. down[1] \in Nat /\ down[2] \in Nat /\ down[1] <= down[2]
    BY <1>1, <1>3
  <2> QED BY <1>3, <2>1 DEF CodeRange
<1>6. Folded(r) \subseteq CodeRange /\ r \in Folded(r)
  BY <1>2, <1>4, <1>5
<1>7. IsFiniteSet(Folded(r))
  <2>1. IsFiniteSet({r}) /\ IsFiniteSet({up}) /\ IsFiniteSet({down}) /\ IsFiniteSet({})
    BY FS_Singleton, FS_EmptySet
  <2>2. IsFiniteSet(A) /\ IsFiniteSet(B)
    BY <2>1
  <2> HIDE DEF A, B
  <2>3. IsFiniteSet({r} \cup A)
    BY <2>1, <2>2, FS_Union
  <2>4. IsFiniteSet({r} \cup A \cup B)
    BY <2>2, <2>3, FS_Union
  <2> QED BY <1>2, <2>4
<1>8. ASSUME NEW c \in Int
      PROVE  (\E q \in Folded(r) : c \in q[1] .. q[2])
               <=> (c \in r[1] .. r[2] \/ OtherCase(c) \in r[1] .. r[2])
  <2>1. (\E q \in A : c \in q[1] .. q[2]) <=> (c - 32 \in 65 .. 90 /\ c - 32 \in a .. b)
    <3>1. CASE b < 65 \/ a > 90
      BY <1>1, <3>1
    <3>2. CASE ~(b < 65 \/ a > 90)
      <4>1. A = {up}
        BY <3>2
      <4>2. c \in up[1] .. up[2] <=> (c - 32 \in 65 .. 90 /\ c - 32 \in a .. b)
        BY <1>1, <1>3, <3>2
      <4> HIDE DEF A
      <4> QED BY <4>1, <4>2
    <3> QED BY <3>1, <3>2
  <2>2. (\E q \in B : c \in q[1] .. q[2]) <=> (c + 32 \in 97 .. 122 /\ c + 32 \in a .. b)
    <3>1. CASE b < 97 \/ a > 122
      BY <1>1, <3>1
    <3>2. CASE ~(b < 97 \/ a > 122)
      <4>1. B = {down}
        BY <3>2
      <4>2. c \in down[1] .. down[2] <=> (c + 32 \in 97 .. 122 /\ c + 32 \in a .. b)
        BY <1>1, <1>3, <3>2
      <4> HIDE DEF B
      <4> QED BY <4>1, <4>2
    <3> QED BY <3>1, <3>2
  <2>3. OtherCase(c) = IF c + 32 \in 97 .. 122 THEN c + 32
                       ELSE IF c - 32 \in 65 .. 90 THEN c - 32 ELSE c
    BY DEF OtherCase, Upper, Lower
  <2>4. c \in r[1] .. r[2] <=> c \in a .. b
    BY DEF a, b
  <2>5. OtherCase(c) \in r[1] .. r[2] <=> OtherCase(c) \in a .. b
    BY DEF a, b
  <2> HIDE DEF A, B
  <2>6. (\E q \in Folded(r) : c \in q[1] .. q[2])
          <=> \/ c \in a .. b \/ (\E q \in A : c \in q[1] .. q[2])
              \/ (\E q \in B : c \in q[1] .. q[2])
    BY <1>2, <2>4
  <2>7. (c \in a .. b \/ OtherCase(c) \in a .. b)
          <=> \/ c \in a .. b \/ (c - 32 \in 65 .. 90 /\ c - 32 \in a .. b)
              \/ (c + 32 \in 97 .. 122 /\ c + 32 \in a .. b)
    BY <1>1, <2>3
  <2> QED BY <2>1, <2>2, <2>4, <2>5, <2>6, <2>7
<1> QED BY <1>6, <1>7, <1>8

(* The ranges of a set with those of the other case *)
FoldedRanges(ranges) == UNION {Folded(r) : r \in Range(ranges)}

(* The folded ranges of a set are finitely many and cover each character   *)
(* in both cases.                                                          *)
LEMMA FoldedRangesAre ==
  ASSUME NEW ranges \in Seq(CodeRange)
  PROVE  /\ FoldedRanges(ranges) \subseteq CodeRange /\ IsFiniteSet(FoldedRanges(ranges))
         /\ \A c \in Int : (\E q \in FoldedRanges(ranges) : c \in q[1] .. q[2])
                             <=> (Covered(ranges, c) \/ Covered(ranges, OtherCase(c)))
<1> DEFINE n == Len(ranges)
           S == {Folded(r) : r \in Range(ranges)}
           f == [i \in 1 .. n |-> Folded(ranges[i])]
<1>1. /\ n \in Nat /\ DOMAIN ranges = 1 .. n
      /\ \A i \in 1 .. n : ranges[i] \in CodeRange
  BY LenProperties, ElementOfSeq
<1>2. S = {Folded(ranges[i]) : i \in 1 .. n}
  BY <1>1 DEF Range
<1> HIDE DEF S
<1>3. f \in Surjection(1 .. n, S)
  <2>1. f \in [1 .. n -> S]
    BY <1>2
  <2>2. \A t \in S : \E i \in 1 .. n : f[i] = t
    BY <1>2
  <2> HIDE DEF f
  <2> QED BY <2>1, <2>2 DEF Surjection
<1>4. IsFiniteSet(S)
  <2>1. IsFiniteSet(1 .. n)
    BY <1>1, FS_Interval
  <2> HIDE DEF f
  <2> QED BY <1>3, <2>1, FS_Surjection
<1>5. \A T \in S : IsFiniteSet(T) /\ T \subseteq CodeRange
  BY <1>1, <1>2, FoldedIs
<1>6. IsFiniteSet(UNION S) /\ UNION S \subseteq CodeRange
  BY <1>4, <1>5, FS_UNION
<1>7. FoldedRanges(ranges) = UNION S
  BY DEF FoldedRanges, S
<1>8. ASSUME NEW c \in Int
      PROVE  (\E q \in UNION S : c \in q[1] .. q[2])
               <=> (Covered(ranges, c) \/ Covered(ranges, OtherCase(c)))
  <2>1. (\E q \in UNION S : c \in q[1] .. q[2])
          <=> \E i \in 1 .. n : \E q \in Folded(ranges[i]) : c \in q[1] .. q[2]
    BY <1>2
  <2>2. \A i \in 1 .. n : (\E q \in Folded(ranges[i]) : c \in q[1] .. q[2])
                            <=> (c \in ranges[i][1] .. ranges[i][2]
                                   \/ OtherCase(c) \in ranges[i][1] .. ranges[i][2])
    BY <1>1, FoldedIs
  <2> QED BY <2>1, <2>2 DEF Covered
<1> QED BY <1>6, <1>7, <1>8

(* The parts that fold *)
SetPart == [k : {"set"}, ranges : Seq(CodeRange), inverse : BOOLEAN]
LetterPart == [k : {"letter"}, code : Upper \cup Lower]

(* The kinds of parts that fold. *)
LEMMA PartIsOne ==
  ASSUME NEW part \in Part
  PROVE  /\ part.k = "set" => part \in SetPart
         /\ part.k = "letter" => part \in LetterPart
         /\ SetPart \subseteq Part
<1>1. "set" # "letter" /\ "set" # "ref" /\ "letter" # "ref" /\ "set" \notin {"open", "close", "caret"}
      /\ "letter" \notin {"open", "close", "caret"} /\ "set" # "escape" /\ "letter" # "escape"
  OBVIOUS
<1> QED BY <1>1 DEF Part, SetPart, LetterPart

(* A set holds what its ranges cover. *)
LEMMA HoldsIs ==
  ASSUME NEW part, part.ranges \in Seq(CodeRange), part.k = "set", NEW c
  PROVE  Holds(part, c) <=> Covered(part.ranges, c)
<1>1. Range(part.ranges) = {part.ranges[i] : i \in 1 .. Len(part.ranges)}
  BY DEF Range
<1>2. part.k \notin {"letter", "escape"}
  OBVIOUS
<1>3. Holds(part, c) <=> \E r \in Range(part.ranges) : c \in r[1] .. r[2]
  BY <1>2 DEF Holds
<1> QED BY <1>1, <1>3 DEF Covered

(* The ranges of some in their order hold what they held. *)
LEMMA OrderedCovers ==
  ASSUME NEW T, IsFiniteSet(T), T \subseteq CodeRange
  PROVE  /\ Ordered(T) \in Seq(CodeRange) /\ Sorted(Ordered(T))
         /\ \A c : Covered(Ordered(T), c) <=> \E q \in T : c \in q[1] .. q[2]
         /\ T # {} => /\ Ordered(T) # <<>>
                      /\ Ordered(T)[1][1] = Min({r[1] : r \in T})
<1> DEFINE f == Ordered(T)
           n == Len(f)
           S == {r[1] : r \in T}
<1>1. f \in Seq(CodeRange) /\ {f[i] : i \in 1 .. n} = T /\ Sorted(f)
  BY OrderedIs
<1> HIDE DEF f
<1>2. n \in Nat /\ DOMAIN f = 1 .. n /\ (n = 0 => f = <<>>) /\ (f = <<>> => n = 0)
  BY <1>1, EmptySeq, LenProperties
<1>3. \A c : Covered(f, c) <=> \E q \in T : c \in q[1] .. q[2]
  BY <1>1 DEF Covered
<1>4. ASSUME T # {}
      PROVE  f # <<>> /\ f[1][1] = Min(S)
  <2>1. n # 0
    <3>1. PICK i \in 1 .. n : TRUE
      BY <1>1, <1>4
    <3> QED BY <1>2, <3>1
  <2>2. 1 \in 1 .. n
    BY <1>2, <2>1
  <2>3. S \subseteq Nat /\ S # {}
    BY <1>4, CodeRangeIs
  <2>4. f[1] \in T /\ f[1][1] \in S
    BY <1>1, <2>2
  <2>5. \A x \in S : f[1][1] <= x
    <3> TAKE x \in S
    <3>1. PICK i \in 1 .. n : f[i][1] = x
      BY <1>1
    <3>2. 1 <= i
      BY <1>2, <3>1
    <3> QED BY <1>1, <1>2, <2>2, <3>1, <3>2 DEF Sorted
  <2> HIDE DEF S
  <2>6. Min(S) \in S /\ \A x \in S : Min(S) <= x
    BY <2>3, MinIs
  <2>7. f[1][1] <= Min(S) /\ Min(S) <= f[1][1] /\ f[1][1] \in Nat /\ Min(S) \in Nat
    BY <2>3, <2>4, <2>5, <2>6
  <2>8. f[1][1] = Min(S)
    BY <2>7
  <2> QED BY <1>2, <2>1, <2>8
<1> QED BY <1>1, <1>3, <1>4 DEF f, S

(* caseFoldCharset makes a set that holds both cases of what the old one   *)
(* held; a caret as its least character would turn it into its inverse.    *)
LEMMA CaseFoldCharsetIs ==
  ASSUME NEW part \in SetPart
  PROVE  LET new == CaseFoldCharset(part)
         IN  /\ new \in SetPart
             /\ \A c \in Int : Holds(new, c) <=> (Holds(part, c) \/ Holds(part, OtherCase(c)))
             /\ Min({r[1] : r \in UNION {Folded(q) : q \in Range(part.ranges)}}) # Caret
                  => new.inverse = part.inverse
<1> DEFINE ranges == part.ranges
           T == FoldedRanges(ranges)
           s == Ordered(T)
           C == Consolidated(s)
           new == CaseFoldCharset(part)
<1>1. ranges \in Seq(CodeRange) /\ part.inverse \in BOOLEAN /\ part.k = "set"
  BY DEF SetPart
<1>2. new = [k |-> "set", ranges |-> C,
             inverse |-> part.inverse \/ (C # <<>> /\ C[1][1] = Caret)]
  BY DEF CaseFoldCharset, FoldedRanges
<1> HIDE DEF new, ranges
<1>3. /\ T \subseteq CodeRange /\ IsFiniteSet(T)
      /\ \A c \in Int : (\E q \in T : c \in q[1] .. q[2])
                          <=> (Covered(ranges, c) \/ Covered(ranges, OtherCase(c)))
  BY <1>1, FoldedRangesAre
<1> HIDE DEF T
<1>4. /\ s \in Seq(CodeRange) /\ Sorted(s)
      /\ \A c : Covered(s, c) <=> \E q \in T : c \in q[1] .. q[2]
      /\ T # {} => s # <<>> /\ s[1][1] = Min({r[1] : r \in T})
  BY <1>3, OrderedCovers
<1> HIDE DEF s
<1>5. /\ C \in Seq(CodeRange) /\ (C = <<>> <=> s = <<>>)
      /\ s # <<>> => C[1][1] = s[1][1]
      /\ \A c \in Int : Covered(C, c) <=> Covered(s, c)
  BY <1>4, ConsolidatedCovers
<1> HIDE DEF C
<1> DEFINE inverse == part.inverse \/ (C # <<>> /\ C[1][1] = Caret)
<1>6. inverse \in BOOLEAN
  OBVIOUS
<1> HIDE DEF inverse
<1>7. new = [k |-> "set", ranges |-> C, inverse |-> inverse]
  BY <1>2 DEF inverse
<1>8. new \in SetPart /\ new.ranges = C /\ new.inverse = inverse /\ new.k = "set"
  BY <1>5, <1>6, <1>7 DEF SetPart
<1>9. ASSUME NEW c \in Int
      PROVE  Holds(new, c) <=> (Holds(part, c) \/ Holds(part, OtherCase(c)))
  <2>1. Holds(new, c) <=> Covered(C, c)
    BY <1>5, <1>8, HoldsIs
  <2>2. /\ Holds(part, c) <=> Covered(ranges, c)
        /\ Holds(part, OtherCase(c)) <=> Covered(ranges, OtherCase(c))
    BY <1>1, HoldsIs DEF ranges
  <2> QED BY <1>3, <1>4, <1>5, <2>1, <2>2
<1>10. ASSUME Min({r[1] : r \in T}) # Caret
       PROVE  inverse = part.inverse
  <2>1. ~(C # <<>> /\ C[1][1] = Caret)
    <3> SUFFICES ASSUME C # <<>>, C[1][1] = Caret PROVE FALSE
      OBVIOUS
    <3>1. s # <<>> /\ s[1][1] = Caret
      BY <1>5
    <3>2. T # {}
      <4> SUFFICES ASSUME T = {} PROVE FALSE
        OBVIOUS
      <4>1. 1 \in 1 .. Len(s) /\ s[1] \in CodeRange
        <5>1. Len(s) \in Nat /\ Len(s) # 0
          BY <1>4, <3>1, EmptySeq
        <5>2. 1 \in 1 .. Len(s)
          BY <5>1
        <5> QED BY <1>4, <5>2, ElementOfSeq
      <4>2. s[1][1] \in s[1][1] .. s[1][2]
        BY <4>1, CodeRangeIs
      <4>3. Covered(s, s[1][1])
        BY <4>1, <4>2 DEF Covered
      <4> QED BY <1>4, <4>3
    <3> QED BY <1>4, <1>10, <3>1, <3>2
  <2> QED BY <1>1, <2>1, Zenon DEF inverse
<1>11. Min({r[1] : r \in UNION {Folded(q) : q \in Range(part.ranges)}}) # Caret
         => new.inverse = part.inverse
  <2>1. T = UNION {Folded(q) : q \in Range(part.ranges)}
    BY DEF T, FoldedRanges, ranges
  <2> QED BY <1>8, <1>10, <2>1, Zenon
<1> QED BY <1>8, <1>9, <1>11 DEF new

(* A part that is folded matches without the flag i what it matched with it. *)
LEMMA LetterFolds ==
  ASSUME NEW part \in LetterPart
  PROVE  LET new == FoldPart(part)
         IN  /\ new \in SetPart /\ new.inverse = FALSE
             /\ \A c \in Int : Holds(new, c) <=> (Holds(part, c) \/ Holds(part, OtherCase(c)))
<1> DEFINE a == part.code
           r == <<a, a>>
           T == Folded(r)
           s == Ordered(T)
           new == FoldPart(part)
<1>1. part.k = "letter" /\ part.k # "set" /\ a \in Nat
  BY DEF LetterPart, Upper, Lower
<1>2. new = [k |-> "set", inverse |-> FALSE, ranges |-> s]
  BY <1>1 DEF FoldPart
<1> HIDE DEF new, a
<1>3. r \in CodeRange /\ r[1] = a /\ r[2] = a
  BY <1>1 DEF CodeRange
<1>4. /\ T \subseteq CodeRange /\ IsFiniteSet(T)
      /\ \A c \in Int : (\E q \in T : c \in q[1] .. q[2])
                          <=> (c \in r[1] .. r[2] \/ OtherCase(c) \in r[1] .. r[2])
  BY <1>3, FoldedIs
<1> HIDE DEF T, r
<1>5. s \in Seq(CodeRange) /\ \A c : Covered(s, c) <=> \E q \in T : c \in q[1] .. q[2]
  BY <1>4, OrderedCovers
<1> HIDE DEF s
<1>6. new \in SetPart /\ new.inverse = FALSE /\ new.ranges = s /\ new.k = "set"
  BY <1>2, <1>5 DEF SetPart
<1>7. ASSUME NEW c \in Int
      PROVE  Holds(new, c) <=> (Holds(part, c) \/ Holds(part, OtherCase(c)))
  <2>1. Holds(new, c) <=> Covered(s, c)
    BY <1>5, <1>6, HoldsIs
  <2>2. OtherCase(c) \in Int
    BY DEF OtherCase, Upper, Lower
  <2>3. (Holds(part, c) <=> c = a) /\ (Holds(part, OtherCase(c)) <=> OtherCase(c) = a)
    BY <1>1 DEF Holds, a
  <2>4. (c \in r[1] .. r[2] <=> c = a) /\ (OtherCase(c) \in r[1] .. r[2] <=> OtherCase(c) = a)
    BY <1>1, <1>3, <2>2
  <2> QED BY <1>4, <1>5, <2>1, <2>3, <2>4
<1> QED BY <1>6, <1>7 DEF new

(* A set that holds both cases of another matches without the flag i what  *)
(* the other matches with it.                                              *)
LEMMA MatchesIs ==
  ASSUME NEW new, NEW part, NEW c,
         Holds(new, c) <=> (Holds(part, c) \/ Holds(part, OtherCase(c))),
         new.k = "set" /\ new.inverse <=> part.k = "set" /\ part.inverse
  PROVE  Matches(new, c, FALSE) = Matches(part, c, TRUE)
BY Zenon DEF Matches

(* A folded letter or set matches without the flag i what it matched with  *)
(* it.                                                                     *)
LEMMA FoldMatches ==
  ASSUME NEW part \in Part, part.k \in {"letter", "set"}, NEW re, ~Misread(re, part),
         NEW c \in Int
  PROVE  Matches(FoldPart(part), c, FALSE) = Matches(part, c, TRUE)
<1>1. CASE part.k = "letter"
  <2>1. part \in LetterPart /\ part.k # "set"
    BY <1>1, PartIsOne
  <2>2. /\ FoldPart(part).inverse = FALSE
        /\ Holds(FoldPart(part), c) <=> (Holds(part, c) \/ Holds(part, OtherCase(c)))
    BY <2>1, LetterFolds
  <2>3. FoldPart(part).k = "set" /\ FoldPart(part).inverse <=> part.k = "set" /\ part.inverse
    BY <2>1, <2>2, Zenon
  <2> QED BY <2>2, <2>3, MatchesIs, Zenon
<1>2. CASE part.k = "set"
  <2>1. part \in SetPart
    BY <1>2, PartIsOne
  <2>2. FoldPart(part) = CaseFoldCharset(part)
    BY <1>2 DEF FoldPart
  <2> DEFINE new == CaseFoldCharset(part)
  <2>3. Min({r[1] : r \in UNION {Folded(q) : q \in Range(part.ranges)}}) # Caret
    BY <1>2 DEF Misread
  <2>4. /\ new \in SetPart /\ new.inverse = part.inverse
        /\ Holds(new, c) <=> (Holds(part, c) \/ Holds(part, OtherCase(c)))
    BY <2>1, <2>3, CaseFoldCharsetIs
  <2> HIDE DEF new
  <2>5. new.k = "set"
    BY <2>4 DEF SetPart
  <2>6. new.k = "set" /\ new.inverse <=> part.k = "set" /\ part.inverse
    BY <1>2, <2>4, <2>5, Zenon
  <2>7. Matches(new, c, FALSE) = Matches(part, c, TRUE)
    BY <2>4, <2>6, MatchesIs, Zenon
  <2> QED BY <2>2, <2>7 DEF new
<1> QED BY <1>1, <1>2

(* The flag i adds nothing to a part without letters. *)
LEMMA CaseIndifferent ==
  ASSUME NEW re \in Regex, NEW i \in DOMAIN re.parts, re.parts[i].k \in {"letter", "set"},
         ~Misread(re, re.parts[i]), ~re.ignoreCase, ~HasLetters(re), NEW c \in Int
  PROVE  Matches(re.parts[i], c, TRUE) = Matches(re.parts[i], c, FALSE)
<1> DEFINE part == re.parts[i]
<1>1. part.k = "set"
  BY DEF HasLetters
<1> HIDE DEF part
<1>2. \A x \in Upper \cup Lower : ~Holds(part, x)
  BY <1>1 DEF Misread, part
<1>3. Holds(part, OtherCase(c)) => Holds(part, c)
  <2>1. CASE c \in Upper \cup Lower
    <3>1. OtherCase(c) \in Upper \cup Lower
      BY <2>1 DEF OtherCase, Upper, Lower
    <3> QED BY <1>2, <3>1
  <2>2. CASE c \notin Upper \cup Lower
    <3>1. OtherCase(c) = c
      BY <2>2 DEF OtherCase
    <3> QED BY <3>1
  <2> QED BY <2>1, <2>2
<1>4. (Holds(part, c) \/ (TRUE /\ Holds(part, OtherCase(c))))
        <=> (Holds(part, c) \/ (FALSE /\ Holds(part, OtherCase(c))))
  BY <1>3, Zenon
<1>5. Matches(part, c, TRUE) = Matches(part, c, FALSE)
  BY <1>4, Zenon DEF Matches
<1> QED BY <1>5 DEF part

-----------------------------------------------------------------------------
(* What a regex is rewritten to.                                           *)
NewPart == Part \cup [k : {"openNonCapturing", "nothing"}]

(* The kinds of parts. *)
LEMMA PartKinds ==
  ASSUME NEW part \in Part
  PROVE  /\ part.k \in {"open", "close", "caret", "ref", "letter", "escape", "set"}
         /\ part.k = "ref" => part \in [k : {"ref"}, number : Nat]
<1>1. "ref" \notin {"letter", "escape"} /\ "ref" # "set" /\ "ref" \notin {"open", "close", "caret"}
  OBVIOUS
<1> QED BY <1>1 DEF Part

(* The groups that capture are finitely many. *)
LEMMA CapturedAre ==
  ASSUME NEW parts \in Seq(Part)
  PROVE  /\ Captured(parts) \subseteq 1 .. GroupIndex(parts, Len(parts))
         /\ IsFiniteSet(Captured(parts)) /\ Cardinality(Captured(parts)) \in Nat
         /\ \A g : Cardinality({h \in Captured(parts) : h <= g}) \in Nat
<1> DEFINE n == Len(parts)
<1>1. n \in Nat /\ DOMAIN parts = 1 .. n
  BY LenProperties
<1> HIDE DEF n
<1>2. GroupIndex(parts, n) \in Nat
  BY <1>1, OpensAre
<1>3. \A i \in 1 .. n : GroupIndex(parts, i) \in Nat /\ GroupIndex(parts, i) <= GroupIndex(parts, n)
  <2> TAKE i \in 1 .. n
  <2>1. i \in Nat /\ (i < n \/ i = n)
    BY <1>1
  <2>2. GroupIndex(parts, i) \in Nat
    BY <2>1, OpensAre
  <2>3. CASE i < n
    BY <1>1, <2>1, <2>2, <2>3, GroupIndexGrows
  <2> QED BY <1>2, <2>1, <2>2, <2>3
<1>4. \A i \in DOMAIN parts : BackReference(parts, i) => parts[i].number \in 1 .. GroupIndex(parts, n)
  BY <1>1, <1>2, <1>3 DEF BackReference
<1>5. Captured(parts) \subseteq 1 .. GroupIndex(parts, n)
  BY <1>4 DEF Captured
<1>6. IsFiniteSet(Captured(parts))
  <2>1. IsFiniteSet(1 .. GroupIndex(parts, n))
    BY <1>2, FS_Interval
  <2>2. Captured(parts) \in SUBSET (1 .. GroupIndex(parts, n))
    BY <1>5
  <2> QED BY <2>1, <2>2, FS_Subset
<1>7. ASSUME NEW g
      PROVE  Cardinality({h \in Captured(parts) : h <= g}) \in Nat
  <2> DEFINE S == {h \in Captured(parts) : h <= g}
  <2>1. S \in SUBSET Captured(parts)
    OBVIOUS
  <2> HIDE DEF S
  <2>2. IsFiniteSet(S)
    BY <1>6, <2>1, FS_Subset
  <2>3. Cardinality(S) \in Nat
    BY <2>2, FS_CardinalityType
  <2> QED BY <2>3 DEF S
<1>8. Cardinality(Captured(parts)) \in Nat
  BY <1>6, FS_CardinalityType
<1> QED BY <1>5, <1>6, <1>7, <1>8 DEF n

(* new is what the part i of parts becomes, with offset groups before.     *)
IsNewPart(parts, new, i, offset, fold) ==
  /\ new \in NewPart
  /\ new.k = "open" <=> parts[i].k = "open" /\ GroupIndex(parts, i) \in Captured(parts)
  /\ BackReference(parts, i) /\ GroupIndex(parts, i) \in Captured(parts) =>
       /\ new.k = "ref"
       /\ new.number = offset + Cardinality({g \in Captured(parts) : g <= GroupIndex(parts, i)})
  /\ new.k \in {"letter", "set"} => parts[i].k \in {"letter", "set"}
  /\ parts[i].k \in {"letter", "set"} => new = IF fold THEN FoldPart(parts[i]) ELSE parts[i]
  /\ parts[i].k = "escape" => new = parts[i]

(* A parenthesis captures if a reference goes to it, and references get    *)
(* the numbers of their groups behind those of the patterns before.        *)
LEMMA RenumberPartIs ==
  ASSUME NEW parts \in Seq(Part), NEW i \in DOMAIN parts, capturedGroupIndex \in Nat
  PROVE  IsNewPart(parts, RenumberPart(parts, i), i, capturedGroupIndex, FALSE)
<1> DEFINE part == parts[i]
           new == RenumberPart(parts, i)
           g == GroupIndex(parts, i)
           number == Renumbered(parts, g)
           T == {h \in Captured(parts) : h <= g}
<1>1. part \in Part
  BY ElementOfSeq
<1>2. number \in Nat /\ (g \in Captured(parts) => number = capturedGroupIndex + Cardinality(T))
  <2>1. Cardinality(T) \in Nat
    BY CapturedAre
  <2> HIDE DEF g
  <2> QED BY <2>1 DEF Renumbered
<1>3. CASE part.k = "open" /\ g \notin Captured(parts)
  <2>1. ~BackReference(parts, i)
    BY <1>3 DEF BackReference
  <2>2. new = [k |-> "openNonCapturing"]
    BY <1>3, <2>1 DEF RenumberPart
  <2> HIDE DEF new
  <2>3. new \in NewPart /\ new.k # "open" /\ new.k \notin {"letter", "set"}
    BY <2>2 DEF NewPart
  <2> QED BY <1>3, <2>1, <2>3 DEF IsNewPart, new
<1>4. CASE BackReference(parts, i)
  <2>1. part.k = "ref"
    BY <1>4 DEF BackReference
  <2>2. new = [part EXCEPT !.number = number]
    BY <1>4, <2>1 DEF RenumberPart
  <2> HIDE DEF new, number, part
  <2>3. part \in [k : {"ref"}, number : Nat]
    BY <1>1, <2>1, PartKinds
  <2>4. new \in [k : {"ref"}, number : Nat] /\ new.number = number /\ new.k = "ref"
    BY <1>2, <2>2, <2>3
  <2>5. new \in NewPart
    BY <2>4 DEF NewPart, Part
  <2> QED BY <1>2, <2>1, <2>4, <2>5 DEF IsNewPart, new, part
<1>5. CASE ~(part.k = "open" /\ g \notin Captured(parts)) /\ ~BackReference(parts, i)
  <2>1. new = part
    BY <1>5 DEF RenumberPart
  <2>2. new \in NewPart
    BY <1>1, <2>1 DEF NewPart
  <2> HIDE DEF new
  <2> QED BY <1>5, <2>1, <2>2, Zenon DEF IsNewPart, new
<1> QED BY <1>3, <1>4, <1>5

(* Only carets are taken out. *)
LEMMA UnanchoredIs ==
  ASSUME NEW parts \in Seq(NewPart)
  PROVE  /\ Unanchored(parts) \in Seq(NewPart) /\ Len(Unanchored(parts)) = Len(parts)
         /\ \A i \in DOMAIN parts :
              \/ Unanchored(parts)[i] = parts[i]
              \/ parts[i].k = "caret" /\ Unanchored(parts)[i] = [k |-> "nothing"]
<1> DEFINE U == Unanchored(parts)
<1>1. DOMAIN parts = 1 .. Len(parts) /\ Len(parts) \in Nat
  BY LenProperties
<1>2. \A i \in DOMAIN parts :
        \/ U[i] = parts[i]
        \/ parts[i].k = "caret" /\ U[i] = [k |-> "nothing"]
  BY DEF Unanchored
<1>3. DOMAIN U = DOMAIN parts /\ U = [i \in DOMAIN parts |-> U[i]]
  BY DEF Unanchored
<1>4. [k |-> "nothing"] \in NewPart
  BY DEF NewPart
<1>5. \A i \in DOMAIN parts : parts[i] \in NewPart
  BY ElementOfSeq
<1> HIDE DEF U
<1>6. \A i \in DOMAIN parts : U[i] \in NewPart
  BY <1>2, <1>4, <1>5
<1>7. U \in [1 .. Len(parts) -> NewPart]
  BY <1>1, <1>3, <1>6
<1>8. U \in Seq(NewPart) /\ Len(U) = Len(parts)
  BY <1>1, <1>7, SeqDef, LenProperties
<1> QED BY <1>2, <1>8 DEF U

(* Folding changes letters and sets only. *)
LEMMA FoldPartIs ==
  ASSUME NEW part \in NewPart
  PROVE  /\ FoldPart(part) \in NewPart
         /\ part.k \notin {"letter", "set"} => FoldPart(part) = part
         /\ part.k \in {"letter", "set"} => part \in Part /\ FoldPart(part).k = "set"
<1>1. part.k \notin {"letter", "set"} => FoldPart(part) = part
  BY DEF FoldPart
<1>2. ASSUME part.k \in {"letter", "set"}
      PROVE  part \in Part /\ FoldPart(part).k = "set" /\ FoldPart(part) \in NewPart
  <2>1. part \in Part
    BY <1>2 DEF NewPart
  <2>2. CASE part.k = "letter"
    <3>1. part \in LetterPart
      BY <2>1, <2>2, PartIsOne
    <3>2. FoldPart(part) \in SetPart
      BY <3>1, LetterFolds
    <3>3. FoldPart(part) \in Part
      BY <2>1, <3>2, PartIsOne
    <3> QED BY <2>1, <3>2, <3>3 DEF NewPart, SetPart
  <2>3. CASE part.k = "set"
    <3>1. part \in SetPart
      BY <2>1, <2>3, PartIsOne
    <3>2. CaseFoldCharset(part) \in SetPart
      BY <3>1, CaseFoldCharsetIs
    <3>3. FoldPart(part) \in SetPart
      BY <2>3, <3>2 DEF FoldPart
    <3>4. FoldPart(part) \in Part
      BY <2>1, <3>3, PartIsOne
    <3> QED BY <2>1, <3>3, <3>4 DEF NewPart, SetPart
  <2> QED BY <1>2, <2>2, <2>3
<1> QED BY <1>1, <1>2

(* new are the parts that parts become. *)
AreNewParts(parts, new, offset, fold) ==
  /\ new \in Seq(NewPart) /\ Len(new) = Len(parts)
  /\ \A i \in DOMAIN parts : IsNewPart(parts, new[i], i, offset, fold)

(* new is what the pattern re becomes. *)
IsRewritten(re, new, offset, fold) ==
  AreNewParts(re.parts, new, offset, re.ignoreCase /\ fold)

(* A caret may be taken out. *)
LEMMA CaretGoes ==
  ASSUME NEW parts, NEW i, NEW offset, NEW old, IsNewPart(parts, old, i, offset, FALSE),
         old.k = "caret", NEW new, new = [k |-> "nothing"]
  PROVE  IsNewPart(parts, new, i, offset, FALSE)
<1>1. new \in NewPart /\ new.k = "nothing"
  BY DEF NewPart
<1>2. parts[i].k \notin {"letter", "escape", "set"}
  <2> SUFFICES ASSUME parts[i].k \in {"letter", "escape", "set"} PROVE FALSE
    OBVIOUS
  <2>1. old = parts[i]
    BY DEF IsNewPart
  <2> QED BY <2>1
<1>3. ~(BackReference(parts, i) /\ GroupIndex(parts, i) \in Captured(parts))
      /\ ~(parts[i].k = "open" /\ GroupIndex(parts, i) \in Captured(parts))
  BY DEF IsNewPart
<1> QED BY <1>1, <1>2, <1>3 DEF IsNewPart

(* A renumbered part may be folded. *)
LEMMA PartIsFolded ==
  ASSUME NEW parts, NEW i, NEW offset, NEW old, IsNewPart(parts, old, i, offset, FALSE)
  PROVE  IsNewPart(parts, FoldPart(old), i, offset, TRUE)
<1> DEFINE new == FoldPart(old)
<1>1. old \in NewPart
  BY DEF IsNewPart
<1>2. /\ new \in NewPart
      /\ old.k \notin {"letter", "set"} => new = old
      /\ old.k \in {"letter", "set"} => new.k = "set"
  BY <1>1, FoldPartIs
<1>3. CASE old.k \in {"letter", "set"}
  <2>1. parts[i].k \in {"letter", "set"}
    BY <1>3 DEF IsNewPart
  <2>2. old = parts[i]
    BY <2>1 DEF IsNewPart
  <2>3. new = FoldPart(parts[i])
    BY <2>2
  <2>4. ~BackReference(parts, i) /\ parts[i].k # "open" /\ new.k # "open"
    BY <1>2, <1>3, <2>1 DEF BackReference
  <2> HIDE DEF new
  <2> QED BY <1>2, <2>1, <2>3, <2>4 DEF IsNewPart, new
<1>4. CASE old.k \notin {"letter", "set"}
  <2>1. new = old
    BY <1>2, <1>4
  <2>2. parts[i].k \notin {"letter", "set"}
    <3> SUFFICES ASSUME parts[i].k \in {"letter", "set"} PROVE FALSE
      OBVIOUS
    <3>1. old = parts[i]
      BY DEF IsNewPart
    <3> QED BY <1>4, <3>1
  <2> HIDE DEF new
  <2>3. IsNewPart(parts, old, i, offset, TRUE)
    BY <2>2 DEF IsNewPart
  <2> QED BY <2>1, <2>3 DEF new
<1> QED BY <1>3, <1>4

(* A rewritten pattern has the parts of the old one, renumbered, without   *)
(* carets, and folded where needed.                                        *)
LEMMA RewrittenIs ==
  ASSUME NEW re \in Regex, capturedGroupIndex \in Nat
  PROVE  IsRewritten(re, Rewritten(re), capturedGroupIndex, NeedToFoldCase(regexs))
<1> DEFINE parts == re.parts
           n == Len(parts)
           offset == capturedGroupIndex
           r == [i \in DOMAIN parts |-> RenumberPart(parts, i)]
           a == Unanchored(r)
           f == [i \in DOMAIN a |-> FoldPart(a[i])]
           fold == NeedToFoldCase(regexs)
<1>1. parts \in Seq(Part) /\ n \in Nat /\ DOMAIN parts = 1 .. n
  <2>1. parts \in Seq(Part)
    BY DEF Regex
  <2> QED BY <2>1, LenProperties
<1> HIDE DEF n
<1>2. \A i \in 1 .. n : IsNewPart(parts, r[i], i, offset, FALSE)
  <2> TAKE i \in 1 .. n
  <2>1. r[i] = RenumberPart(parts, i) /\ i \in DOMAIN parts
    BY <1>1
  <2>2. IsNewPart(parts, RenumberPart(parts, i), i, offset, FALSE)
    BY <1>1, <2>1, RenumberPartIs, Zenon
  <2> QED BY <2>1, <2>2
<1>3. r \in Seq(NewPart) /\ Len(r) = n /\ DOMAIN r = 1 .. n
  <2>1. \A i \in 1 .. n : RenumberPart(parts, i) \in NewPart
    BY <1>1, <1>2 DEF IsNewPart
  <2>2. r \in [1 .. n -> NewPart]
    BY <1>1, <2>1
  <2> HIDE DEF r
  <2> QED BY <1>1, <2>2, SeqDef, LenProperties
<1> HIDE DEF r
<1>4. /\ a \in Seq(NewPart) /\ Len(a) = n
      /\ \A i \in 1 .. n : a[i] = r[i] \/ (r[i].k = "caret" /\ a[i] = [k |-> "nothing"])
  BY <1>3, UnanchoredIs
<1> HIDE DEF a
<1>5. \A i \in 1 .. n : IsNewPart(parts, a[i], i, offset, FALSE)
  <2> TAKE i \in 1 .. n
  <2> DEFINE ri == r[i]
             ai == a[i]
  <2>1. IsNewPart(parts, ri, i, offset, FALSE)
    BY <1>2
  <2>2. ai = ri \/ (ri.k = "caret" /\ ai = [k |-> "nothing"])
    BY <1>4
  <2> HIDE DEF ri, ai
  <2>3. IsNewPart(parts, ai, i, offset, FALSE)
    BY <2>1, <2>2, CaretGoes
  <2> QED BY <2>3 DEF ai
<1>6. DOMAIN a = 1 .. n
  BY <1>1, <1>4, LenProperties
<1>7. \A i \in 1 .. n : IsNewPart(parts, f[i], i, offset, TRUE)
  <2> TAKE i \in 1 .. n
  <2>1. f[i] = FoldPart(a[i])
    BY <1>6
  <2>2. IsNewPart(parts, FoldPart(a[i]), i, offset, TRUE)
    BY <1>5, PartIsFolded
  <2> QED BY <2>1, <2>2
<1>8. f \in Seq(NewPart) /\ Len(f) = n
  <2>1. f = [i \in 1 .. n |-> f[i]]
    BY <1>6
  <2>2. \A i \in 1 .. n : f[i] \in NewPart
    BY <1>7 DEF IsNewPart
  <2> HIDE DEF f
  <2>3. f \in [1 .. n -> NewPart]
    BY <2>1, <2>2
  <2> QED BY <1>1, <2>3, SeqDef, LenProperties
<1>9. Rewritten(re) = IF re.ignoreCase /\ fold THEN f ELSE a
  BY Zenon DEF Rewritten, f, a, r
<1> HIDE DEF f, fold
<1> HIDE DEF parts
<1>10. CASE re.ignoreCase /\ fold
  <2>1. Rewritten(re) = f /\ (re.ignoreCase /\ fold) = TRUE
    BY <1>9, <1>10
  <2>2. AreNewParts(parts, f, offset, TRUE)
    BY <1>1, <1>7, <1>8 DEF AreNewParts, n
  <2>3. AreNewParts(parts, Rewritten(re), offset, re.ignoreCase /\ fold)
    BY <2>1, <2>2, Zenon
  <2> QED BY <2>3 DEF IsRewritten, fold, parts
<1>11. CASE ~(re.ignoreCase /\ fold)
  <2>1. Rewritten(re) = a /\ (re.ignoreCase /\ fold) = FALSE
    BY <1>9, <1>11
  <2>2. AreNewParts(parts, a, offset, FALSE)
    BY <1>1, <1>4, <1>5 DEF AreNewParts, n
  <2>3. AreNewParts(parts, Rewritten(re), offset, re.ignoreCase /\ fold)
    BY <2>1, <2>2, Zenon
  <2> QED BY <2>3 DEF IsRewritten, fold, parts
<1> QED BY <1>10, <1>11

(* In a rewritten pattern the groups that capture are those that did, to   *)
(* which a reference goes.                                                 *)
LEMMA NewOpens ==
  ASSUME NEW parts \in Seq(Part), NEW new, NEW offset, NEW fold,
         AreNewParts(parts, new, offset, fold), NEW i \in 0 .. Len(parts)
  PROVE  OpensUpTo(new, i) = OpensIn(parts, i, Captured(parts))
<1>1. DOMAIN parts = 1 .. Len(parts) /\ Len(parts) \in Nat
  BY LenProperties
<1>2. \A j \in 1 .. i : j \in DOMAIN parts
  BY <1>1
<1>3. \A j \in 1 .. i : new[j].k = "open" <=>
                          (parts[j].k = "open" /\ GroupIndex(parts, j) \in Captured(parts))
  BY <1>2 DEF AreNewParts, IsNewPart
<1> QED BY <1>3 DEF OpensUpTo, OpensIn

(* The groups that capture are those that are referred to. *)
LEMMA NewGroups ==
  ASSUME NEW parts \in Seq(Part), NEW new, NEW offset, NEW fold,
         AreNewParts(parts, new, offset, fold)
  PROVE  Cardinality(OpensUpTo(new, Len(parts))) = Cardinality(Captured(parts))
<1>1. Len(parts) \in Nat
  BY LenProperties
<1>2. Captured(parts) \subseteq 1 .. GroupIndex(parts, Len(parts))
  BY CapturedAre
<1>3. Len(parts) \in 0 .. Len(parts)
  BY <1>1
<1>4. OpensUpTo(new, Len(parts))
        = OpensIn(parts, Len(parts), Captured(parts))
  BY <1>3, NewOpens
<1> QED BY <1>1, <1>2, <1>4, GroupsCounted

(* Each group of a pattern has a parenthesis that opens it. *)
LEMMA OpenOfIs ==
  ASSUME NEW parts \in Seq(Part), NEW g \in 1 .. GroupIndex(parts, Len(parts))
  PROVE  LET o == OpenOf(parts, g)
         IN  o \in 1 .. Len(parts) /\ parts[o].k = "open" /\ GroupIndex(parts, o) = g
<1>1. DOMAIN parts = 1 .. Len(parts) /\ Len(parts) \in Nat
  BY LenProperties
<1>2. \E i \in DOMAIN parts : parts[i].k = "open" /\ GroupIndex(parts, i) = g
  <2>1. PICK i \in OpensUpTo(parts, Len(parts)) : GroupIndex(parts, i) = g
    BY <1>1, GroupOpened
  <2> QED BY <1>1, <2>1 DEF OpensUpTo
<1>3. /\ OpenOf(parts, g) \in DOMAIN parts
      /\ parts[OpenOf(parts, g)].k = "open" /\ GroupIndex(parts, OpenOf(parts, g)) = g
  BY <1>2, Zenon DEF OpenOf
<1> QED BY <1>1, <1>3

(* The number of a group in a rewritten pattern is its rank among those    *)
(* that capture.                                                           *)
LEMMA NewNumber ==
  ASSUME NEW parts \in Seq(Part), NEW new, NEW offset, NEW fold,
         AreNewParts(parts, new, offset, fold), NEW g \in Captured(parts)
  PROVE  GroupIndex(new, OpenOf(parts, g)) = Cardinality({h \in Captured(parts) : h <= g})
<1> DEFINE o == OpenOf(parts, g)
           T == {h \in Captured(parts) : h <= g}
<1>1. Captured(parts) \subseteq 1 .. GroupIndex(parts, Len(parts))
  BY CapturedAre
<1>2. GroupIndex(parts, Len(parts)) \in Nat /\ Len(parts) \in Nat
  BY OpensAre, LenProperties
<1>3. g \in Nat /\ g \in 1 .. GroupIndex(parts, Len(parts))
  BY <1>1, <1>2
<1>4. o \in 1 .. Len(parts) /\ parts[o].k = "open" /\ GroupIndex(parts, o) = g
  BY <1>3, OpenOfIs
<1> HIDE DEF o
<1>5. o \in Nat /\ o \in 0 .. Len(parts)
  BY <1>2, <1>4
<1>6. T \subseteq 1 .. GroupIndex(parts, o)
  BY <1>1, <1>2, <1>3, <1>4
<1>7. \A j \in OpensUpTo(parts, o) : GroupIndex(parts, j) \in Nat /\ GroupIndex(parts, j) <= g
  <2> TAKE j \in OpensUpTo(parts, o)
  <2>1. j \in Nat /\ (j < o \/ j = o)
    BY <1>5 DEF OpensUpTo
  <2>2. GroupIndex(parts, j) \in Nat
    BY <2>1, OpensAre
  <2>3. CASE j < o
    BY <1>4, <1>5, <2>1, <2>2, <2>3, GroupIndexGrows
  <2> QED BY <1>3, <1>4, <2>1, <2>2, <2>3
<1>8. OpensUpTo(new, o) = OpensIn(parts, o, Captured(parts))
  BY <1>5, NewOpens
<1>9. OpensUpTo(new, o) = OpensIn(parts, o, T)
  BY <1>7, <1>8 DEF OpensIn
<1> HIDE DEF T
<1>10. Cardinality(OpensUpTo(new, o)) = Cardinality(T)
  <2>1. Cardinality(OpensIn(parts, o, T)) = Cardinality(T)
    BY <1>5, <1>6, GroupsCounted
  <2> QED BY <1>9, <2>1
<1>11. GroupIndex(new, o) = Cardinality(OpensUpTo(new, o))
  BY <1>5, OpensAre
<1> QED BY <1>10, <1>11 DEF o, T

-----------------------------------------------------------------------------
(* The groups that the n-th pattern opens, and those of all patterns       *)
(* before                                                                  *)
GroupsOf(n, new) == {<<n, j>> : j \in {j \in DOMAIN new : new[j].k = "open"}}
GroupsIn(all, n) == UNION {GroupsOf(m, all[m]) : m \in 1 .. n - 1}

(* A pattern has as many groups as parentheses that capture. *)
LEMMA GroupsOfAre ==
  ASSUME NEW n, NEW new, NEW size \in Nat, DOMAIN new = 1 .. size
  PROVE  /\ IsFiniteSet(GroupsOf(n, new))
         /\ Cardinality(GroupsOf(n, new)) = Cardinality(OpensUpTo(new, size))
<1> DEFINE S == OpensUpTo(new, size)
           T == GroupsOf(n, new)
           f == [j \in S |-> <<n, j>>]
<1>1. IsFiniteSet(S)
  BY OpensAre
<1>2. T = {<<n, j>> : j \in S}
  BY DEF GroupsOf, OpensUpTo
<1> HIDE DEF S, T
<1>3. f \in Bijection(S, T)
  <2>1. f \in [S -> T]
    BY <1>2
  <2>2. \A a, b \in S : f[a] = f[b] => a = b
    OBVIOUS
  <2>3. \A t \in T : \E j \in S : f[j] = t
    BY <1>2
  <2> HIDE DEF f
  <2> QED BY <2>1, <2>2, <2>3 DEF Bijection, Injection, Surjection, IsInjective
<1>4. ExistsBijection(S, T)
  BY <1>3 DEF ExistsBijection
<1>5. Cardinality(S) = Cardinality(T) /\ IsFiniteSet(T)
  BY <1>1, <1>4, FS_Bijection
<1> QED BY <1>5 DEF S, T

(* One more pattern adds its groups to those before. *)
LEMMA GroupsNext ==
  ASSUME NEW all \in Seq(Seq(NewPart)), NEW new \in Seq(NewPart), NEW size, size = Len(new),
         IsFiniteSet(GroupsIn(all, Len(all) + 1))
  PROVE  LET more == Append(all, new)
             n == Len(all) + 1
         IN  /\ Len(more) = n
             /\ \A m \in 1 .. n : GroupsIn(more, m) = GroupsIn(all, m)
             /\ IsFiniteSet(GroupsIn(more, n + 1))
             /\ Cardinality(GroupsIn(more, n + 1))
                  = Cardinality(GroupsIn(all, n)) + Cardinality(OpensUpTo(new, size))
<1> DEFINE more == Append(all, new)
           n == Len(all) + 1
           A == GroupsIn(all, n)
           B == GroupsOf(n, new)
<1>1. /\ Len(all) \in Nat /\ n \in Nat /\ n >= 1 /\ Len(more) = n /\ more[n] = new
      /\ \A m \in 1 .. Len(all) : more[m] = all[m]
  <2>1. Len(all) \in Nat
    BY LenProperties
  <2> QED BY <2>1, AppendProperties
<1>2. \A m \in 1 .. n - 1 : more[m] = all[m]
  BY <1>1
<1> HIDE DEF more
<1>3. \A m \in 1 .. n : GroupsIn(more, m) = GroupsIn(all, m)
  <2> HIDE DEF n
  <2> TAKE m \in 1 .. n
  <2>1. \A l \in 1 .. m - 1 : l \in 1 .. n - 1
    BY <1>1
  <2>2. \A l \in 1 .. m - 1 : GroupsOf(l, more[l]) = GroupsOf(l, all[l])
    BY <1>2, <2>1
  <2> QED BY <2>2 DEF GroupsIn
<1>4. GroupsIn(more, n + 1) = GroupsIn(more, n) \cup B
  <2> HIDE DEF n
  <2>1. 1 .. (n + 1) - 1 = (1 .. n - 1) \cup {n}
    BY <1>1
  <2> DEFINE G(l) == GroupsOf(l, more[l])
  <2>2. G(n) = B
    BY <1>1
  <2> HIDE DEF G, B
  <2>3. UNION {G(l) : l \in 1 .. (n + 1) - 1} = (UNION {G(l) : l \in 1 .. n - 1}) \cup G(n)
    BY <2>1
  <2> QED BY <2>2, <2>3 DEF GroupsIn, G
<1>5. n \in 1 .. n
  BY <1>1
<1>6. GroupsIn(more, n + 1) = A \cup B
  BY <1>3, <1>4, <1>5
<1>7. size \in Nat /\ DOMAIN new = 1 .. size
  BY LenProperties
<1>8. IsFiniteSet(B) /\ Cardinality(B) = Cardinality(OpensUpTo(new, size))
  BY <1>7, GroupsOfAre
<1>9. A \cap B = {}
  <2> HIDE DEF n
  <2>1. \A m \in 1 .. n - 1 : m # n
    BY <1>1
  <2> QED BY <2>1 DEF GroupsIn, GroupsOf
<1> HIDE DEF A, B
<1>10. IsFiniteSet(A)
  BY DEF A
<1>11. IsFiniteSet(A \cup B) /\ Cardinality(A \cup B) = Cardinality(A) + Cardinality(B)
  <2>1. IsFiniteSet(A \cup B)
        /\ Cardinality(A \cup B) = Cardinality(A) + Cardinality(B) - Cardinality(A \cap B)
    BY <1>8, <1>10, FS_Union
  <2>2. Cardinality(A \cap B) = 0
    BY <1>9, FS_EmptySet
  <2>3. Cardinality(A) \in Nat /\ Cardinality(B) \in Nat
    BY <1>8, <1>10, FS_CardinalityType
  <2> QED BY <2>1, <2>2, <2>3
<1> QED BY <1>1, <1>3, <1>6, <1>8, <1>11 DEF more, A

(* Inductive: each alternative is its regex rewritten with as many groups  *)
(* before as the alternatives before it have, and capturedGroupIndex is    *)
(* the number of groups of all of them.                                    *)
PatternInv ==
  /\ regexs \in Seq(Regex) /\ rewritten \in Seq(Seq(NewPart))
  /\ Len(rewritten) <= Len(regexs)
  /\ \A n \in 1 .. Len(rewritten) :
       IsRewritten(regexs[n], rewritten[n], Cardinality(GroupsIn(rewritten, n)),
                   NeedToFoldCase(regexs))
  /\ IsFiniteSet(GroupsIn(rewritten, Len(rewritten) + 1))
  /\ capturedGroupIndex = Cardinality(GroupsIn(rewritten, Len(rewritten) + 1))

(* Without a pattern there are no groups. *)
LEMMA NoGroups ==
  IsFiniteSet(GroupsIn(<<>>, 1)) /\ Cardinality(GroupsIn(<<>>, 1)) = 0
<1>1. GroupsIn(<<>>, 1) = {}
  BY DEF GroupsIn
<1> QED BY <1>1, FS_EmptySet

(* PatternInv holds when a combination begins. *)
LEMMA PatternInvInit ==
  ASSUME regexs \in Seq(Regex), capturedGroupIndex = 0, rewritten = <<>>
  PROVE  PatternInv
<1>1. Len(rewritten) = 0 /\ rewritten \in Seq(Seq(NewPart)) /\ Len(regexs) \in Nat
      /\ Len(rewritten) + 1 = 1
  <2>1. Len(regexs) \in Nat
    BY LenProperties
  <2> QED BY <2>1
<1>2. 0 <= Len(regexs)
  BY <1>1
<1>3. GroupsIn(rewritten, Len(rewritten) + 1) = GroupsIn(<<>>, 1)
  BY <1>1
<1>4. \A n \in 1 .. Len(rewritten) : FALSE
  BY <1>1
<1> QED BY <1>1, <1>2, <1>3, <1>4, NoGroups DEF PatternInv

(* PatternInv holds when another combination begins. *)
LEMMA PatternInvAgain ==
  ASSUME regexs' \in Seq(Regex), capturedGroupIndex' = 0, rewritten' = <<>>
  PROVE  PatternInv'
<1>1. Len(rewritten') = 0 /\ rewritten' \in Seq(Seq(NewPart)) /\ Len(regexs') \in Nat
      /\ Len(rewritten') + 1 = 1
  <2>1. Len(regexs') \in Nat
    BY LenProperties
  <2> QED BY <2>1
<1>2. 0 <= Len(regexs')
  BY <1>1
<1>3. GroupsIn(rewritten', Len(rewritten') + 1) = GroupsIn(<<>>, 1)
  BY <1>1
<1>4. \A n \in 1 .. Len(rewritten') : FALSE
  BY <1>1
<1> QED BY <1>1, <1>2, <1>3, <1>4, NoGroups DEF PatternInv

(* PatternInv after one more pattern was rewritten. *)
LEMMA RewriteNextKeeps == PatternInv /\ RewriteNext => PatternInv'
<1> SUFFICES ASSUME PatternInv, RewriteNext PROVE PatternInv'
  OBVIOUS
<1> DEFINE k == Len(rewritten) + 1
           re == regexs[k]
           parts == re.parts
           new == Rewritten(re)
           size == Len(parts)
           offset == capturedGroupIndex
           fold == NeedToFoldCase(regexs)
<1>1. /\ regexs \in Seq(Regex) /\ rewritten \in Seq(Seq(NewPart))
      /\ IsFiniteSet(GroupsIn(rewritten, k)) /\ offset = Cardinality(GroupsIn(rewritten, k))
  BY DEF PatternInv
<1>2. /\ Len(rewritten) < Len(regexs) /\ regexs' = regexs
      /\ rewritten' = Append(rewritten, new)
      /\ capturedGroupIndex' = offset + Cardinality(Captured(parts))
  BY DEF RewriteNext, Combining, Next1
<1>3. Len(rewritten) \in Nat /\ Len(regexs) \in Nat /\ k \in 1 .. Len(regexs) /\ k \in Nat
      /\ Len(rewritten) = k - 1
  <2>1. Len(rewritten) \in Nat /\ Len(regexs) \in Nat
    BY <1>1, LenProperties
  <2> QED BY <1>2, <2>1
<1>4. re \in Regex /\ offset \in Nat
  <2>1. re \in Regex
    BY <1>1, <1>3, ElementOfSeq
  <2> QED BY <1>1, <2>1, FS_CardinalityType
<1> HIDE DEF k
<1>5. IsRewritten(re, new, offset, fold)
  BY <1>4, RewrittenIs
<1> HIDE DEF re, new
<1>6. parts \in Seq(Part) /\ AreNewParts(parts, new, offset, re.ignoreCase /\ fold)
  <2>1. parts \in Seq(Part)
    BY <1>4 DEF Regex
  <2> QED BY <1>5, <2>1 DEF IsRewritten
<1>7. new \in Seq(NewPart) /\ Len(new) = size
  BY <1>6 DEF AreNewParts
<1>8. Cardinality(OpensUpTo(new, size)) = Cardinality(Captured(parts))
  BY <1>6, NewGroups
<1>9. /\ Len(rewritten') = k
      /\ \A m \in 1 .. k : GroupsIn(rewritten', m) = GroupsIn(rewritten, m)
      /\ IsFiniteSet(GroupsIn(rewritten', k + 1))
      /\ Cardinality(GroupsIn(rewritten', k + 1))
           = Cardinality(GroupsIn(rewritten, k)) + Cardinality(OpensUpTo(new, size))
  <2>1. size = Len(new) /\ IsFiniteSet(GroupsIn(rewritten, Len(rewritten) + 1))
    BY <1>1, <1>7 DEF k
  <2>2. LET more == Append(rewritten, new)
            n == Len(rewritten) + 1
        IN  /\ Len(more) = n
            /\ \A m \in 1 .. n : GroupsIn(more, m) = GroupsIn(rewritten, m)
            /\ IsFiniteSet(GroupsIn(more, n + 1))
            /\ Cardinality(GroupsIn(more, n + 1))
                 = Cardinality(GroupsIn(rewritten, n)) + Cardinality(OpensUpTo(new, size))
    BY <1>1, <1>7, <2>1, GroupsNext
  <2> QED BY <1>2, <2>2 DEF k
<1>10. /\ rewritten' \in Seq(Seq(NewPart)) /\ rewritten'[k] = new
       /\ \A n \in 1 .. Len(rewritten) : rewritten'[n] = rewritten[n]
  <2>1. k = Len(rewritten) + 1
    BY DEF k
  <2> QED BY <1>1, <1>2, <1>7, <2>1, AppendProperties
<1>11. ASSUME NEW n \in 1 .. k
       PROVE  IsRewritten(regexs[n], rewritten'[n], Cardinality(GroupsIn(rewritten', n)), fold)
  <2>1. GroupsIn(rewritten', n) = GroupsIn(rewritten, n)
    BY <1>9
  <2>2. CASE n = k
    <3>1. IsRewritten(re, new, Cardinality(GroupsIn(rewritten, k)), fold)
      BY <1>1, <1>5
    <3> QED BY <1>10, <2>1, <2>2, <3>1 DEF re
  <2>3. CASE n # k
    <3>1. n \in 1 .. Len(rewritten)
      BY <1>3, <2>3
    <3>2. IsRewritten(regexs[n], rewritten[n], Cardinality(GroupsIn(rewritten, n)), fold)
      BY <3>1 DEF PatternInv
    <3>3. rewritten'[n] = rewritten[n]
      BY <1>10, <3>1
    <3> QED BY <2>1, <3>2, <3>3
  <2> QED BY <2>2, <2>3
<1>12. NeedToFoldCase(regexs') = fold
  BY <1>2
<1>13. k <= Len(regexs)
  BY <1>3
<1> HIDE DEF fold
<1>14. capturedGroupIndex' = Cardinality(GroupsIn(rewritten', k + 1))
  BY <1>1, <1>2, <1>8, <1>9
<1>15. \A n \in 1 .. Len(rewritten') :
         IsRewritten(regexs'[n], rewritten'[n], Cardinality(GroupsIn(rewritten', n)),
                     NeedToFoldCase(regexs'))
  BY <1>2, <1>9, <1>11, <1>12
<1>16. /\ regexs' \in Seq(Regex) /\ Len(rewritten') <= Len(regexs')
       /\ Len(rewritten') + 1 = k + 1
  BY <1>1, <1>2, <1>9, <1>13
<1> QED BY <1>9, <1>10, <1>14, <1>15, <1>16 DEF PatternInv

(* What PatternInv says of a part of a rewritten pattern. *)
LEMMA RewrittenPart ==
  ASSUME PatternInv, NEW n \in DOMAIN rewritten, NEW i \in DOMAIN regexs[n].parts
  PROVE  /\ n \in 1 .. Len(regexs) /\ regexs[n] \in Regex /\ regexs[n].parts \in Seq(Part)
         /\ AreNewParts(regexs[n].parts, rewritten[n], Cardinality(GroupsIn(rewritten, n)),
                        regexs[n].ignoreCase /\ NeedToFoldCase(regexs))
         /\ IsNewPart(regexs[n].parts, rewritten[n][i], i, Cardinality(GroupsIn(rewritten, n)),
                      regexs[n].ignoreCase /\ NeedToFoldCase(regexs))
<1>1. /\ regexs \in Seq(Regex) /\ rewritten \in Seq(Seq(NewPart))
      /\ Len(rewritten) <= Len(regexs)
  BY DEF PatternInv
<1>2. n \in 1 .. Len(rewritten) /\ n \in 1 .. Len(regexs)
  <2>1. Len(rewritten) \in Nat /\ Len(regexs) \in Nat /\ n \in 1 .. Len(rewritten)
    BY <1>1, LenProperties
  <2> QED BY <1>1, <2>1
<1>3. regexs[n] \in Regex
  BY <1>1, <1>2, ElementOfSeq
<1>4. regexs[n].parts \in Seq(Part)
  BY <1>3 DEF Regex
<1>5. IsRewritten(regexs[n], rewritten[n], Cardinality(GroupsIn(rewritten, n)),
                  NeedToFoldCase(regexs))
  BY <1>2 DEF PatternInv
<1>6. AreNewParts(regexs[n].parts, rewritten[n], Cardinality(GroupsIn(rewritten, n)),
                  regexs[n].ignoreCase /\ NeedToFoldCase(regexs))
  BY <1>5, Zenon DEF IsRewritten
<1> QED BY <1>2, <1>3, <1>4, <1>6, Zenon DEF AreNewParts

(* PatternInv implies that each reference goes to the group that it went   *)
(* to.                                                                     *)
LEMMA GroupsAreKept == PatternInv => GroupsKept
<1> SUFFICES ASSUME PatternInv, NEW n \in DOMAIN rewritten, NEW i \in DOMAIN regexs[n].parts,
                    BackReference(regexs[n].parts, i), RefersToLast(regexs[n].parts, i)
             PROVE  rewritten[n][i].number = NumberOf(n, regexs[n].parts[i].number)
  BY DEF GroupsKept
<1> DEFINE parts == regexs[n].parts
           new == rewritten[n]
           offset == Cardinality(GroupsIn(rewritten, n))
           fold == regexs[n].ignoreCase /\ NeedToFoldCase(regexs)
           g == parts[i].number
<1>1. parts \in Seq(Part) /\ AreNewParts(parts, new, offset, fold)
  BY RewrittenPart
<1>2. IsNewPart(parts, new[i], i, offset, fold)
  BY RewrittenPart
<1>3. g = GroupIndex(parts, i) /\ g \in Captured(parts)
  BY DEF RefersToLast, Captured
<1>4. GroupsIn(rewritten, n) = GroupsBefore(n)
  BY DEF GroupsIn, GroupsOf, GroupsBefore
<1>5. new[i].number = offset + Cardinality({h \in Captured(parts) : h <= g})
  BY <1>2, <1>3 DEF IsNewPart
<1>6. GroupIndex(new, OpenOf(parts, g)) = Cardinality({h \in Captured(parts) : h <= g})
  <2> HIDE DEF parts, new, offset, fold, g
  <2> QED BY <1>1, <1>3, NewNumber
<1> QED BY <1>4, <1>5, <1>6 DEF NumberOf

(* The flag i of the combined pattern: without folding, all patterns with  *)
(* letters agree on it.                                                    *)
LEMMA FlagIs ==
  ASSUME NEW n \in 1 .. Len(regexs), regexs \in Seq(Regex)
  PROVE  /\ NeedToFoldCase(regexs) => IgnoreCase(regexs) = FALSE
         /\ ~NeedToFoldCase(regexs) /\ regexs[n].ignoreCase => IgnoreCase(regexs) = TRUE
         /\ ~NeedToFoldCase(regexs) /\ ~regexs[n].ignoreCase => ~HasLetters(regexs[n])
         /\ IgnoreCase(regexs) \in BOOLEAN
<1>1. regexs[n] \in Range(regexs)
  BY DEF Range
<1> QED BY <1>1 DEF NeedToFoldCase, IgnoreCase

(* PatternInv implies that each part matches what it matched. *)
LEMMA CaseIsKept == PatternInv => CaseKept
<1> SUFFICES ASSUME PatternInv, NEW n \in DOMAIN rewritten, NEW i \in DOMAIN regexs[n].parts,
                    regexs[n].parts[i].k \in {"letter", "escape", "set"},
                    ~Misread(regexs[n], regexs[n].parts[i]), NEW c \in 32 .. 126
             PROVE  Matches(rewritten[n][i], c, IgnoreCase(regexs))
                      = Matches(regexs[n].parts[i], c, regexs[n].ignoreCase)
  BY DEF CaseKept
<1> DEFINE re == regexs[n]
           part == re.parts[i]
           new == rewritten[n][i]
           fold == NeedToFoldCase(regexs)
           flag == IgnoreCase(regexs)
<1>1. regexs \in Seq(Regex) /\ n \in 1 .. Len(regexs) /\ re \in Regex /\ re.parts \in Seq(Part)
  BY RewrittenPart DEF PatternInv
<1>2. IsNewPart(re.parts, new, i, Cardinality(GroupsIn(rewritten, n)), re.ignoreCase /\ fold)
  BY RewrittenPart
<1>0. CASE part.k = "escape"
  <2>1. new = part
    BY <1>0, <1>2, Zenon DEF IsNewPart
  <2>2. re.ignoreCase = flag
    BY <1>0 DEF Misread
  <2> QED BY <2>1, <2>2, Zenon
<1> SUFFICES ASSUME part.k # "escape"
             PROVE  Matches(new, c, flag) = Matches(part, c, re.ignoreCase)
  BY <1>0
<1>3. new = IF re.ignoreCase /\ fold THEN FoldPart(part) ELSE part
  BY <1>2, Zenon DEF IsNewPart
<1>4. part \in Part /\ c \in Int /\ re.ignoreCase \in BOOLEAN
  <2>1. part \in Part
    BY <1>1, ElementOfSeq
  <2>2. re.ignoreCase \in BOOLEAN
    BY <1>1 DEF Regex
  <2> QED BY <2>1, <2>2
<1>5. /\ fold => flag = FALSE
      /\ ~fold /\ re.ignoreCase => flag = TRUE
      /\ ~fold /\ ~re.ignoreCase => ~HasLetters(re)
      /\ flag \in BOOLEAN
  BY <1>1, FlagIs
<1>6. /\ re \in Regex /\ i \in DOMAIN re.parts /\ part.k \in {"letter", "set"}
      /\ ~Misread(re, part)
  BY <1>1
<1>7. CASE re.ignoreCase /\ fold
  <2>1. new = FoldPart(part) /\ flag = FALSE /\ re.ignoreCase = TRUE
    BY <1>3, <1>4, <1>5, <1>7
  <2>2. Matches(FoldPart(part), c, FALSE) = Matches(part, c, TRUE)
    BY <1>4, <1>6, FoldMatches
  <2> QED BY <2>1, <2>2, Zenon
<1>8. CASE re.ignoreCase /\ ~fold
  <2>1. new = part /\ flag = TRUE /\ re.ignoreCase = TRUE
    BY <1>3, <1>4, <1>5, <1>8
  <2> QED BY <2>1, Zenon
<1>9. CASE ~re.ignoreCase /\ fold
  <2>1. new = part /\ flag = FALSE /\ re.ignoreCase = FALSE
    BY <1>3, <1>4, <1>5, <1>9
  <2> QED BY <2>1, Zenon
<1>10. CASE ~re.ignoreCase /\ ~fold
  <2>1. new = part /\ flag \in BOOLEAN /\ re.ignoreCase = FALSE /\ ~HasLetters(re)
    BY <1>3, <1>4, <1>5, <1>10
  <2>2. Matches(part, c, TRUE) = Matches(part, c, FALSE)
    BY <1>4, <1>6, <1>10, <2>1, CaseIndifferent
  <2>3. CASE flag = TRUE
    BY <2>1, <2>2, <2>3, Zenon
  <2>4. CASE flag = FALSE
    BY <2>1, <2>4, Zenon
  <2> QED BY <2>1, <2>3, <2>4
<1> QED BY <1>7, <1>8, <1>9, <1>10

(* PatternInv implies PatternsUnite. *)
LEMMA PatternsAre == PatternInv => PatternsUnite
BY GroupsAreKept, CaseIsKept DEF PatternsUnite

(* The lists of patterns that are combined are sequences of patterns. *)
LEMMA PatternsType == PatternLists \subseteq Seq(Regex)
BY PatternAssumption

(* combinePrefixPatterns, for all lists of patterns: PatternInv is an      *)
(* invariant.                                                              *)
THEOREM Rewriting == HighlightSpec => []PatternInv
<1>1. HighlightInit => PatternInv
  <2> SUFFICES ASSUME HighlightInit PROVE PatternInv
    OBVIOUS
  <2>1. regexs \in Seq(Regex) /\ capturedGroupIndex = 0 /\ rewritten = <<>>
    BY DEF HighlightInit, NotCombining
  <2> QED BY <2>1, PatternInvInit
<1>2. PatternInv /\ [HighlightNext]_<<highlightVars, patternVars>> => PatternInv'
  <2> SUFFICES ASSUME PatternInv, [HighlightNext]_<<highlightVars, patternVars>>
               PROVE  PatternInv'
    OBVIOUS
  <2>1. ASSUME NEW list \in PatternLists, Combine(list)
        PROVE  PatternInv'
    <3>1. regexs' \in Seq(Regex) /\ capturedGroupIndex' = 0 /\ rewritten' = <<>>
      BY <2>1, PatternsType DEF Combine
    <3> QED BY <3>1, PatternInvAgain
  <2>2. CASE RewriteNext
    BY <2>2, RewriteNextKeeps
  <2>3. CASE Combined
    <3>1. regexs' \in Seq(Regex) /\ capturedGroupIndex' = 0 /\ rewritten' = <<>>
      BY <2>3 DEF Combined
    <3> QED BY <3>1, PatternInvAgain
  <2>4. CASE UNCHANGED patternVars
    <3>1. regexs' = regexs /\ rewritten' = rewritten /\ capturedGroupIndex' = capturedGroupIndex
      BY <2>4 DEF patternVars
    <3> QED BY <3>1 DEF PatternInv
  <2> QED BY <2>1, <2>2, <2>3, <2>4 DEF HighlightNext, LoadScript
<1> QED BY <1>1, <1>2, PTL DEF HighlightSpec

(* A combined pattern matches what each of its patterns did, and each      *)
(* reference goes to the group it went to (PatternsUnite), for all lists   *)
(* of patterns.                                                            *)
THEOREM PatternsAreUnited == HighlightSpec => []PatternsUnite
BY Rewriting, PatternsAre, PTL

=============================================================================
