------------------------- MODULE FeignClient_proofs -------------------------
(***************************************************************************)
(* FeignClient for any clients, methods and messages, however their URLs   *)
(* and paths are spelled: what a request's URL is.  Its parts are put      *)
(* together with FlattenSeq, of which the first lemmas say what it does.   *)
(***************************************************************************)
EXTENDS FeignClient, SequenceTheorems, WellFoundedInduction, TLAPS

(* Some numbers, if there are any, have a least one. *)
LEMMA LeastNumber ==
  ASSUME NEW T, T \subseteq Nat, T # {}
  PROVE  \E d \in T : \A e \in T : ~(e < d)
<1> DEFINE less == OpToRel(<, Nat)
<1>1. IsWellFoundedOn(less, Nat)
  BY NatLessThanWellFounded
<1>2. \A e, d \in Nat : e < d => <<e, d>> \in less
  BY DEF OpToRel
<1> HIDE DEF less
<1>3. \E d \in T : \A e \in T : ~(<<e, d>> \in less)
  BY <1>1, WFMin, Zenon
<1> QED
  BY <1>2, <1>3

(* A set that has the empty sequence, and with a sequence all that are one *)
(* longer, has every sequence.                                             *)
LEMMA EverySequence ==
  ASSUME NEW S, NEW P, <<>> \in P,
         \A u \in Seq(S) \cap P, x \in S : Append(u, x) \in P
  PROVE  Seq(S) \subseteq P
<1> SUFFICES ASSUME NEW u \in Seq(S), u \notin P PROVE FALSE
  OBVIOUS
<1> DEFINE T == {Len(v) : v \in Seq(S) \ P}
<1>1. T \subseteq Nat /\ Len(u) \in T
  BY LenProperties
<1>2. PICK d \in T : \A e \in T : ~(e < d)
  <2> HIDE DEF T
  <2> QED BY <1>1, LeastNumber
<1>3. PICK v \in Seq(S) \ P : Len(v) = d
  OBVIOUS
<1>4. v # <<>>
  BY <1>3
<1>5. PICK f \in Seq(S), y \in S : v = Append(f, y)
  BY <1>3, <1>4, SequenceEmptyOrAppend
<1>6. Len(v) = Len(f) + 1 /\ Len(f) \in Nat
  BY <1>5, AppendProperties, LenProperties
<1>7. Len(f) \notin T
  <2>1. Len(f) < d /\ d \in Nat
    BY <1>1, <1>3, <1>6
  <2> HIDE DEF T
  <2> QED
    BY <1>2, <2>1
<1> QED
  BY <1>3, <1>5, <1>7

-----------------------------------------------------------------------------
(* FlattenSeq as it is defined, for a sequence that is not empty. *)
Flattens(f, s) == f = [i \in 1 .. Len(s) |-> IF i = 1 THEN s[i] ELSE f[i - 1] \o s[i]]

LEMMA FlattenExists ==
  ASSUME NEW S, NEW s \in Seq(Seq(S))
  PROVE  \E f : Flattens(f, s)
<1> DEFINE P == {t \in Seq(Seq(S)) : \E f : Flattens(f, t)}
<1>1. <<>> \in P
  <2> DEFINE f == [i \in 1 .. Len(<<>>) |-> <<>>]
  <2>1. Flattens(f, <<>>)
    BY DEF Flattens
  <2> QED BY <2>1
<1>2. ASSUME NEW t \in Seq(Seq(S)) \cap P, NEW x \in Seq(S)
      PROVE  Append(t, x) \in P
  <2>1. PICK f : Flattens(f, t)
    OBVIOUS
  <2> DEFINE n == Len(t)
             y == IF n = 0 THEN x ELSE f[n] \o x
             g == [i \in 1 .. n + 1 |-> IF i = n + 1 THEN y ELSE f[i]]
             r == Append(t, x)
  <2>2. n \in Nat /\ Len(r) = n + 1 /\ r[n + 1] = x /\ \A i \in 1 .. n : r[i] = t[i]
    OBVIOUS
  <2>3. \A i \in 1 .. n + 1 : g[i] = IF i = 1 THEN r[i] ELSE g[i - 1] \o r[i]
    <3> SUFFICES ASSUME NEW i \in 1 .. n + 1
                 PROVE  g[i] = IF i = 1 THEN r[i] ELSE g[i - 1] \o r[i]
      OBVIOUS
    <3>1. CASE i = n + 1
      BY <3>1, <2>2
    <3>2. CASE i # n + 1
      <4>1. i \in 1 .. n /\ (i # 1 => i - 1 \in 1 .. n)
        BY <3>2, <2>2
      <4>2. f[i] = IF i = 1 THEN t[i] ELSE f[i - 1] \o t[i]
        BY <4>1, <2>1 DEF Flattens
      <4>3. g[i] = f[i] /\ (i # 1 => g[i - 1] = f[i - 1])
        BY <4>1, <2>2
      <4> QED BY <4>1, <4>2, <4>3, <2>2
    <3> QED BY <3>1, <3>2
  <2>4. g = [i \in 1 .. Len(r) |-> IF i = 1 THEN r[i] ELSE g[i - 1] \o r[i]]
    <3> DEFINE h == [i \in 1 .. Len(r) |-> IF i = 1 THEN r[i] ELSE g[i - 1] \o r[i]]
    <3>1. DOMAIN g = 1 .. n + 1 /\ DOMAIN h = 1 .. n + 1
      BY <2>2
    <3>2. \A i \in 1 .. n + 1 : g[i] = h[i]
      BY <2>2, <2>3
    <3>3. g = [i \in DOMAIN g |-> g[i]] /\ h = [i \in DOMAIN h |-> h[i]]
      OBVIOUS
    <3> HIDE DEF g, h
    <3>4. g = h
      BY <3>1, <3>2, <3>3
    <3> QED BY <3>4 DEF h
  <2>5. Flattens(g, r)
    <3> HIDE DEF g
    <3> QED BY <2>4 DEF Flattens
  <2> HIDE DEF g
  <2> QED BY <2>5
<1> HIDE DEF P
<1>3. Seq(Seq(S)) \subseteq P
  BY <1>1, <1>2, EverySequence
<1> QED
  BY <1>3 DEF P

(* Its last value is a sequence, and one longer goes on where s ends. *)
LEMMA FlattenValues ==
  ASSUME NEW S, NEW s \in Seq(Seq(S)), NEW f, Flattens(f, s)
  PROVE  \A i \in 1 .. Len(s) : f[i] \in Seq(S)
<1> DEFINE T == {i \in 1 .. Len(s) : f[i] \notin Seq(S)}
<1> SUFFICES ASSUME T # {} PROVE FALSE
  OBVIOUS
<1>1. PICK d \in T : \A e \in T : ~(e < d)
  <2>1. T \subseteq Nat
    OBVIOUS
  <2> HIDE DEF T
  <2> QED BY <2>1, LeastNumber
<1>2. f[d] = IF d = 1 THEN s[d] ELSE f[d - 1] \o s[d]
  BY DEF Flattens
<1>3. d \in 1 .. Len(s) /\ f[d] \notin Seq(S) /\ d - 1 \notin T /\ s[d] \in Seq(S)
  BY <1>1
<1>4. d # 1 => f[d - 1] \in Seq(S)
  <2>1. d # 1 => d - 1 \in 1 .. Len(s)
    BY <1>3, LenProperties
  <2> QED
    BY <1>3, <2>1
<1> QED
  BY <1>2, <1>3, <1>4, ConcatProperties

LEMMA FlattenAgrees ==
  ASSUME NEW S, NEW s \in Seq(Seq(S)), NEW x \in Seq(S),
         NEW f, Flattens(f, s), NEW g, Flattens(g, Append(s, x))
  PROVE  /\ \A i \in 1 .. Len(s) : g[i] = f[i]
         /\ g[Len(s) + 1] = IF Len(s) = 0 THEN x ELSE f[Len(s)] \o x
<1> DEFINE r == Append(s, x)
           T == {i \in 1 .. Len(s) : g[i] # f[i]}
<1>0. /\ Len(s) \in Nat /\ Len(r) = Len(s) + 1 /\ r[Len(s) + 1] = x
      /\ \A i \in 1 .. Len(s) : r[i] = s[i]
  OBVIOUS
<1>1. \A i \in 1 .. Len(s) + 1 : g[i] = IF i = 1 THEN r[i] ELSE g[i - 1] \o r[i]
  BY <1>0 DEF Flattens
<1>2. \A i \in 1 .. Len(s) : f[i] = IF i = 1 THEN s[i] ELSE f[i - 1] \o s[i]
  BY DEF Flattens
<1> HIDE DEF r
<1>3. T = {}
  <2> SUFFICES ASSUME T # {} PROVE FALSE
    OBVIOUS
  <2>1. PICK d \in T : \A e \in T : ~(e < d)
    <3>1. T \subseteq Nat
      OBVIOUS
    <3> HIDE DEF T
    <3> QED BY <3>1, LeastNumber
  <2>2. d # 1 => g[d - 1] = f[d - 1]
    BY <2>1
  <2>3. d \in 1 .. Len(s) + 1 /\ d \in 1 .. Len(s)
    BY <1>0
  <2> QED BY <1>0, <1>1, <1>2, <2>2, <2>3
<1>4. g[Len(s) + 1] = IF Len(s) = 0 THEN x ELSE g[Len(s)] \o x
  BY <1>0, <1>1
<1>5. Len(s) # 0 => Len(s) \in 1 .. Len(s)
  BY <1>0
<1>6. \A i \in 1 .. Len(s) : g[i] = f[i]
  BY <1>3
<1> QED
  BY <1>4, <1>5, <1>6

LEMMA FlattenEmpty == FlattenSeq(<<>>) = <<>>
BY DEF FlattenSeq

LEMMA FlattenIs ==
  ASSUME NEW s, Len(s) # 0
  PROVE  FlattenSeq(s) = (CHOOSE f : Flattens(f, s))[Len(s)]
BY DEF FlattenSeq, Flattens

(* FlattenSeq puts what is appended behind the rest. *)
LEMMA FlattenAppend ==
  ASSUME NEW S, NEW s \in Seq(Seq(S)), NEW x \in Seq(S)
  PROVE  /\ FlattenSeq(s) \in Seq(S)
         /\ FlattenSeq(Append(s, x)) = FlattenSeq(s) \o x
<1> DEFINE f == CHOOSE f : Flattens(f, s)
           g == CHOOSE g : Flattens(g, Append(s, x))
<1>1. Append(s, x) \in Seq(Seq(S)) /\ Len(Append(s, x)) = Len(s) + 1 /\ Len(s) \in Nat
  OBVIOUS
<1>2. Flattens(f, s) /\ Flattens(g, Append(s, x))
  BY <1>1, FlattenExists
<1> HIDE DEF f, g
<1>3. FlattenSeq(Append(s, x)) = g[Len(s) + 1]
  <2>1. FlattenSeq(Append(s, x)) = g[Len(Append(s, x))]
    <3>1. Len(Append(s, x)) # 0
      BY <1>1
    <3> QED
      BY <3>1, FlattenIs DEF g
  <2> QED
    BY <1>1, <2>1
<1>4. g[Len(s) + 1] = IF Len(s) = 0 THEN x ELSE f[Len(s)] \o x
  BY <1>2, FlattenAgrees
<1>5. CASE Len(s) = 0
  <2>1. s = <<>>
    BY <1>5, EmptySeq
  <2>2. FlattenSeq(s) = <<>> /\ <<>> \in Seq(S) /\ <<>> \o x = x
    BY <2>1, FlattenEmpty, EmptySeq, ConcatEmptySeq
  <2> QED BY <1>3, <1>4, <1>5, <2>2
<1>6. CASE Len(s) # 0
  <2>1. FlattenSeq(s) = f[Len(s)]
    BY <1>6, FlattenIs DEF f
  <2>2. f[Len(s)] \in Seq(S)
    BY <1>1, <1>2, <1>6, FlattenValues
  <2> QED BY <1>3, <1>4, <1>6, <2>1, <2>2
<1> QED
  BY <1>5, <1>6

-----------------------------------------------------------------------------
(* What Words and Format do: each token becomes a sequence. *)
Mapped(e, u) == FlattenSeq([i \in 1 .. Len(u) |-> e[u[i]]])

LEMMA MappedEmpty ==
  ASSUME NEW e PROVE Mapped(e, <<>>) = <<>>
<1>1. [i \in 1 .. Len(<<>>) |-> e[<<>>[i]]] = <<>>
  OBVIOUS
<1> QED
  BY <1>1, FlattenEmpty DEF Mapped

LEMMA MappedAppend ==
  ASSUME NEW e \in [Token -> Seq(Token)], NEW u \in Seq(Token), NEW x \in Token
  PROVE  /\ Mapped(e, u) \in Seq(Token)
         /\ Mapped(e, Append(u, x)) = Mapped(e, u) \o e[x]
<1> DEFINE r == Append(u, x)
           s == [i \in 1 .. Len(u) |-> e[u[i]]]
           t == [i \in 1 .. Len(r) |-> e[r[i]]]
<1>1. e[x] \in Seq(Token)
  OBVIOUS
<1>2. /\ Len(u) \in Nat /\ Len(r) = Len(u) + 1 /\ r[Len(u) + 1] = x
      /\ \A i \in 1 .. Len(u) : r[i] = u[i] /\ u[i] \in Token
  BY LenProperties, AppendProperties, ElementOfSeq
<1>3. s \in Seq(Seq(Token)) /\ Len(s) = Len(u) /\ \A i \in 1 .. Len(u) : s[i] = e[u[i]]
  BY <1>2
<1>4. t = Append(s, e[x])
  <2>1. t \in Seq(Seq(Token)) /\ Len(t) = Len(u) + 1
        /\ \A i \in 1 .. Len(u) + 1 : t[i] = e[r[i]]
    <3>1. \A i \in 1 .. Len(r) : r[i] \in Token
      BY <1>2
    <3> HIDE DEF r
    <3> QED BY <1>2, <3>1
  <2> HIDE DEF s, t
  <2>2. /\ Append(s, e[x]) \in Seq(Seq(Token))
        /\ Len(Append(s, e[x])) = Len(u) + 1
        /\ \A i \in 1 .. Len(u) : Append(s, e[x])[i] = s[i]
        /\ Append(s, e[x])[Len(u) + 1] = e[x]
    BY <1>1, <1>3, AppendProperties
  <2>3. \A i \in 1 .. Len(u) + 1 : t[i] = Append(s, e[x])[i]
    <3> HIDE DEF r
    <3> SUFFICES ASSUME NEW i \in 1 .. Len(u) + 1 PROVE t[i] = Append(s, e[x])[i]
      OBVIOUS
    <3>1. t[i] = e[r[i]]
      BY <2>1
    <3>2. CASE i = Len(u) + 1
      BY <1>2, <2>2, <3>1, <3>2
    <3>3. CASE i # Len(u) + 1
      <4>1. i \in 1 .. Len(u)
        BY <1>2, <3>3
      <4> QED BY <1>2, <1>3, <2>2, <3>1, <4>1
    <3> QED BY <3>2, <3>3
  <2>4. Len(Append(s, e[x])) = Len(t) /\ \A i \in 1 .. Len(t) : t[i] = Append(s, e[x])[i]
    BY <2>1, <2>2, <2>3
  <2> QED BY <2>1, <2>2, <2>4, SeqEqual
<1>5. Mapped(e, u) = FlattenSeq(s) /\ Mapped(e, r) = FlattenSeq(t)
  BY DEF Mapped
<1> HIDE DEF s, t
<1> QED
  BY <1>1, <1>3, <1>4, <1>5, FlattenAppend

LEMMA MappedType ==
  ASSUME NEW e \in [Token -> Seq(Token)], NEW u \in Seq(Token)
  PROVE  Mapped(e, u) \in Seq(Token)
<1>1. PICK x \in Token : TRUE
  BY FeignAssumption DEF Separator
<1> QED
  BY <1>1, MappedAppend

(* It is stated of three sequences by name, to be cited for these only. *)
Regroups(s, t, u) == (s \o t) \o u = s \o (t \o u)

LEMMA Regrouped ==
  ASSUME NEW s \in Seq(Token), NEW t \in Seq(Token), NEW u \in Seq(Token)
  PROVE  Regroups(s, t, u)
BY ConcatAssociative DEF Regroups

LEMMA MappedConcat ==
  ASSUME NEW e \in [Token -> Seq(Token)], NEW u \in Seq(Token), NEW v \in Seq(Token)
  PROVE  Mapped(e, u \o v) = Mapped(e, u) \o Mapped(e, v)
<1> DEFINE P == {t \in Seq(Token) : Mapped(e, u \o t) = Mapped(e, u) \o Mapped(e, t)}
<1>0. Mapped(e, u) \in Seq(Token)
  BY MappedType
<1>1. <<>> \in P
  <2>1. u \o <<>> = u /\ Mapped(e, u) \o <<>> = Mapped(e, u) /\ <<>> \in Seq(Token)
    BY <1>0, EmptySeq, ConcatEmptySeq
  <2>2. Mapped(e, <<>>) = <<>>
    BY MappedEmpty
  <2> QED
    BY <2>1, <2>2
<1>2. ASSUME NEW t \in Seq(Token) \cap P, NEW x \in Token
      PROVE  Append(t, x) \in P
  <2>1. u \o Append(t, x) = Append(u \o t, x)
    <3>1. t \in Seq(Token) /\ u \o t \in Seq(Token) /\ <<x>> \in Seq(Token)
      BY ConcatProperties
    <3>2. Append(t, x) = t \o <<x>> /\ Append(u \o t, x) = (u \o t) \o <<x>>
      BY <3>1, AppendIsConcat
    <3>3. Regroups(u, t, <<x>>)
      BY <3>1, Regrouped
    <3> QED BY <3>2, <3>3, Zenon DEF Regroups
  <2>2. /\ Mapped(e, Append(u \o t, x)) = Mapped(e, u \o t) \o e[x]
        /\ Mapped(e, Append(t, x)) = Mapped(e, t) \o e[x]
        /\ Mapped(e, t) \in Seq(Token) /\ e[x] \in Seq(Token)
    <3>1. t \in Seq(Token) /\ u \o t \in Seq(Token)
      BY ConcatProperties
    <3> HIDE DEF P
    <3>2. e[x] \in Seq(Token) /\ Mapped(e, t) \in Seq(Token)
      BY <3>1, MappedType
    <3>3. Mapped(e, Append(u \o t, x)) = Mapped(e, u \o t) \o e[x]
      BY <3>1, MappedAppend
    <3>4. Mapped(e, Append(t, x)) = Mapped(e, t) \o e[x]
      BY <3>1, MappedAppend
    <3> QED
      BY <3>2, <3>3, <3>4
  <2>3. (Mapped(e, u) \o Mapped(e, t)) \o e[x] = Mapped(e, u) \o (Mapped(e, t) \o e[x])
    <3> HIDE DEF P
    <3>1. Mapped(e, u) \in Seq(Token) /\ Mapped(e, t) \in Seq(Token) /\ e[x] \in Seq(Token)
      BY <1>0, <2>2
    <3>2. Regroups(Mapped(e, u), Mapped(e, t), e[x])
      BY <3>1, Regrouped
    <3> QED BY <3>2, Zenon DEF Regroups
  <2>4. Append(t, x) \in Seq(Token)
    BY AppendProperties
  <2>5. Mapped(e, u \o t) = Mapped(e, u) \o Mapped(e, t)
    OBVIOUS
  <2>6. Mapped(e, u \o Append(t, x)) = Mapped(e, u) \o Mapped(e, Append(t, x))
    BY <2>1, <2>2, <2>3, <2>5, Zenon
  <2> QED
    BY <2>4, <2>6
<1> HIDE DEF P
<1>3. Seq(Token) \subseteq P
  BY <1>1, <1>2, EverySequence
<1> QED
  BY <1>3 DEF P

(* The words of a URL, and its tokens with a message in the place of the   *)
(* variable.                                                               *)
EachWord == [x \in Token |-> IF x \in Separator THEN <<>> ELSE <<x>>]
EachPut(msg) == [x \in Token |-> IF x = Variable THEN msg ELSE <<x>>]

LEMMA VariableIsWord == Variable \notin Separator
BY Zenon DEF Variable, Separator, Protocol, Handled, Http

LEMMA EachWordType == EachWord \in [Token -> Seq(Token)]
BY DEF EachWord

LEMMA EachPutType ==
  ASSUME NEW msg \in Seq(Token) PROVE EachPut(msg) \in [Token -> Seq(Token)]
<1>1. \A x \in Token : (IF x = Variable THEN msg ELSE <<x>>) \in Seq(Token)
  OBVIOUS
<1> QED
  BY <1>1 DEF EachPut

LEMMA WordsMapped ==
  ASSUME NEW u \in Seq(Token) PROVE Words(u) = Mapped(EachWord, u)
<1> DEFINE s == [i \in 1 .. Len(u) |-> IF u[i] \in Separator THEN <<>> ELSE <<u[i]>>]
           t == [i \in 1 .. Len(u) |-> EachWord[u[i]]]
<1>1. s = t
  <2>1. \A i \in 1 .. Len(u) : u[i] \in Token
    BY ElementOfSeq
  <2> QED BY <2>1 DEF EachWord
<1> QED
  BY <1>1 DEF Words, Mapped

LEMMA FormatMapped ==
  ASSUME NEW u \in Seq(Token), NEW msg, msg # NullMessage
  PROVE  Format(u, msg) = Mapped(EachPut(msg), u)
<1> DEFINE s == [i \in 1 .. Len(u) |-> IF u[i] = Variable THEN msg ELSE <<u[i]>>]
           t == [i \in 1 .. Len(u) |-> EachPut(msg)[u[i]]]
<1>1. s = t
  <2>1. \A i \in 1 .. Len(u) : u[i] \in Token
    BY ElementOfSeq
  <2> QED BY <2>1 DEF EachPut
<1> QED
  BY <1>1 DEF Format, Mapped

LEMMA MappedOne ==
  ASSUME NEW e \in [Token -> Seq(Token)], NEW x \in Token
  PROVE  Mapped(e, <<x>>) = e[x]
<1>1. <<>> \in Seq(Token) /\ <<x>> = Append(<<>>, x) /\ e[x] \in Seq(Token)
  OBVIOUS
<1>2. Mapped(e, Append(<<>>, x)) = Mapped(e, <<>>) \o e[x]
  BY <1>1, MappedAppend
<1>3. <<>> \o e[x] = e[x]
  BY <1>1, ConcatEmptySeq
<1> QED
  BY <1>1, <1>2, <1>3, MappedEmpty

(* The words of words are the words. *)
LEMMA WordsAgain ==
  ASSUME NEW u \in Seq(Token)
  PROVE  Mapped(EachWord, Mapped(EachWord, u)) = Mapped(EachWord, u)
<1> DEFINE W(v) == Mapped(EachWord, v)
           P == {v \in Seq(Token) : W(W(v)) = W(v)}
<1>1. <<>> \in P
  BY MappedEmpty, EmptySeq
<1>2. ASSUME NEW v \in Seq(Token) \cap P, NEW x \in Token
      PROVE  Append(v, x) \in P
  <2>1. EachWord[x] \in Seq(Token) /\ W(v) \in Seq(Token)
    BY EachWordType, MappedType
  <2>2. W(EachWord[x]) = EachWord[x]
    <3>1. CASE x \in Separator
      BY <3>1, MappedEmpty DEF EachWord
    <3>2. CASE x \notin Separator
      <4>1. EachWord[x] = <<x>>
        BY <3>2 DEF EachWord
      <4> QED BY <4>1, EachWordType, MappedOne
    <3> QED BY <3>1, <3>2
  <2>3. W(Append(v, x)) = W(v) \o EachWord[x]
    BY EachWordType, MappedAppend
  <2>4. W(W(v) \o EachWord[x]) = W(W(v)) \o W(EachWord[x])
    BY <2>1, EachWordType, MappedConcat
  <2>5. W(W(v)) = W(v)
    OBVIOUS
  <2>6. Append(v, x) \in Seq(Token)
    OBVIOUS
  <2>7. W(W(Append(v, x))) = W(Append(v, x))
    <3> HIDE DEF W, P
    <3> QED BY <2>2, <2>3, <2>4, <2>5
  <2> QED BY <2>6, <2>7
<1> HIDE DEF P
<1>3. Seq(Token) \subseteq P
  BY <1>1, <1>2, EverySequence
<1> QED
  BY <1>3 DEF P

(* StrUtil.format: putting in a message and reading the words may be       *)
(* exchanged.                                                              *)
LEMMA WordsOfFormat ==
  ASSUME NEW msg \in Seq(Token), NEW u \in Seq(Token)
  PROVE  Mapped(EachWord, Mapped(EachPut(msg), u)) =
           Mapped(EachWord, Mapped(EachPut(msg), Mapped(EachWord, u)))
<1> DEFINE W(v) == Mapped(EachWord, v)
           F(v) == Mapped(EachPut(msg), v)
           P == {v \in Seq(Token) : W(F(v)) = W(F(W(v)))}
<1>0. \A v \in Seq(Token) : W(v) \in Seq(Token) /\ F(v) \in Seq(Token)
  BY EachWordType, EachPutType, MappedType
<1>1. <<>> \in P
  BY MappedEmpty, EmptySeq
<1>2. ASSUME NEW v \in Seq(Token) \cap P, NEW x \in Token
      PROVE  Append(v, x) \in P
  <2> DEFINE w == EachWord[x]
             f == EachPut(msg)[x]
  <2>1. /\ v \in Seq(Token) /\ w \in Seq(Token) /\ f \in Seq(Token)
        /\ Append(v, x) \in Seq(Token)
    BY EachWordType, EachPutType
  <2>2. W(f) = W(F(w))
    <3>1. CASE x \in Separator
      <4>1. f = <<x>> /\ w = <<>>
        BY <3>1, VariableIsWord DEF EachWord, EachPut
      <4>2. W(<<x>>) = w
        BY EachWordType, MappedOne
      <4> HIDE DEF f, w
      <4> QED BY <4>1, <4>2, MappedEmpty
    <3>2. CASE x \notin Separator
      <4>1. w = <<x>>
        BY <3>2 DEF EachWord
      <4>2. F(<<x>>) = f
        BY EachPutType, MappedOne
      <4> HIDE DEF f, w
      <4> QED BY <4>1, <4>2
    <3> QED BY <3>1, <3>2
  <2>3. W(F(Append(v, x))) = W(F(v)) \o W(f)
    <3>1. F(Append(v, x)) = F(v) \o f
      BY <2>1, EachPutType, MappedAppend
    <3>2. F(v) \in Seq(Token)
      BY <1>0, <2>1
    <3>3. W(F(v) \o f) = W(F(v)) \o W(f)
      BY <2>1, <3>2, EachWordType, MappedConcat
    <3> HIDE DEF W, F, f, P
    <3> QED BY <3>1, <3>3
  <2>4. W(F(W(Append(v, x)))) = W(F(W(v))) \o W(F(w))
    <3>1. W(Append(v, x)) = W(v) \o w
      BY <2>1, EachWordType, MappedAppend
    <3>2. F(W(v) \o w) = F(W(v)) \o F(w)
      <4>1. W(v) \in Seq(Token)
        BY <1>0, <2>1
      <4> QED BY <2>1, <4>1, EachPutType, MappedConcat
    <3>3. F(W(v)) \in Seq(Token) /\ F(w) \in Seq(Token)
      BY <1>0, <2>1
    <3>4. W(F(W(v)) \o F(w)) = W(F(W(v))) \o W(F(w))
      BY <3>3, EachWordType, MappedConcat
    <3> HIDE DEF W, F, w, P
    <3> QED BY <3>1, <3>2, <3>4
  <2>5. W(F(v)) = W(F(W(v)))
    OBVIOUS
  <2>6. W(F(Append(v, x))) = W(F(W(Append(v, x))))
    <3> HIDE DEF W, F, w, f, P
    <3> QED BY <2>2, <2>3, <2>4, <2>5
  <2> QED BY <2>1, <2>6
<1> HIDE DEF P
<1>3. Seq(Token) \subseteq P
  BY <1>1, <1>2, EverySequence
<1> QED
  BY <1>3 DEF P

(* Without the variable the message is not put in. *)
LEMMA FormatNothing ==
  ASSUME NEW msg \in Seq(Token), NEW u \in Seq(Token), ~Contains(u, Variable)
  PROVE  Mapped(EachPut(msg), u) = u
<1> DEFINE F(v) == Mapped(EachPut(msg), v)
           P == {v \in Seq(Token) : ~Contains(v, Variable) => F(v) = v}
<1>1. <<>> \in P
  BY MappedEmpty, EmptySeq
<1>2. ASSUME NEW v \in Seq(Token) \cap P, NEW x \in Token
      PROVE  Append(v, x) \in P
  <2>1. v \in Seq(Token) /\ Append(v, x) \in Seq(Token)
    OBVIOUS
  <2>2. /\ Len(v) \in Nat /\ Len(Append(v, x)) = Len(v) + 1
        /\ \A i \in 1 .. Len(v) : Append(v, x)[i] = v[i]
        /\ Append(v, x)[Len(v) + 1] = x
    BY <2>1, AppendProperties, LenProperties
  <2>3. ASSUME ~Contains(Append(v, x), Variable)
        PROVE  F(Append(v, x)) = Append(v, x)
    <3>1. x # Variable
      <4>1. Len(v) + 1 \in 1 .. Len(Append(v, x))
        BY <2>2
      <4> HIDE DEF P
      <4> QED BY <2>2, <2>3, <4>1 DEF Contains
    <3>2. ~Contains(v, Variable)
      <4>1. \A i \in 1 .. Len(v) : i \in 1 .. Len(Append(v, x))
        BY <2>2
      <4> HIDE DEF P
      <4> QED BY <2>2, <2>3, <4>1 DEF Contains
    <3>3. F(v) = v
      BY <3>2
    <3>4. F(Append(v, x)) = F(v) \o EachPut(msg)[x]
      BY <2>1, EachPutType, MappedAppend
    <3>5. EachPut(msg)[x] = <<x>>
      BY <3>1 DEF EachPut
    <3>6. v \o <<x>> = Append(v, x)
      BY <2>1
    <3> HIDE DEF F, P
    <3> QED BY <3>3, <3>4, <3>5, <3>6
  <2> QED BY <2>1, <2>3
<1> HIDE DEF P
<1>3. Seq(Token) \subseteq P
  BY <1>1, <1>2, EverySequence
<1> QED
  BY <1>3 DEF P

-----------------------------------------------------------------------------
(* What joining two parts keeps of them: also that a protocol comes first, *)
(* or, when it is one of X, second.                                        *)
Late(u, X) == \A i \in 2 .. Len(u) : u[i] \in Protocol => i = 2 /\ u[i] \in X
NoProtocol(u) == \A i \in 1 .. Len(u) : u[i] \notin Protocol

LEMMA NoneFirst ==
  ASSUME NEW u \in Seq(Token), Late(u, {}), ~StartsWith(u, Protocol)
  PROVE  NoProtocol(u)
<1> SUFFICES ASSUME NEW i \in 1 .. Len(u) PROVE u[i] \notin Protocol
  BY DEF NoProtocol
<1>1. Len(u) \in Nat /\ (u = <<>> => Len(u) = 0)
  BY LenProperties, EmptySeq
<1>2. CASE i = 1
  BY <1>1, <1>2 DEF StartsWith
<1>3. CASE i # 1
  <2>1. i \in 2 .. Len(u)
    BY <1>1, <1>3
  <2> QED BY <2>1 DEF Late
<1> QED
  BY <1>2, <1>3

(* A token alone. *)
LEMMA OneToken ==
  ASSUME NEW x \in Token
  PROVE  /\ <<x>> \in Seq(Token) /\ <<x>> # <<>> /\ Len(<<x>>) = 1 /\ <<x>>[1] = x
         /\ ~Runs(<<x>>) /\ Slashed(<<x>>) /\ Late(<<x>>, {})
         /\ x \notin Protocol => NoProtocol(<<x>>)
         /\ x # Variable => ~Contains(<<x>>, Variable)
         /\ EndsWithSlash(<<x>>) <=> x \in Separator
         /\ Mapped(EachWord, <<x>>) = EachWord[x]
<1>1. <<x>> \in Seq(Token) /\ <<x>> # <<>> /\ Len(<<x>>) = 1 /\ <<x>>[1] = x
  OBVIOUS
<1>2. ~Runs(<<x>>) /\ Slashed(<<x>>) /\ Late(<<x>>, {})
  BY <1>1 DEF Runs, Slashed, Late
<1>3. x \notin Protocol => NoProtocol(<<x>>)
  BY <1>1 DEF NoProtocol
<1>4. x # Variable => ~Contains(<<x>>, Variable)
  BY <1>1 DEF Contains
<1>5. EndsWithSlash(<<x>>) <=> x \in Separator
  BY <1>1 DEF EndsWithSlash
<1>6. Mapped(EachWord, <<x>>) = EachWord[x]
  BY EachWordType, MappedOne
<1> QED
  BY <1>1, <1>2, <1>3, <1>4, <1>5, <1>6

(* Two sequences, one behind the other: a token and the next one are in    *)
(* one of them, or at the seam.                                            *)
LEMMA Neighbours ==
  ASSUME NEW u \in Seq(Token), NEW v \in Seq(Token),
         NEW i \in 1 .. Len(u \o v) - 1
  PROVE  \/ i \in 1 .. Len(u) - 1 /\ (u \o v)[i] = u[i] /\ (u \o v)[i + 1] = u[i + 1]
         \/ /\ u # <<>> /\ v # <<>>
            /\ (u \o v)[i] = u[Len(u)] /\ (u \o v)[i + 1] = v[1]
         \/ \E j \in 1 .. Len(v) - 1 : (u \o v)[i] = v[j] /\ (u \o v)[i + 1] = v[j + 1]
<1> DEFINE m == Len(u)
           n == Len(v)
           w == u \o v
<1>1. /\ m \in Nat /\ n \in Nat /\ Len(w) = m + n
      /\ \A k \in 1 .. m + n : w[k] = IF k <= m THEN u[k] ELSE v[k - m]
  BY ConcatProperties, LenProperties
<1>2. (m # 0 => u # <<>>) /\ (n # 0 => v # <<>>)
  BY EmptySeq
<1> HIDE DEF m, n, w
<1>3. i \in 1 .. m + n - 1
  BY <1>1 DEF w
<1>4. CASE i < m
  <2>1. i \in 1 .. m - 1 /\ w[i] = u[i] /\ w[i + 1] = u[i + 1]
    BY <1>1, <1>3, <1>4
  <2> QED BY <2>1 DEF m, w
<1>5. CASE i = m
  <2>1. m # 0 /\ n # 0 /\ w[i] = u[m] /\ i + 1 - m = 1 /\ w[i + 1] = v[i + 1 - m]
    BY <1>1, <1>3, <1>5
  <2> QED BY <1>2, <2>1 DEF m, w
<1>6. CASE i > m
  <2>1. /\ i - m \in 1 .. n - 1 /\ w[i] = v[i - m] /\ w[i + 1] = v[i + 1 - m]
        /\ i + 1 - m = i - m + 1
    BY <1>1, <1>3, <1>6
  <2> QED BY <2>1 DEF n, w
<1>7. i < m \/ i = m \/ i > m
  BY <1>1, <1>3
<1> QED
  BY <1>4, <1>5, <1>6, <1>7, Zenon

LEMMA RunsConcat ==
  ASSUME NEW u \in Seq(Token), NEW v \in Seq(Token), ~Runs(u), ~Runs(v),
         u = <<>> \/ v = <<>> \/ u[Len(u)] \in Separator \/ v[1] \in Separator
  PROVE  ~Runs(u \o v)
<1> DEFINE w == u \o v
<1>1. \A j \in 1 .. Len(u) - 1 : u[j] \in Separator \/ u[j + 1] \in Separator
  BY DEF Runs
<1>2. \A j \in 1 .. Len(v) - 1 : v[j] \in Separator \/ v[j + 1] \in Separator
  BY DEF Runs
<1>3. ASSUME NEW i \in 1 .. Len(w) - 1
      PROVE  w[i] \in Separator \/ w[i + 1] \in Separator
  <2>1. \/ i \in 1 .. Len(u) - 1 /\ w[i] = u[i] /\ w[i + 1] = u[i + 1]
        \/ u # <<>> /\ v # <<>> /\ w[i] = u[Len(u)] /\ w[i + 1] = v[1]
        \/ \E j \in 1 .. Len(v) - 1 : w[i] = v[j] /\ w[i + 1] = v[j + 1]
    BY Neighbours, Zenon
  <2> HIDE DEF w
  <2> QED
    BY <1>1, <1>2, <2>1
<1> HIDE DEF w
<1>4. ~Runs(w)
  BY <1>3 DEF Runs
<1> QED
  BY <1>4 DEF w

LEMMA SlashedConcat ==
  ASSUME NEW u \in Seq(Token), NEW v \in Seq(Token), Slashed(u), Slashed(v),
         u = <<>> \/ v = <<>> \/ u[Len(u)] \notin Separator \/ v[1] # "/"
  PROVE  Slashed(u \o v)
<1> SUFFICES ASSUME NEW i \in 1 .. Len(u \o v) - 1,
                    (u \o v)[i + 1] = "/", (u \o v)[i] \in Separator
             PROVE  FALSE
  BY DEF Slashed
<1> DEFINE w == u \o v
<1>1. w[i + 1] = "/" /\ w[i] \in Separator
  OBVIOUS
<1>2. \A j \in 1 .. Len(u) - 1 : u[j + 1] = "/" => u[j] \notin Separator
  BY DEF Slashed
<1>3. \A j \in 1 .. Len(v) - 1 : v[j + 1] = "/" => v[j] \notin Separator
  BY DEF Slashed
<1>4. \/ i \in 1 .. Len(u) - 1 /\ w[i] = u[i] /\ w[i + 1] = u[i + 1]
      \/ u # <<>> /\ v # <<>> /\ w[i] = u[Len(u)] /\ w[i + 1] = v[1]
      \/ \E j \in 1 .. Len(v) - 1 : w[i] = v[j] /\ w[i + 1] = v[j + 1]
  BY Neighbours, Zenon
<1> HIDE DEF w
<1> QED
  BY <1>1, <1>2, <1>3, <1>4

LEMMA ProtocolConcat ==
  ASSUME NEW u \in Seq(Token), NEW v \in Seq(Token), NEW X, NoProtocol(v)
  PROVE  /\ u # <<>> /\ Late(u, X) => Late(u \o v, X)
         /\ NoProtocol(u) => NoProtocol(u \o v)
<1> DEFINE m == Len(u)
           n == Len(v)
           w == u \o v
<1>1. /\ m \in Nat /\ n \in Nat /\ Len(w) = m + n
      /\ \A k \in 1 .. m + n : w[k] = IF k <= m THEN u[k] ELSE v[k - m]
  BY ConcatProperties, LenProperties
<1>2. \A k \in 1 .. n : v[k] \notin Protocol
  BY DEF NoProtocol
<1>3. u # <<>> => m > 0
  BY <1>1, EmptySeq
<1>4. (Late(u, X) <=> \A k \in 2 .. m : u[k] \in Protocol => k = 2 /\ u[k] \in X)
      /\ (NoProtocol(u) <=> \A k \in 1 .. m : u[k] \notin Protocol)
  BY DEF Late, NoProtocol
<1>5. (Late(w, X) <=> \A k \in 2 .. Len(w) : w[k] \in Protocol => k = 2 /\ w[k] \in X)
      /\ (NoProtocol(w) <=> \A k \in 1 .. Len(w) : w[k] \notin Protocol)
  BY DEF Late, NoProtocol
<1> HIDE DEF m, n, w
<1>7. ASSUME u # <<>>, Late(u, X) PROVE Late(w, X)
  <2>1. \A k \in 2 .. m : u[k] \in Protocol => k = 2 /\ u[k] \in X
    BY <1>4, <1>7
  <2> SUFFICES ASSUME NEW k \in 2 .. m + n PROVE w[k] \in Protocol => k = 2 /\ w[k] \in X
    BY <1>1, <1>5
  <2>2. k <= m => k \in 2 .. m /\ w[k] = u[k]
    BY <1>1
  <2>3. ~(k <= m) => k - m \in 1 .. n /\ w[k] = v[k - m]
    BY <1>1
  <2> QED BY <1>2, <2>1, <2>2, <2>3
<1>8. ASSUME NoProtocol(u) PROVE NoProtocol(w)
  <2>1. \A k \in 1 .. m : u[k] \notin Protocol
    BY <1>4, <1>8
  <2> SUFFICES ASSUME NEW k \in 1 .. m + n PROVE w[k] \notin Protocol
    BY <1>1, <1>5
  <2>2. k <= m => k \in 1 .. m /\ w[k] = u[k]
    BY <1>1
  <2>3. ~(k <= m) => k - m \in 1 .. n /\ w[k] = v[k - m]
    BY <1>1
  <2> QED BY <1>2, <2>1, <2>2, <2>3
<1> QED
  BY <1>7, <1>8 DEF w

(* The one other protocol that a URL may have follows the first one. *)
LEMMA ProtocolSecond ==
  ASSUME NEW u \in Seq(Token), NEW v \in Seq(Token), NEW X,
         Len(u) = 1, v # <<>>, v[1] \in X, Late(v, {})
  PROVE  Late(u \o v, X)
<1> DEFINE w == u \o v
<1>1. /\ Len(v) \in Nat /\ Len(w) = 1 + Len(v)
      /\ \A k \in 2 .. 1 + Len(v) : w[k] = v[k - 1]
  <2>1. Len(v) \in Nat /\ Len(w) = Len(u) + Len(v)
    BY ConcatProperties, LenProperties
  <2>2. \A k \in 1 .. Len(u) + Len(v) : w[k] = IF k <= Len(u) THEN u[k] ELSE v[k - Len(u)]
    BY ConcatProperties
  <2> HIDE DEF w
  <2> QED BY <2>1, <2>2
<1> HIDE DEF w
<1>2. ASSUME NEW k \in 2 .. Len(w), w[k] \in Protocol PROVE k = 2 /\ w[k] \in X
  <2>1. k - 1 \in 1 .. Len(v) /\ w[k] = v[k - 1]
    BY <1>1
  <2>2. k - 1 \notin 2 .. Len(v)
    BY <1>2, <2>1 DEF Late
  <2>3. k = 2
    BY <1>1, <2>1, <2>2
  <2> QED BY <2>1, <2>3
<1>3. Late(w, X)
  BY <1>2 DEF Late
<1> QED
  BY <1>3 DEF w

(* Which tokens come first and last. *)
LEMMA ConcatEnds ==
  ASSUME NEW u \in Seq(Token), NEW v \in Seq(Token)
  PROVE  /\ u \o v \in Seq(Token)
         /\ u # <<>> => u \o v # <<>> /\ (u \o v)[1] = u[1]
         /\ v # <<>> => u \o v # <<>> /\ (u \o v)[Len(u \o v)] = v[Len(v)]
         /\ u = <<>> => u \o v = v
         /\ v = <<>> => u \o v = u
<1> DEFINE m == Len(u)
           n == Len(v)
           w == u \o v
<1>1. /\ m \in Nat /\ n \in Nat /\ Len(w) = m + n /\ w \in Seq(Token)
      /\ \A k \in 1 .. m + n : w[k] = IF k <= m THEN u[k] ELSE v[k - m]
  BY ConcatProperties, LenProperties
<1>2. (u # <<>> => m > 0) /\ (v # <<>> => n > 0) /\ (w = <<>> => Len(w) = 0)
  BY <1>1, EmptySeq
<1>3. (u = <<>> => w = v) /\ (v = <<>> => w = u)
  BY ConcatEmptySeq
<1> HIDE DEF m, n, w
<1>4. u # <<>> => w # <<>> /\ w[1] = u[1]
  BY <1>1, <1>2
<1>5. v # <<>> => w # <<>> /\ w[m + n] = v[n]
  <2>1. ASSUME v # <<>> PROVE m + n \in 1 .. m + n /\ ~(m + n <= m) /\ m + n - m = n
    BY <1>1, <1>2, <2>1
  <2>2. ASSUME v # <<>> PROVE w[m + n] = v[n]
    BY <1>1, <2>1, <2>2
  <2> QED BY <1>1, <1>2, <2>2
<1> QED
  BY <1>1, <1>3, <1>4, <1>5 DEF m, n, w

LEMMA VariableConcat ==
  ASSUME NEW u \in Seq(Token), NEW v \in Seq(Token),
         ~Contains(u, Variable), ~Contains(v, Variable)
  PROVE  ~Contains(u \o v, Variable)
<1> DEFINE m == Len(u)
           n == Len(v)
           w == u \o v
<1>1. /\ m \in Nat /\ n \in Nat /\ Len(w) = m + n
      /\ \A k \in 1 .. m + n : w[k] = IF k <= m THEN u[k] ELSE v[k - m]
  BY ConcatProperties, LenProperties
<1>2. (\A k \in 1 .. m : u[k] # Variable) /\ (\A k \in 1 .. n : v[k] # Variable)
  BY DEF Contains
<1>3. Contains(w, Variable) => \E k \in 1 .. Len(w) : w[k] = Variable
  BY DEF Contains
<1> HIDE DEF m, n, w
<1>4. \A k \in 1 .. m + n : w[k] # Variable
  <2> SUFFICES ASSUME NEW k \in 1 .. m + n PROVE w[k] # Variable
    OBVIOUS
  <2>1. k <= m => k \in 1 .. m /\ w[k] = u[k]
    BY <1>1
  <2>2. ~(k <= m) => k - m \in 1 .. n /\ w[k] = v[k - m]
    BY <1>1
  <2> QED BY <1>2, <2>1, <2>2
<1> QED
  BY <1>1, <1>3, <1>4 DEF w

-----------------------------------------------------------------------------
(* The parts that annotations give, as they are registered. *)

(* getPath: a path begins with a slash and does not end with one, or it is *)
(* empty, and its words are as they were.                                  *)
LEMMA PathRegistered ==
  ASSUME NEW d \in Declaration, NEW p, p = GetPath(d.path)
  PROVE  /\ p \in Seq(Token) /\ ~Runs(p) /\ Slashed(p) /\ NoProtocol(p)
         /\ ~Contains(p, Variable) /\ ~EndsWithSlash(p)
         /\ p # <<>> => p[1] = "/"
         /\ Mapped(EachWord, p) = Mapped(EachWord, d.path)
<1> DEFINE path == d.path
           s == IF StartsWith(path, {"/"}) THEN path ELSE <<"/">> \o path
<1>1. /\ path \in Seq(Token) /\ ~Runs(path) /\ Slashed(path) /\ NoProtocol(path)
      /\ ~Contains(path, Variable)
  <2>1. /\ Spelled(path) /\ ~StartsWith(path, Protocol) /\ ~Contains(path, Variable)
    BY FeignAssumption
  <2>2. path \in Seq(Token) /\ Late(path, {})
    BY <2>1 DEF Spelled, Late
  <2>3. NoProtocol(path)
    BY <2>1, <2>2, NoneFirst
  <2> QED BY <2>1, <2>2, <2>3 DEF Spelled
<1>2. /\ "/" \in Token /\ "/" \in Separator /\ "/" \notin Protocol /\ "/" # Variable
  <2>1. "/" \in Separator /\ "/" \notin Protocol
    BY DEF Separator, Protocol, Handled, Http
  <2> QED BY <2>1, FeignAssumption, VariableIsWord
<1> HIDE DEF path
<1>3. /\ <<"/">> \in Seq(Token) /\ ~Runs(<<"/">>) /\ Slashed(<<"/">>) /\ NoProtocol(<<"/">>)
      /\ ~Contains(<<"/">>, Variable) /\ <<"/">> # <<>> /\ <<"/">>[1] = "/" /\ Len(<<"/">>) = 1
      /\ Mapped(EachWord, <<"/">>) = <<>>
  <2>1. EachWord["/"] = <<>>
    BY <1>2 DEF EachWord
  <2> QED
    BY <1>2, <2>1, OneToken
<1>4. /\ s \in Seq(Token) /\ ~Runs(s) /\ Slashed(s) /\ NoProtocol(s)
      /\ ~Contains(s, Variable) /\ (path # <<>> => s # <<>> /\ s[1] = "/")
      /\ Mapped(EachWord, s) = Mapped(EachWord, path)
  <2>1. CASE StartsWith(path, {"/"})
    BY <1>1, <2>1 DEF StartsWith
  <2>2. CASE ~StartsWith(path, {"/"})
    <3> DEFINE r == <<"/">> \o path
    <3>1. r \in Seq(Token) /\ r # <<>> /\ r[1] = "/"
      BY <1>1, <1>3, ConcatEnds
    <3>2. ~Runs(r)
      BY <1>1, <1>2, <1>3, RunsConcat
    <3>3. Slashed(r)
      <4>1. path = <<>> \/ path[1] # "/"
        BY <2>2 DEF StartsWith
      <4> QED BY <1>1, <1>3, <4>1, SlashedConcat
    <3>4. NoProtocol(r)
      BY <1>1, <1>3, ProtocolConcat
    <3>5. ~Contains(r, Variable)
      BY <1>1, <1>3, VariableConcat
    <3>6. Mapped(EachWord, r) = Mapped(EachWord, path)
      <4>1. Mapped(EachWord, r) = Mapped(EachWord, <<"/">>) \o Mapped(EachWord, path)
        BY <1>1, <1>3, EachWordType, MappedConcat
      <4>2. Mapped(EachWord, path) \in Seq(Token)
        BY <1>1, EachWordType, MappedType
      <4> QED BY <1>3, <4>1, <4>2, ConcatEmptySeq
    <3>7. s = r
      BY <2>2
    <3> HIDE DEF s, r
    <3> QED BY <3>1, <3>2, <3>3, <3>4, <3>5, <3>6, <3>7
  <2> QED BY <2>1, <2>2
<1>5. p = IF path = <<>> THEN path ELSE IF EndsWithSlash(s) THEN Front(s) ELSE s
  BY DEF GetPath, path
<1> HIDE DEF s
<1>6. CASE path = <<>>
  <2>1. p = path
    BY <1>5, <1>6, Zenon
  <2>2. p = <<>> /\ ~EndsWithSlash(p)
    BY <1>6, <2>1 DEF EndsWithSlash
  <2> QED BY <1>1, <2>1, <2>2 DEF path
<1>7. CASE path # <<>> /\ ~EndsWithSlash(s)
  <2>1. p = s
    BY <1>5, <1>7, Zenon
  <2>2. p # <<>> => p[1] = "/"
    BY <1>4, <1>7, <2>1
  <2>3. ~EndsWithSlash(p)
    BY <1>7, <2>1, Zenon
  <2> QED BY <1>4, <2>1, <2>2, <2>3 DEF path
<1>8. CASE path # <<>> /\ EndsWithSlash(s)
  <2> DEFINE n == Len(s)
  <2>1. n \in Nat /\ n > 0 /\ s[n] \in Separator /\ \A i \in 1 .. n : s[i] \in Token
    BY <1>4, <1>8, EmptySeq, LenProperties DEF EndsWithSlash
  <2>2. p = SubSeq(s, 1, n - 1)
    BY <1>5, <1>8 DEF Front
  <2> HIDE DEF n
  <2>3. /\ 1 \in Int /\ n - 1 \in Int /\ \A i \in 1 .. n - 1 : s[i] \in Token
        /\ (IF 1 <= n - 1 THEN n - 1 - 1 + 1 ELSE 0) = n - 1
        /\ \A i \in 1 .. n - 1 : i \in 1 .. n - 1 - 1 + 1 /\ 1 + i - 1 = i
    BY <2>1
  <2>4. p \in Seq(Token) /\ Len(p) = n - 1 /\ \A i \in 1 .. n - 1 : p[i] = s[i]
    <3>1. /\ SubSeq(s, 1, n - 1) \in Seq(Token)
          /\ Len(SubSeq(s, 1, n - 1)) = IF 1 <= n - 1 THEN n - 1 - 1 + 1 ELSE 0
          /\ \A i \in 1 .. n - 1 - 1 + 1 : SubSeq(s, 1, n - 1)[i] = s[1 + i - 1]
      BY <2>3, SubSeqProperties
    <3> QED BY <2>2, <2>3, <3>1
  <2>5. s[n] = "/" /\ \A i \in 1 .. n : s[i] \notin Protocol
    BY <1>4, <2>1 DEF NoProtocol, n, Separator
  <2>6. ~Runs(p)
    <3>1. \A i \in 1 .. n - 1 : {s[i], s[i + 1]} \cap Separator # {}
      BY <1>4 DEF Runs, n
    <3>2. \A i \in 1 .. n - 1 - 1 : i \in 1 .. n - 1 /\ i + 1 \in 1 .. n - 1
      BY <2>1
    <3> QED BY <2>4, <3>1, <3>2 DEF Runs
  <2>7. Slashed(p)
    <3>1. \A i \in 1 .. n - 1 : s[i + 1] = "/" => s[i] \notin Separator
      BY <1>4 DEF Slashed, n
    <3>2. \A i \in 1 .. n - 1 - 1 : i \in 1 .. n - 1 /\ i + 1 \in 1 .. n - 1
      BY <2>1
    <3> QED BY <2>4, <3>1, <3>2 DEF Slashed
  <2>8. NoProtocol(p) /\ ~Contains(p, Variable)
    <3>1. \A i \in 1 .. n : s[i] # Variable
      BY <1>4 DEF Contains, n
    <3>2. \A i \in 1 .. n - 1 : i \in 1 .. n
      BY <2>1
    <3> QED BY <2>4, <2>5, <3>1, <3>2 DEF NoProtocol, Contains
  <2>9. ~EndsWithSlash(p) /\ (p # <<>> => p[1] = "/")
    <3>1. \A i \in 1 .. n - 1 : s[i + 1] = "/" => s[i] \notin Separator
      BY <1>4 DEF Slashed, n
    <3>2. p # <<>> => n - 1 \in 1 .. n - 1 /\ n - 1 + 1 = n /\ 1 \in 1 .. n - 1
      BY <2>1, <2>4, EmptySeq
    <3>3. p # <<>> => p[n - 1] \notin Separator
      BY <2>4, <2>5, <3>1, <3>2
    <3> QED BY <1>4, <1>8, <2>4, <3>2, <3>3 DEF EndsWithSlash
  <2>10. Mapped(EachWord, p) = Mapped(EachWord, path)
    <3>1. s = Append(p, "/")
      <4>1. /\ Append(p, "/") \in Seq(Token) /\ Len(Append(p, "/")) = Len(p) + 1
            /\ \A i \in 1 .. Len(p) : Append(p, "/")[i] = p[i]
            /\ Append(p, "/")[Len(p) + 1] = "/"
        BY <1>2, <2>4, AppendProperties
      <4>2. n - 1 + 1 = n
        BY <2>1
      <4>3. \A i \in 1 .. n : s[i] = Append(p, "/")[i]
        <5> SUFFICES ASSUME NEW i \in 1 .. n PROVE s[i] = Append(p, "/")[i]
          OBVIOUS
        <5>1. i = n \/ i \in 1 .. n - 1
          BY <2>1
        <5> QED BY <2>4, <2>5, <4>1, <4>2, <5>1
      <4> QED BY <1>4, <2>4, <4>1, <4>2, <4>3, SeqEqual DEF n
    <3>2. Mapped(EachWord, s) = Mapped(EachWord, p) \o EachWord["/"]
      BY <1>2, <2>4, <3>1, EachWordType, MappedAppend
    <3>3. EachWord["/"] = <<>>
      BY <1>2 DEF EachWord
    <3>4. Mapped(EachWord, p) \in Seq(Token)
      BY <2>4, EachWordType, MappedType
    <3> QED BY <1>4, <3>2, <3>3, <3>4, ConcatEmptySeq
  <2> QED BY <2>4, <2>6, <2>7, <2>8, <2>9, <2>10 DEF path
<1> QED
  BY <1>6, <1>7, <1>8

(* getUrl and getObject: the URL that a client is built on begins with     *)
(* HTTP's protocol, has another one only if the annotation's URL has, and  *)
(* has the words of the annotation's.                                      *)
Based(u, X) == /\ u \in Seq(Token) /\ u # <<>> /\ u[1] \in Http
               /\ ~Runs(u) /\ Late(u, X)

WithProtocol(u) == IF StartsWith(u, Http) THEN u ELSE <<"http://">> \o u

LEMMA UrlRegistered ==
  ASSUME NEW d \in Declaration, LegalUrl(GetUrl(d.url)),
         NEW u, u = WithProtocol(GetUrl(d.url))
  PROVE  /\ Based(u, Other(d)) /\ ~Contains(u, Variable)
         /\ Mapped(EachWord, u) = Mapped(EachWord, d.url)
         /\ d.url # <<>> /\ ~EndsWithSlash(d.url) => Slashed(u) /\ ~EndsWithSlash(u)
<1> DEFINE url == d.url
           h == <<"http://">>
           X == Other(d)
<1>1. /\ url \in Seq(Token) /\ ~Runs(url) /\ Slashed(url) /\ Late(url, {})
      /\ ~Contains(url, Variable) /\ ~StartsWith(url, {"/"})
  BY FeignAssumption DEF Spelled, Late
<1>2. /\ "http://" \in Http /\ "http://" \in Protocol /\ "http://" \in Separator
      /\ "#{}" \notin Protocol /\ "lb://" \notin Handled \cup {"#{}"}
      /\ Protocol = Handled \cup {"lb://"} /\ Http \subseteq Handled
      /\ "ftp://" \notin Http
  BY DEF Http, Handled, Protocol, Separator
<1>3. /\ h \in Seq(Token) /\ h # <<>> /\ Len(h) = 1 /\ h[1] = "http://"
      /\ ~Runs(h) /\ Slashed(h) /\ Late(h, {}) /\ ~Contains(h, Variable)
      /\ Mapped(EachWord, h) = <<>>
  <2>1. "http://" \in Token /\ "http://" # Variable
    BY <1>2, FeignAssumption, VariableIsWord
  <2>2. EachWord["http://"] = <<>>
    BY <1>2, <2>1 DEF EachWord
  <2> QED BY <2>1, <2>2, OneToken
<1>4. GetUrl(url) = IF url = <<>> \/ StartsWith(url, Protocol \cup {"#{}"}) THEN url
                    ELSE h \o url
  BY DEF GetUrl
<1>5. GetUrl(url) = <<>> \/ StartsWith(GetUrl(url), Handled \cup {"#{}"})
  BY DEF LegalUrl
<1>6. u = IF StartsWith(GetUrl(url), Http) THEN GetUrl(url) ELSE h \o GetUrl(url)
  BY DEF WithProtocol
<1>9. \A x \in Handled \ Http : StartsWith(url, {x}) => x \in X
  BY DEF Other
<1> SUFFICES /\ Based(u, X) /\ ~Contains(u, Variable)
             /\ Mapped(EachWord, u) = Mapped(EachWord, url)
             /\ url # <<>> /\ ~EndsWithSlash(url) => Slashed(u) /\ ~EndsWithSlash(u)
  OBVIOUS
<1> HIDE DEF url, h, X
<1>7. CASE StartsWith(url, Http)
  <2>1. url # <<>> /\ url[1] \in Http
    BY <1>7 DEF StartsWith
  <2>2. StartsWith(url, Protocol \cup {"#{}"})
    BY <1>2, <2>1 DEF StartsWith
  <2>3. GetUrl(url) = url
    BY <1>4, <2>2, Zenon
  <2>4. u = url
    BY <1>6, <1>7, <2>3, Zenon
  <2>5. Late(url, X)
    BY <1>1 DEF Late
  <2> QED BY <1>1, <2>1, <2>4, <2>5 DEF Based
<1>8. CASE ~StartsWith(url, Http)
  <2>1. u = h \o url
    <3>1. CASE url = <<>> \/ StartsWith(url, Protocol \cup {"#{}"})
      <4>1. GetUrl(url) = url
        BY <1>4, <3>1, Zenon
      <4> QED BY <1>6, <1>8, <4>1, Zenon
    <3>2. CASE ~(url = <<>> \/ StartsWith(url, Protocol \cup {"#{}"}))
      <4>1. GetUrl(url) = h \o url
        BY <1>4, <3>2, Zenon
      <4>2. (h \o url) # <<>> /\ (h \o url)[1] = "http://"
        BY <1>1, <1>3, ConcatEnds
      <4>3. StartsWith(h \o url, Http)
        BY <1>2, <4>2 DEF StartsWith
      <4> QED BY <1>6, <4>1, <4>3, Zenon
    <3> QED BY <3>1, <3>2
  <2>2. ~StartsWith(url, Protocol) \/ (url # <<>> /\ url[1] \in X)
    <3> SUFFICES ASSUME url # <<>>, url[1] \in Protocol PROVE url[1] \in X
      BY DEF StartsWith
    <3>1. StartsWith(url, Protocol \cup {"#{}"})
      BY DEF StartsWith
    <3>2. GetUrl(url) = url
      BY <1>4, <3>1, Zenon
    <3>3. url[1] \in Handled \cup {"#{}"}
      BY <1>5, <3>2 DEF StartsWith
    <3>4. url[1] \in Handled \ Http
      BY <1>2, <1>8, <3>3 DEF StartsWith
    <3>5. StartsWith(url, {url[1]})
      BY DEF StartsWith
    <3> QED BY <1>9, <3>4, <3>5
  <2>3. ~StartsWith(url, Protocol) => NoProtocol(url)
    BY <1>1, NoneFirst
  <2>4. /\ u \in Seq(Token) /\ u # <<>> /\ u[1] = "http://"
        /\ url # <<>> => u[Len(u)] = url[Len(url)]
    BY <1>1, <1>3, <2>1, ConcatEnds
  <2>5. ~Runs(u)
    <3>1. h[Len(h)] \in Separator
      BY <1>2, <1>3
    <3> QED BY <1>1, <1>3, <2>1, <3>1, RunsConcat
  <2>6. Slashed(u)
    <3>1. url = <<>> \/ url[1] # "/"
      BY <1>1 DEF StartsWith
    <3> QED BY <1>1, <1>3, <2>1, <3>1, SlashedConcat
  <2>7. Late(u, X)
    <3>1. CASE ~StartsWith(url, Protocol)
      <4>1. Late(h, X)
        BY <1>3 DEF Late
      <4> QED BY <1>1, <1>3, <2>1, <2>3, <3>1, <4>1, ProtocolConcat
    <3>2. CASE url # <<>> /\ url[1] \in X
      BY <1>1, <1>3, <2>1, <3>2, ProtocolSecond
    <3> QED BY <2>2, <3>1, <3>2
  <2>8. ~Contains(u, Variable)
    BY <1>1, <1>3, <2>1, VariableConcat
  <2>9. Mapped(EachWord, u) = Mapped(EachWord, url)
    <3>1. Mapped(EachWord, u) = Mapped(EachWord, h) \o Mapped(EachWord, url)
      BY <1>1, <1>3, <2>1, EachWordType, MappedConcat
    <3>2. Mapped(EachWord, url) \in Seq(Token)
      BY <1>1, EachWordType, MappedType
    <3> QED BY <1>3, <3>1, <3>2, ConcatEmptySeq
  <2>10. url # <<>> /\ ~EndsWithSlash(url) => ~EndsWithSlash(u)
    BY <2>4 DEF EndsWithSlash
  <2> QED BY <1>2, <2>4, <2>5, <2>6, <2>7, <2>8, <2>9, <2>10 DEF Based
<1> QED
  BY <1>7, <1>8

(* getObject and invoke: two parts are joined with a slash between them,   *)
(* and with one only unless both have one.                                 *)
LEMMA JoinKeeps ==
  ASSUME NEW X, NEW u, Based(u, X), NEW p \in Seq(Token), ~Runs(p), NoProtocol(p)
  PROVE  /\ Based(Join(u, p), X)
         /\ Mapped(EachWord, Join(u, p)) = Mapped(EachWord, u) \o Mapped(EachWord, p)
         /\ ~Contains(u, Variable) /\ ~Contains(p, Variable)
              => ~Contains(Join(u, p), Variable)
         /\ Slashed(u) /\ ~EndsWithSlash(u) /\ Slashed(p) => Slashed(Join(u, p))
         /\ ~EndsWithSlash(u) /\ ~EndsWithSlash(p) => ~EndsWithSlash(Join(u, p))
<1> DEFINE j == Join(u, p)
           o == <<"/">>
<1>1. /\ u \in Seq(Token) /\ u # <<>> /\ u[1] \in Http /\ ~Runs(u) /\ Late(u, X)
  BY DEF Based
<1>2. /\ "/" \in Token /\ "/" \in Separator /\ "/" \notin Protocol /\ "/" # Variable
      /\ Protocol \subseteq Separator
  <2>1. "/" \in Separator /\ "/" \notin Protocol /\ Protocol \subseteq Separator
    BY DEF Separator, Protocol, Handled, Http
  <2> QED BY <2>1, FeignAssumption, VariableIsWord
<1>3. /\ o \in Seq(Token) /\ o # <<>> /\ Len(o) = 1 /\ o[1] = "/"
      /\ ~Runs(o) /\ Slashed(o) /\ NoProtocol(o) /\ ~Contains(o, Variable)
      /\ Mapped(EachWord, o) = <<>>
  <2>1. EachWord["/"] = <<>>
    BY <1>2 DEF EachWord
  <2> QED BY <1>2, <2>1, OneToken
<1>4. Mapped(EachWord, u) \in Seq(Token) /\ Mapped(EachWord, p) \in Seq(Token)
  BY <1>1, EachWordType, MappedType
<1>5. j = IF p = <<>> THEN u
          ELSE IF EndsWithSlash(u) \/ StartsWith(p, {"/"}) THEN u \o p ELSE u \o o \o p
  BY DEF Join
<1> SUFFICES /\ Based(j, X)
             /\ Mapped(EachWord, j) = Mapped(EachWord, u) \o Mapped(EachWord, p)
             /\ ~Contains(u, Variable) /\ ~Contains(p, Variable) => ~Contains(j, Variable)
             /\ Slashed(u) /\ ~EndsWithSlash(u) /\ Slashed(p) => Slashed(j)
             /\ ~EndsWithSlash(u) /\ ~EndsWithSlash(p) => ~EndsWithSlash(j)
  OBVIOUS
<1> HIDE DEF j, o
<1>6. CASE p = <<>>
  <2>1. j = u
    BY <1>5, <1>6, Zenon
  <2>2. Mapped(EachWord, p) = <<>>
    BY <1>6, MappedEmpty
  <2>3. Mapped(EachWord, u) \o <<>> = Mapped(EachWord, u)
    BY <1>4, ConcatEmptySeq
  <2>4. Mapped(EachWord, j) = Mapped(EachWord, u) \o Mapped(EachWord, p)
    BY <2>1, <2>2, <2>3
  <2> QED BY <2>1, <2>4
<1>7. CASE p # <<>> /\ (EndsWithSlash(u) \/ StartsWith(p, {"/"}))
  <2>1. j = u \o p
    BY <1>5, <1>7, Zenon
  <2>2. /\ j \in Seq(Token) /\ j # <<>> /\ j[1] = u[1] /\ j[Len(j)] = p[Len(p)]
    BY <1>1, <1>7, <2>1, ConcatEnds
  <2>3. u[Len(u)] \in Separator \/ p[1] = "/"
    BY <1>7 DEF EndsWithSlash, StartsWith
  <2>4. ~Runs(j)
    BY <1>1, <1>2, <2>1, <2>3, RunsConcat
  <2>5. Late(j, X)
    BY <1>1, <2>1, ProtocolConcat
  <2>6. Mapped(EachWord, j) = Mapped(EachWord, u) \o Mapped(EachWord, p)
    BY <1>1, <2>1, EachWordType, MappedConcat
  <2>7. ~Contains(u, Variable) /\ ~Contains(p, Variable) => ~Contains(j, Variable)
    BY <1>1, <2>1, VariableConcat
  <2>8. Slashed(u) /\ ~EndsWithSlash(u) /\ Slashed(p) => Slashed(j)
    <3>1. ~EndsWithSlash(u) => u[Len(u)] \notin Separator
      BY <1>1 DEF EndsWithSlash
    <3> QED BY <1>1, <2>1, <3>1, SlashedConcat
  <2>9. ~EndsWithSlash(p) => ~EndsWithSlash(j)
    BY <1>7, <2>2 DEF EndsWithSlash
  <2>10. Based(j, X)
    BY <1>1, <2>2, <2>4, <2>5 DEF Based
  <2> QED BY <2>6, <2>7, <2>8, <2>9, <2>10
<1>8. CASE p # <<>> /\ ~EndsWithSlash(u) /\ ~StartsWith(p, {"/"})
  <2> DEFINE w == u \o o
  <2>1. j = w \o p
    BY <1>5, <1>8, Zenon
  <2>2. w \in Seq(Token) /\ w # <<>> /\ w[1] = u[1] /\ w[Len(w)] = "/"
    BY <1>1, <1>3, ConcatEnds
  <2>3. ~Runs(w)
    BY <1>1, <1>2, <1>3, RunsConcat
  <2>4. Late(w, X)
    BY <1>1, <1>3, ProtocolConcat
  <2>5. Mapped(EachWord, w) = Mapped(EachWord, u)
    <3>1. Mapped(EachWord, w) = Mapped(EachWord, u) \o Mapped(EachWord, o)
      BY <1>1, <1>3, EachWordType, MappedConcat, Zenon
    <3> QED BY <1>3, <1>4, <3>1, ConcatEmptySeq, Zenon
  <2>6. ~Contains(u, Variable) => ~Contains(w, Variable)
    BY <1>1, <1>3, VariableConcat
  <2>7. Slashed(u) => Slashed(w)
    <3>1. u[Len(u)] \notin Separator
      BY <1>1, <1>8 DEF EndsWithSlash
    <3> QED BY <1>1, <1>3, <3>1, SlashedConcat
  <2> HIDE DEF w
  <2>8. /\ j \in Seq(Token) /\ j # <<>> /\ j[1] = u[1] /\ j[Len(j)] = p[Len(p)]
    BY <1>8, <2>1, <2>2, ConcatEnds
  <2>9. ~Runs(j)
    BY <1>2, <2>1, <2>2, <2>3, RunsConcat
  <2>10. Late(j, X)
    BY <2>1, <2>2, <2>4, ProtocolConcat
  <2>11. Mapped(EachWord, j) = Mapped(EachWord, u) \o Mapped(EachWord, p)
    BY <2>1, <2>2, <2>5, EachWordType, MappedConcat
  <2>12. ~Contains(u, Variable) /\ ~Contains(p, Variable) => ~Contains(j, Variable)
    BY <2>1, <2>2, <2>6, VariableConcat
  <2>13. Slashed(u) /\ Slashed(p) => Slashed(j)
    <3>1. p[1] # "/"
      BY <1>8 DEF StartsWith
    <3> QED BY <2>1, <2>2, <2>7, <3>1, SlashedConcat
  <2>14. ~EndsWithSlash(p) => ~EndsWithSlash(j)
    BY <1>8, <2>8 DEF EndsWithSlash
  <2>15. Based(j, X)
    BY <1>1, <2>8, <2>9, <2>10 DEF Based
  <2> QED BY <2>11, <2>12, <2>13, <2>14, <2>15
<1> QED
  BY <1>6, <1>7, <1>8

-----------------------------------------------------------------------------
LEMMA AppendedToken ==
  ASSUME NEW u \in Seq(Token), NEW x \in Token
  PROVE  /\ Append(u, x) \in Seq(Token) /\ Append(u, x) # <<>>
         /\ Append(u, x) = u \o <<x>>
BY AppendProperties, AppendIsConcat

(* What a token at the end of a URL tells of the URL before it. *)
LEMMA AppendKeeps ==
  ASSUME NEW u \in Seq(Token), NEW x \in Token, NEW X
  PROVE  /\ ~Runs(Append(u, x)) =>
              ~Runs(u) /\ (u = <<>> \/ u[Len(u)] \in Separator \/ x \in Separator)
         /\ Slashed(Append(u, x)) =>
              Slashed(u) /\ (u = <<>> \/ u[Len(u)] \notin Separator \/ x # "/")
         /\ Late(Append(u, x), X) =>
              Late(u, X) /\ (u = <<>> \/ x \notin Protocol \/ (Len(u) = 1 /\ x \in X))
<1> DEFINE r == Append(u, x)
           n == Len(u)
<1>1. /\ n \in Nat /\ Len(r) = n + 1 /\ r[n + 1] = x /\ \A i \in 1 .. n : r[i] = u[i]
      /\ u # <<>> => n > 0
  BY AppendProperties, LenProperties, EmptySeq
<1>2. /\ Runs(r) <=> \E i \in 1 .. Len(r) - 1 : {r[i], r[i + 1]} \cap Separator = {}
      /\ Slashed(r) <=> \A i \in 1 .. Len(r) - 1 : r[i + 1] = "/" => r[i] \notin Separator
      /\ Late(r, X) <=> \A i \in 2 .. Len(r) : r[i] \in Protocol => i = 2 /\ r[i] \in X
  BY DEF Runs, Slashed, Late
<1>3. /\ Runs(u) <=> \E i \in 1 .. n - 1 : {u[i], u[i + 1]} \cap Separator = {}
      /\ Slashed(u) <=> \A i \in 1 .. n - 1 : u[i + 1] = "/" => u[i] \notin Separator
      /\ Late(u, X) <=> \A i \in 2 .. n : u[i] \in Protocol => i = 2 /\ u[i] \in X
  BY DEF Runs, Slashed, Late
<1> SUFFICES /\ ~Runs(r) => ~Runs(u) /\ (u = <<>> \/ u[n] \in Separator \/ x \in Separator)
             /\ Slashed(r) => Slashed(u) /\ (u = <<>> \/ u[n] \notin Separator \/ x # "/")
             /\ Late(r, X) =>
                  Late(u, X) /\ (u = <<>> \/ x \notin Protocol \/ (n = 1 /\ x \in X))
  OBVIOUS
<1> HIDE DEF r, n
<1>4. /\ \A i \in 1 .. n - 1 : /\ i \in 1 .. Len(r) - 1 /\ r[i] = u[i]
                               /\ r[i + 1] = u[i + 1]
      /\ \A i \in 2 .. n : i \in 2 .. Len(r) /\ r[i] = u[i]
      /\ u # <<>> => /\ n \in 1 .. Len(r) - 1 /\ n + 1 \in 2 .. Len(r)
                     /\ r[n] = u[n] /\ r[n + 1] = x
  BY <1>1
<1>5. ~Runs(r) => ~Runs(u) /\ (u = <<>> \/ u[n] \in Separator \/ x \in Separator)
  <2> SUFFICES ASSUME ~Runs(r)
               PROVE  ~Runs(u) /\ (u = <<>> \/ u[n] \in Separator \/ x \in Separator)
    OBVIOUS
  <2>1. \A i \in 1 .. Len(r) - 1 : r[i] \in Separator \/ r[i + 1] \in Separator
    BY <1>2
  <2>2. \A i \in 1 .. n - 1 : u[i] \in Separator \/ u[i + 1] \in Separator
    BY <1>4, <2>1
  <2>3. u = <<>> \/ u[n] \in Separator \/ x \in Separator
    BY <1>4, <2>1
  <2> QED BY <1>3, <2>2, <2>3
<1>6. Slashed(r) => Slashed(u) /\ (u = <<>> \/ u[n] \notin Separator \/ x # "/")
  BY <1>2, <1>3, <1>4
<1>7. Late(r, X) => Late(u, X) /\ (u = <<>> \/ x \notin Protocol \/ (n = 1 /\ x \in X))
  <2> SUFFICES ASSUME Late(r, X)
               PROVE  Late(u, X) /\ (u = <<>> \/ x \notin Protocol \/ (n = 1 /\ x \in X))
    OBVIOUS
  <2>1. \A i \in 2 .. Len(r) : r[i] \in Protocol => i = 2 /\ r[i] \in X
    BY <1>2
  <2>2. Late(u, X)
    BY <1>3, <1>4, <2>1
  <2>3. u # <<>> /\ x \in Protocol => n + 1 = 2 /\ x \in X
    BY <1>4, <2>1
  <2> QED BY <1>1, <2>2, <2>3
<1> QED
  BY <1>5, <1>6, <1>7

(* StrUtil.format: a message in a segment's place leaves the URL as well   *)
(* written as it was.                                                      *)
LEMMA FormatKeeps ==
  ASSUME NEW msg \in Message \ {NullMessage}, NEW u \in Seq(Token), NEW X
  PROVE  LET f == Mapped(EachPut(msg), u)
         IN  /\ f \in Seq(Token)
             /\ ~Runs(u) => ~Runs(f)
             /\ Slashed(u) => Slashed(f)
             /\ Based(u, X) => Based(f, X)
<1> DEFINE F(v) == Mapped(EachPut(msg), v)
           Ends(v) == /\ v = <<>> => F(v) = <<>>
                      /\ v # <<>> => /\ F(v) # <<>>
                                     /\ v[Len(v)] \in Separator
                                          <=> F(v)[Len(F(v))] \in Separator
           Begins(v) == v # <<>> /\ v[1] \in Http
           Firsts(v) == Begins(v) => F(v)[1] = v[1] /\ (Len(v) = 1 => Len(F(v)) = 1)
           Keeps(v) == /\ ~Runs(v) => ~Runs(F(v))
                       /\ Slashed(v) => Slashed(F(v))
                       /\ Begins(v) /\ Late(v, X) => Late(F(v), X)
           P == {v \in Seq(Token) : Ends(v) /\ Firsts(v) /\ Keeps(v)}
<1>1. /\ msg \in Seq(Token) /\ msg # <<>> /\ ~Runs(msg) /\ Slashed(msg) /\ Late(msg, {})
      /\ msg[1] \notin Separator /\ msg[Len(msg)] \notin Separator
  BY FeignAssumption DEF Spelled, Late, StartsWith, EndsWithSlash
<1>2. /\ Protocol \subseteq Separator /\ Http \subseteq Separator /\ "/" \in Separator
  BY DEF Separator, Protocol, Handled
<1>3. NoProtocol(msg)
  <2>1. ~StartsWith(msg, Protocol)
    BY <1>1, <1>2 DEF StartsWith
  <2> QED BY <1>1, <2>1, NoneFirst
<1>4. EachPut(msg) \in [Token -> Seq(Token)]
  BY <1>1, EachPutType
<1>5. <<>> \in P
  <2>1. F(<<>>) = <<>> /\ <<>> \in Seq(Token)
    BY MappedEmpty, EmptySeq
  <2>2. Ends(<<>>) /\ Firsts(<<>>) /\ Keeps(<<>>)
    BY <2>1
  <2> QED BY <2>1, <2>2
<1>6. ASSUME NEW v \in Seq(Token) \cap P, NEW x \in Token
      PROVE  Append(v, x) \in P
  <2> DEFINE r == Append(v, x)
             e == EachPut(msg)[x]
             f == F(v)
             g == F(r)
  <2>1. /\ v \in Seq(Token) /\ r \in Seq(Token) /\ f \in Seq(Token) /\ g = f \o e
        /\ r # <<>> /\ r[Len(r)] = x /\ (v # <<>> => r[1] = v[1]) /\ (v = <<>> => r[1] = x)
    <3>1. v \in Seq(Token)
      OBVIOUS
    <3>2. r \in Seq(Token) /\ r # <<>> /\ r = v \o <<x>>
      BY <3>1, AppendedToken
    <3>3. f \in Seq(Token) /\ g = f \o e
      BY <1>4, <3>1, MappedAppend
    <3>4. <<x>> \in Seq(Token) /\ <<x>> # <<>> /\ Len(<<x>>) = 1 /\ <<x>>[1] = x
      BY OneToken
    <3> HIDE DEF P, r, f, g, e
    <3>5. r[Len(r)] = x /\ (v # <<>> => r[1] = v[1]) /\ (v = <<>> => r[1] = x)
      BY <3>1, <3>2, <3>4, ConcatEnds
    <3> QED BY <3>1, <3>2, <3>3, <3>5
  <2>2. /\ e \in Seq(Token) /\ e # <<>> /\ ~Runs(e) /\ Slashed(e) /\ Late(e, {})
        /\ x \notin Protocol => NoProtocol(e)
        /\ x \in Separator <=> e[1] \in Separator
        /\ x \in Separator <=> e[Len(e)] \in Separator
        /\ x \in Separator => e[1] = x /\ Len(e) = 1
    <3>1. CASE x = Variable
      <4>1. e = msg
        BY <3>1 DEF EachPut
      <4>2. x \notin Separator
        BY <3>1, VariableIsWord
      <4> HIDE DEF e
      <4> QED BY <1>1, <1>3, <4>1, <4>2
    <3>2. CASE x # Variable
      <4>1. e = <<x>>
        BY <3>2 DEF EachPut
      <4> HIDE DEF e
      <4> QED BY <4>1, OneToken
    <3> QED BY <3>1, <3>2
  <2>3. Ends(v) /\ Firsts(v) /\ Keeps(v)
    OBVIOUS
  <2>4. /\ v = <<>> => f = <<>>
        /\ v # <<>> => f # <<>> /\ (v[Len(v)] \in Separator <=> f[Len(f)] \in Separator)
        /\ v # <<>> /\ v[1] \in Http => f[1] = v[1] /\ (Len(v) = 1 => Len(f) = 1)
        /\ (~Runs(v) => ~Runs(f)) /\ (Slashed(v) => Slashed(f))
        /\ v # <<>> /\ v[1] \in Http /\ Late(v, X) => Late(f, X)
    BY <2>3
  <2>5. /\ g \in Seq(Token) /\ g # <<>> /\ g[Len(g)] = e[Len(e)]
        /\ (v = <<>> => g = e) /\ (v # <<>> => g[1] = f[1])
    <3> HIDE DEF P, r, f, g, e
    <3> QED BY <2>1, <2>2, <2>4, ConcatEnds
  <2>6. /\ ~Runs(r) =>
             ~Runs(v) /\ (v = <<>> \/ v[Len(v)] \in Separator \/ x \in Separator)
        /\ Slashed(r) =>
             Slashed(v) /\ (v = <<>> \/ v[Len(v)] \notin Separator \/ x # "/")
        /\ Late(r, X) =>
             Late(v, X) /\ (v = <<>> \/ x \notin Protocol \/ (Len(v) = 1 /\ x \in X))
        /\ Len(r) = Len(v) + 1 /\ Len(v) \in Nat /\ (v # <<>> => Len(v) # 0)
    BY <2>1, AppendKeeps, AppendProperties, LenProperties, EmptySeq
  <2> HIDE DEF P, r, f, g, e
  <2>7. ~Runs(r) => ~Runs(g)
    <3> SUFFICES ASSUME ~Runs(r) PROVE ~Runs(f \o e)
      BY <2>1
    <3>1. ~Runs(f) /\ (f = <<>> \/ f[Len(f)] \in Separator \/ e[1] \in Separator)
      BY <2>2, <2>4, <2>6
    <3> QED BY <2>1, <2>2, <3>1, RunsConcat
  <2>8. Slashed(r) => Slashed(g)
    <3> SUFFICES ASSUME Slashed(r) PROVE Slashed(f \o e)
      BY <2>1
    <3>1. Slashed(f) /\ (f = <<>> \/ f[Len(f)] \notin Separator \/ e[1] # "/")
      BY <1>2, <2>2, <2>4, <2>6
    <3> QED BY <2>1, <2>2, <3>1, SlashedConcat
  <2>9. r[1] \in Http /\ Late(r, X) => Late(g, X)
    <3> SUFFICES ASSUME r[1] \in Http, Late(r, X) PROVE Late(g, X)
      OBVIOUS
    <3>1. CASE v = <<>>
      <4>1. g = e
        BY <2>5, <3>1
      <4> QED BY <2>2, <4>1 DEF Late
    <3>2. CASE v # <<>>
      <4>1. v[1] \in Http /\ f # <<>> /\ Late(f, X)
        BY <2>1, <2>4, <2>6, <3>2
      <4>2. CASE x \notin Protocol
        BY <2>1, <2>2, <4>1, <4>2, ProtocolConcat
      <4>3. CASE x \in Protocol
        <5>1. Len(f) = 1 /\ x \in X /\ e[1] = x
          BY <1>2, <2>2, <2>4, <2>6, <3>2, <4>1, <4>3
        <5> QED BY <2>1, <2>2, <5>1, ProtocolSecond
      <4> QED BY <4>2, <4>3
    <3> QED BY <3>1, <3>2
  <2>10. r[1] \in Http => g[1] = r[1] /\ (Len(r) = 1 => Len(g) = 1)
    <3>1. r[1] \in Http => g[1] = r[1]
      BY <1>2, <2>1, <2>2, <2>4, <2>5
    <3>2. r[1] \in Http /\ Len(r) = 1 => Len(g) = 1
      <4> SUFFICES ASSUME r[1] \in Http, Len(r) = 1 PROVE Len(g) = 1
        OBVIOUS
      <4>1. v = <<>>
        BY <2>6
      <4>2. x \in Separator /\ g = e
        BY <1>2, <2>1, <2>5, <4>1
      <4> QED BY <2>2, <4>2
    <3> QED BY <3>1, <3>2
  <2>11. r[Len(r)] \in Separator <=> g[Len(g)] \in Separator
    BY <2>1, <2>2, <2>5
  <2>12. Ends(r) /\ Firsts(r) /\ Keeps(r)
    <3>1. F(r) = g
      BY DEF g
    <3> HIDE DEF F
    <3> QED BY <2>1, <2>5, <2>7, <2>8, <2>9, <2>10, <2>11, <3>1
  <2> HIDE DEF Ends, Firsts, Keeps
  <2>13. r \in P
    BY <2>1, <2>12 DEF P
  <2> QED BY <2>13 DEF r
<1> HIDE DEF P
<1>7. Seq(Token) \subseteq P
  BY <1>5, <1>6, EverySequence
<1>8. Ends(u) /\ Firsts(u) /\ Keeps(u) /\ F(u) \in Seq(Token)
  BY <1>4, <1>7, MappedType DEF P
<1>9. Based(u, X) => Based(F(u), X)
  <2>1. ASSUME Based(u, X) PROVE Based(F(u), X)
    <3>1. u # <<>> /\ u[1] \in Http /\ ~Runs(u) /\ Late(u, X)
      BY <2>1 DEF Based
    <3>2. F(u) # <<>> /\ F(u)[1] \in Http /\ ~Runs(F(u)) /\ Late(F(u), X)
      BY <1>8, <3>1
    <3> HIDE DEF F
    <3> QED BY <1>8, <3>2 DEF Based
  <2> QED BY <2>1
<1> HIDE DEF F
<1> QED
  BY <1>8, <1>9 DEF F

-----------------------------------------------------------------------------
(* What a client is built on, and what a call on it requests. *)
Target(d) == Join(WithProtocol(GetUrl(d.url)), GetPath(d.path))

Requested(d, m, msg) ==
  LET url == Join(Target(d), m.path)
  IN  IF Verb(m) = "GET" /\ Contains(m.path, Variable) THEN Format(url, msg) ELSE url

LEMMA TargetBuilt ==
  ASSUME NEW d \in Declaration, Registers(d)
  PROVE  /\ Based(Target(d), Other(d)) /\ ~Contains(Target(d), Variable)
         /\ Mapped(EachWord, Target(d)) = Mapped(EachWord, d.url) \o Mapped(EachWord, d.path)
         /\ d.url # <<>> /\ ~EndsWithSlash(d.url)
              => Slashed(Target(d)) /\ ~EndsWithSlash(Target(d))
<1> DEFINE u == WithProtocol(GetUrl(d.url))
           p == GetPath(d.path)
<1>1. LegalUrl(GetUrl(d.url))
  BY DEF Registers
<1>2. /\ Based(u, Other(d)) /\ ~Contains(u, Variable)
      /\ Mapped(EachWord, u) = Mapped(EachWord, d.url)
      /\ d.url # <<>> /\ ~EndsWithSlash(d.url) => Slashed(u) /\ ~EndsWithSlash(u)
  BY <1>1, UrlRegistered
<1>3. /\ p \in Seq(Token) /\ ~Runs(p) /\ Slashed(p) /\ NoProtocol(p)
      /\ ~Contains(p, Variable) /\ ~EndsWithSlash(p)
      /\ Mapped(EachWord, p) = Mapped(EachWord, d.path)
  BY PathRegistered
<1>4. Target(d) = Join(u, p)
  BY DEF Target
<1> HIDE DEF u, p
<1>5. /\ Based(Join(u, p), Other(d))
      /\ Mapped(EachWord, Join(u, p)) = Mapped(EachWord, u) \o Mapped(EachWord, p)
      /\ ~Contains(u, Variable) /\ ~Contains(p, Variable) => ~Contains(Join(u, p), Variable)
      /\ Slashed(u) /\ ~EndsWithSlash(u) /\ Slashed(p) => Slashed(Join(u, p))
      /\ ~EndsWithSlash(u) /\ ~EndsWithSlash(p) => ~EndsWithSlash(Join(u, p))
  BY <1>2, <1>3, JoinKeeps
<1> QED
  BY <1>2, <1>3, <1>4, <1>5

WellRequested(d, m, msg, url) ==
  LET words == Words(d.url) \o Words(d.path) \o Words(m.path)
  IN  /\ Based(url, Other(d))
      /\ Words(url) = IF Verb(m) = "GET" THEN Words(Format(words, msg)) ELSE words
      /\ d.url # <<>> /\ ~EndsWithSlash(d.url) => Slashed(url)

LEMMA UrlRequested ==
  ASSUME NEW d \in Declaration, Registers(d), NEW m \in Method, NEW msg \in Message
  PROVE  WellRequested(d, m, msg, Requested(d, m, msg))
<1> DEFINE t == Target(d)
           p == m.path
           u == Join(t, p)
           r == Requested(d, m, msg)
           W(v) == Mapped(EachWord, v)
           words == Words(d.url) \o Words(d.path) \o Words(m.path)
<1>1. /\ Based(t, Other(d)) /\ ~Contains(t, Variable) /\ t \in Seq(Token)
      /\ W(t) = W(d.url) \o W(d.path)
      /\ d.url # <<>> /\ ~EndsWithSlash(d.url) => Slashed(t) /\ ~EndsWithSlash(t)
  BY TargetBuilt DEF Based
<1>2. p \in Seq(Token) /\ ~Runs(p) /\ Slashed(p) /\ NoProtocol(p)
  <2>1. Spelled(p) /\ ~StartsWith(p, Protocol)
    BY FeignAssumption
  <2>2. p \in Seq(Token) /\ Late(p, {}) /\ ~Runs(p) /\ Slashed(p)
    BY <2>1 DEF Spelled, Late
  <2> QED BY <2>1, <2>2, NoneFirst
<1>3. /\ Based(u, Other(d)) /\ u \in Seq(Token) /\ W(u) = W(t) \o W(p)
      /\ ~Contains(p, Variable) => ~Contains(u, Variable)
      /\ d.url # <<>> /\ ~EndsWithSlash(d.url) => Slashed(u)
  <2> HIDE DEF t, p
  <2>1. /\ Based(Join(t, p), Other(d))
        /\ Mapped(EachWord, Join(t, p)) = Mapped(EachWord, t) \o Mapped(EachWord, p)
        /\ ~Contains(t, Variable) /\ ~Contains(p, Variable) => ~Contains(Join(t, p), Variable)
        /\ Slashed(t) /\ ~EndsWithSlash(t) /\ Slashed(p) => Slashed(Join(t, p))
    BY <1>1, <1>2, JoinKeeps
  <2>2. Join(t, p) \in Seq(Token)
    BY <2>1 DEF Based
  <2> QED BY <1>1, <1>2, <2>1, <2>2
<1>4. words = W(u) /\ words \in Seq(Token) /\ W(words) = words /\ Words(words) = words
  <2>1. d.url \in Seq(Token) /\ d.path \in Seq(Token)
    BY FeignAssumption DEF Spelled
  <2>2. words = W(d.url) \o W(d.path) \o W(p)
    BY <1>2, <2>1, WordsMapped
  <2>3. W(u) \in Seq(Token) /\ W(W(u)) = W(u)
    BY <1>3, EachWordType, MappedType, WordsAgain
  <2>4. words = W(u)
    BY <1>1, <1>3, <2>2
  <2> HIDE DEF words, W, u
  <2>5. words \in Seq(Token) /\ W(words) = words
    BY <2>3, <2>4
  <2> QED BY <2>4, <2>5, WordsMapped DEF W
<1>5. r = IF Verb(m) = "GET" /\ Contains(p, Variable) THEN Format(u, msg) ELSE u
  BY DEF Requested
<1>6. Words(u) = W(u)
  BY <1>3, WordsMapped
<1> SUFFICES /\ Based(r, Other(d))
             /\ Words(r) = IF Verb(m) = "GET" THEN Words(Format(words, msg)) ELSE words
             /\ d.url # <<>> /\ ~EndsWithSlash(d.url) => Slashed(r)
  BY DEF WellRequested
<1> HIDE DEF t, p, u, r, words
<1>7. CASE msg = NullMessage
  <2>1. Format(u, msg) = u /\ Format(words, msg) = words
    BY <1>7 DEF Format
  <2>2. r = u
    BY <1>5, <2>1, Zenon
  <2> QED BY <1>3, <1>4, <1>6, <2>1, <2>2
<1>8. CASE msg # NullMessage
  <2> DEFINE F(v) == Mapped(EachPut(msg), v)
  <2>1. msg \in Seq(Token) /\ msg \in Message \ {NullMessage}
    BY <1>8, FeignAssumption DEF Spelled
  <2>2. Format(u, msg) = F(u) /\ Format(words, msg) = F(words)
    BY <1>3, <1>4, <1>8, FormatMapped
  <2>3. F(u) \in Seq(Token) /\ F(words) \in Seq(Token)
    BY <1>3, <1>4, <2>1, EachPutType, MappedType
  <2>4. Words(F(u)) = W(F(u)) /\ Words(F(words)) = W(F(words))
    BY <2>3, WordsMapped
  <2>5. W(F(u)) = W(F(words))
    BY <1>3, <1>4, <2>1, WordsOfFormat
  <2>6. Based(F(u), Other(d)) /\ (Slashed(u) => Slashed(F(u)))
    BY <1>3, <2>1, FormatKeeps
  <2>7. ~Contains(p, Variable) => F(u) = u
    BY <1>3, <2>1, FormatNothing
  <2> HIDE DEF F, W
  <2>8. CASE Verb(m) = "GET"
    <3>1. r = F(u)
      BY <1>5, <2>2, <2>7, <2>8, Zenon
    <3> QED BY <1>3, <2>2, <2>4, <2>5, <2>6, <2>8, <3>1
  <2>9. CASE Verb(m) # "GET"
    <3>1. r = u
      BY <1>5, <2>9, Zenon
    <3> QED BY <1>3, <1>4, <1>6, <2>9, <3>1
  <2> QED BY <2>8, <2>9
<1> QED
  BY <1>7, <1>8

-----------------------------------------------------------------------------
(* The inductive invariant: once a client is registered, its factory bean  *)
(* holds what its annotation says, until getObject has put the product in  *)
(* the place of the URL; the product is what the annotation says; and so   *)
(* is the URL of the last request.                                         *)
Beans == [url : Seq(Token), path : Seq(Token)]

FeignTypeOK == /\ decl \in [Client -> Declaration]
               /\ left \subseteq Client
               /\ bean \in [Client -> Beans \cup {NoBean}]
               /\ proxy \in [Client -> Seq(Token) \cup {NoBean}]

BeansRegistered ==
  /\ boot = "up" => left = {}
  /\ \A c \in left : proxy[c] = NoBean
  /\ \A c \in Client \ left :
       /\ Registers(decl[c])
       /\ bean[c] = [url |-> IF proxy[c] = NoBean THEN GetUrl(decl[c].url) ELSE proxy[c],
                     path |-> GetPath(decl[c].path)]

ProxiesBuilt == \A c \in Client : proxy[c] # NoBean => proxy[c] = Target(decl[c])

CallRequested == call # NoCall =>
  /\ call.client \in Client /\ call.method \in Method /\ call.msg \in Message
  /\ Registers(decl[call.client])
  /\ call.verb = Verb(call.method)
  /\ call.url = Requested(decl[call.client], call.method, call.msg)

FeignIInv == FeignTypeOK /\ BeansRegistered /\ ProxiesBuilt /\ CallRequested

LEMMA RegisteredType ==
  ASSUME NEW d \in Declaration, Registers(d)
  PROVE  /\ GetUrl(d.url) \in Seq(Token) /\ GetPath(d.path) \in Seq(Token)
         /\ Target(d) \in Seq(Token) /\ Target(d) # NoBean
<1>1. GetPath(d.path) \in Seq(Token)
  BY PathRegistered
<1>2. Target(d) \in Seq(Token)
  BY TargetBuilt DEF Based
<1>3. Target(d) # NoBean
  BY <1>2, FeignAssumption
<1>4. d.url \in Seq(Token) /\ <<"http://">> \in Seq(Token)
  <2>1. "http://" \in Token
    BY FeignAssumption DEF Separator, Protocol, Handled, Http
  <2> QED BY <2>1, FeignAssumption DEF Spelled
<1>5. GetUrl(d.url) \in Seq(Token)
  <2>1. <<"http://">> \o d.url \in Seq(Token)
    BY <1>4, ConcatProperties
  <2> QED BY <1>4, <2>1 DEF GetUrl
<1> QED
  BY <1>1, <1>2, <1>3, <1>5

LEMMA FeignStarts == FeignInit => FeignIInv
<1> SUFFICES ASSUME FeignInit PROVE FeignIInv
  OBVIOUS
<1>1. FeignTypeOK
  BY DEF FeignInit, FeignTypeOK
<1>2. BeansRegistered /\ ProxiesBuilt /\ CallRequested
  BY DEF FeignInit, BeansRegistered, ProxiesBuilt, CallRequested
<1> QED
  BY <1>1, <1>2 DEF FeignIInv

LEMMA RegisterKeeps ==
  ASSUME FeignIInv, NEW c \in Client, Register(c)
  PROVE  FeignIInv'
<1> USE DEF FeignIInv
<1>1. /\ boot = "scan" /\ c \in left /\ UNCHANGED <<decl, proxy, call>>
      /\ decl[c] \in Declaration
  BY DEF Register, FeignTypeOK
<1>2. CASE Registers(decl[c])
  <2> DEFINE b == [url |-> GetUrl(decl[c].url), path |-> GetPath(decl[c].path)]
  <2>1. /\ bean' = [bean EXCEPT ![c] = b]
        /\ left' = left \ {c}
        /\ boot' = IF left' = {} THEN "up" ELSE boot
    BY <1>2 DEF Register
  <2>2. b \in Beans
    BY <1>1, <1>2, RegisteredType DEF Beans
  <2>3. FeignTypeOK'
    BY <1>1, <2>1, <2>2 DEF FeignTypeOK
  <2>4. BeansRegistered'
    <3>1. boot' = "up" => left' = {}
      BY <1>1, <2>1
    <3>2. \A e \in left' : proxy'[e] = NoBean
      BY <1>1, <2>1 DEF BeansRegistered
    <3>3. proxy[c] = NoBean /\ bean'[c] = b
      BY <1>1, <2>1 DEF BeansRegistered, FeignTypeOK
    <3>4. \A e \in Client \ left' : e # c => e \in Client \ left /\ bean'[e] = bean[e]
      BY <2>1 DEF FeignTypeOK
    <3> QED BY <1>1, <1>2, <3>1, <3>2, <3>3, <3>4 DEF BeansRegistered
  <2>5. ProxiesBuilt' /\ CallRequested'
    BY <1>1 DEF ProxiesBuilt, CallRequested
  <2> QED BY <2>3, <2>4, <2>5
<1>3. CASE ~Registers(decl[c])
  <2>1. boot' = "failed" /\ UNCHANGED <<bean, left>>
    BY <1>3 DEF Register
  <2> QED BY <1>1, <2>1 DEF FeignTypeOK, BeansRegistered, ProxiesBuilt, CallRequested
<1> QED
  BY <1>2, <1>3

LEMMA InjectKeeps ==
  ASSUME FeignIInv, NEW c \in Client, Inject(c)
  PROVE  FeignIInv'
<1> USE DEF FeignIInv
<1> DEFINE url == IF proxy[c] = NoBean THEN Built(bean[c]) ELSE proxy[c]
           d == decl[c]
<1>1. /\ boot = "up" /\ UNCHANGED <<decl, left, boot, call>>
      /\ bean' = [bean EXCEPT ![c].url = url]
      /\ proxy' = [proxy EXCEPT ![c] = url]
  BY DEF Inject
<1>2. /\ left = {} /\ d \in Declaration /\ Registers(d)
      /\ bean[c] = [url |-> IF proxy[c] = NoBean THEN GetUrl(d.url) ELSE proxy[c],
                    path |-> GetPath(d.path)]
  BY <1>1 DEF FeignTypeOK, BeansRegistered
<1>3. url = Target(d)
  <2>1. CASE proxy[c] = NoBean
    <3>1. bean[c].url = GetUrl(d.url) /\ bean[c].path = GetPath(d.path)
      BY <1>2, <2>1
    <3>2. Built(bean[c]) = Target(d)
      BY <3>1 DEF Built, Target, WithProtocol
    <3> QED BY <2>1, <3>2
  <2>2. CASE proxy[c] # NoBean
    BY <2>2 DEF ProxiesBuilt
  <2> QED BY <2>1, <2>2
<1>4. /\ GetUrl(d.url) \in Seq(Token) /\ GetPath(d.path) \in Seq(Token)
      /\ Target(d) \in Seq(Token) /\ Target(d) # NoBean
  BY <1>2, RegisteredType
<1> HIDE DEF url
<1>5. bean'[c] = [url |-> Target(d), path |-> GetPath(d.path)] /\ proxy'[c] = Target(d)
  BY <1>1, <1>2, <1>3 DEF FeignTypeOK
<1>6. \A e \in Client : e # c => bean'[e] = bean[e] /\ proxy'[e] = proxy[e]
  BY <1>1 DEF FeignTypeOK
<1>7. FeignTypeOK'
  <2>1. bean' \in [Client -> Beans \cup {NoBean}]
    <3>1. bean'[c] \in Beans
      BY <1>4, <1>5 DEF Beans
    <3>2. bean' = [e \in Client |-> bean'[e]]
      BY <1>1 DEF FeignTypeOK
    <3> QED BY <1>6, <3>1, <3>2 DEF FeignTypeOK
  <2>2. proxy' \in [Client -> Seq(Token) \cup {NoBean}]
    BY <1>1, <1>3, <1>4 DEF FeignTypeOK
  <2> QED BY <1>1, <2>1, <2>2 DEF FeignTypeOK
<1>8. BeansRegistered'
  BY <1>1, <1>2, <1>4, <1>5, <1>6 DEF BeansRegistered
<1>9. ProxiesBuilt'
  BY <1>1, <1>5, <1>6 DEF ProxiesBuilt
<1>10. CallRequested'
  BY <1>1 DEF CallRequested
<1> QED
  BY <1>7, <1>8, <1>9, <1>10

LEMMA InvokeKeeps ==
  ASSUME FeignIInv, NEW c \in Client, NEW m \in Method, NEW msg \in Message,
         Invoke(c, m, msg)
  PROVE  FeignIInv'
<1> USE DEF FeignIInv
<1>1. /\ boot = "up" /\ proxy[c] # NoBean /\ UNCHANGED <<decl, left, boot, bean, proxy>>
      /\ call' = IF m.kind = "none" THEN call
                 ELSE [client |-> c, method |-> m, msg |-> msg,
                       url |-> RequestUrl(c, m, msg), verb |-> Verb(m)]
  BY DEF Invoke
<1>2. Registers(decl[c]) /\ RequestUrl(c, m, msg) = Requested(decl[c], m, msg)
  BY <1>1 DEF BeansRegistered, ProxiesBuilt, RequestUrl, Requested
<1>3. CallRequested'
  <2>1. CASE m.kind = "none"
    BY <1>1, <2>1 DEF CallRequested
  <2>2. CASE m.kind # "none"
    <3>1. /\ call'.client = c /\ call'.method = m /\ call'.msg = msg
          /\ call'.verb = Verb(m) /\ call'.url = Requested(decl[c], m, msg)
      BY <1>1, <1>2, <2>2
    <3> QED BY <1>1, <1>2, <3>1 DEF CallRequested
  <2> QED BY <2>1, <2>2
<1>4. FeignTypeOK' /\ BeansRegistered' /\ ProxiesBuilt'
  BY <1>1 DEF FeignTypeOK, BeansRegistered, ProxiesBuilt
<1> QED
  BY <1>3, <1>4

(* Registration, injection and invocation: a client is built once, from    *)
(* what its annotation says, and a request is made on what was built.      *)
THEOREM FeignInvariant == FeignSpec => []FeignIInv
<1>1. ASSUME FeignIInv, [FeignNext]_feignVars PROVE FeignIInv'
  <2>1. CASE FeignNext
    <3>1. PICK c \in Client : \/ Register(c)
                              \/ Inject(c)
                              \/ \E m \in Method, msg \in Message : Invoke(c, m, msg)
      BY <2>1 DEF FeignNext
    <3> QED BY <1>1, <3>1, RegisterKeeps, InjectKeeps, InvokeKeeps
  <2>2. CASE UNCHANGED feignVars
    BY <1>1, <2>2 DEF feignVars, FeignIInv, FeignTypeOK, BeansRegistered, ProxiesBuilt,
                      CallRequested
  <2> QED BY <1>1, <2>1, <2>2
<1> QED
  BY <1>1, FeignStarts, PTL DEF FeignSpec

(* getUrl, getPath, getObject and invoke: every request of a client whose  *)
(* URL has no protocol but HTTP's goes to the words of that URL, the       *)
(* client's path and the method's path, in this order, with the message in *)
(* its place, however the parts were written; and no segment is empty when *)
(* the client's URL has no slash at its end.                               *)
THEOREM UrlsWellFormed == FeignSpec => []UrlWellFormed
<1>1. ASSUME FeignIInv PROVE UrlWellFormed
  <2> SUFFICES ASSUME call # NoCall
               PROVE  LET d == decl[call.client]
                          words == Words(d.url) \o Words(d.path) \o Words(call.method.path)
                      IN  /\ Words(call.url) = IF call.verb = "GET"
                                               THEN Words(Format(words, call.msg)) ELSE words
                          /\ ~Runs(call.url)
                          /\ d.url # <<>> /\ ~EndsWithSlash(d.url) => Slashed(call.url)
    BY DEF UrlWellFormed
  <2>1. CallRequested /\ decl[call.client] \in Declaration
    BY <1>1 DEF FeignIInv, CallRequested, FeignTypeOK
  <2>2. PICK d \in Declaration, m \in Method, msg \in Message,
              url \in {call.url}, verb \in {call.verb} :
          /\ d = decl[call.client] /\ m = call.method /\ msg = call.msg
          /\ Registers(d) /\ verb = Verb(m) /\ url = Requested(d, m, msg)
    BY <2>1 DEF CallRequested
  <2>3. WellRequested(d, m, msg, url)
    BY <2>2, UrlRequested
  <2>4. ~Runs(url)
    BY <2>3 DEF WellRequested, Based
  <2> QED BY <2>2, <2>3, <2>4 DEF WellRequested
<1> QED
  BY <1>1, FeignInvariant, PTL

(* getUrl: every request has a URL that begins with HTTP's protocol, and   *)
(* it has another one, behind the first, only when the client's URL has it *)
(* and the JDK knows it.                                                   *)
THEOREM RequestsAreHttp == FeignSpec => []CallsAreHttp
<1>1. ASSUME FeignIInv PROVE CallsAreHttp
  <2> SUFFICES ASSUME call # NoCall
               PROVE  /\ call.url[1] \in Http
                      /\ \A i \in 2 .. Len(call.url) :
                           call.url[i] \in Protocol
                             => i = 2 /\ call.url[2] \in Other(decl[call.client])
    BY DEF CallsAreHttp
  <2>1. /\ CallRequested /\ decl[call.client] \in Declaration
    BY <1>1 DEF FeignIInv, CallRequested, FeignTypeOK
  <2>2. Based(Requested(decl[call.client], call.method, call.msg), Other(decl[call.client]))
    BY <2>1, UrlRequested DEF CallRequested, WellRequested
  <2>3. Based(call.url, Other(decl[call.client]))
    BY <2>1, <2>2 DEF CallRequested
  <2> QED BY <2>3 DEF Based, Late
<1> QED
  BY <1>1, FeignInvariant, PTL

=============================================================================
