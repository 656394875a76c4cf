---------------------- MODULE StringBuilderPool_proofs ----------------------
(***************************************************************************)
(* Proofs about StringBuilderPool for any threads, builders and limits: no *)
(* builder has two users, ids have only their own parts, and no builder is *)
(* lost.                                                                   *)
(***************************************************************************)
EXTENDS StringBuilderPool, SequenceTheorems, FiniteSetTheorems, TLAPS

(* A builder holds what its user appended so far; a free one is empty. *)
Written(t) == /\ pc[t] \in {"host", "return"} => text[sb[t]] = <<>>
              /\ pc[t] = "number" => text[sb[t]] = <<Host>>
              /\ pc[t] \in {"string", "clear"} => text[sb[t]] = <<Host, t>>

TextOK == /\ \A b \in idle : text[b] = <<>>
          /\ \A t \in Thread : Written(t)

(* A builder is free or lent, not both. *)
PoolSplit == idle \cap allocated = {}

PoolIInv == PoolTypeOK /\ BuilderExclusive /\ NoPoolLeak /\ PoolSplit
            /\ TextOK /\ IdWellFormed

-----------------------------------------------------------------------------
(* No thread has made an id and no builder exists. *)
LEMMA PoolInitIInv == PoolInit => PoolIInv
<1> SUFFICES ASSUME PoolInit PROVE PoolIInv
  OBVIOUS
<1> USE PoolAssumption DEF PoolInit, Busy
<1>1. <<>> \in Seq(Thread \cup {Host})
  OBVIOUS
<1>2. PoolTypeOK
  BY <1>1 DEF PoolTypeOK
<1>3. BuilderExclusive /\ NoPoolLeak /\ PoolSplit
  BY DEF BuilderExclusive, NoPoolLeak, PoolSplit
<1>4. TextOK /\ IdWellFormed
  BY DEF TextOK, Written, IdWellFormed
<1> QED
  BY <1>2, <1>3, <1>4 DEF PoolIInv

(* A thread that gets a builder nobody has, empty, keeps the invariant. *)
LEMMA GetKeeps ==
  ASSUME PoolIInv, NEW t \in Thread, GetObject(t)
  PROVE  PoolIInv'
<1> USE PoolAssumption DEF Busy
<1>1. PICK b \in Builder :
        /\ Takes(t, b)
        /\ pc[t] = "get"
        /\ \A u \in Thread : sb[u] # b
        /\ \/ /\ b \in idle /\ idle' = idle \ {b} /\ allocated' = allocated \cup {b}
              /\ text' = text
           \/ /\ idle' = idle /\ b \notin idle \cup allocated
              /\ allocated' \in {allocated, allocated \cup {b}}
              /\ text' = [text EXCEPT ![b] = <<>>]
  <2>1. CASE GetIdle(t)
    BY <2>1 DEF GetIdle, PoolIInv, PoolTypeOK, BuilderExclusive
  <2>2. CASE GetCreated(t)
    BY <2>2 DEF GetCreated, IsNew
  <2>3. CASE GetFallback(t)
    BY <2>3 DEF GetFallback, IsNew
  <2> QED
    BY <2>1, <2>2, <2>3 DEF GetObject
<1>2. /\ sb' = [sb EXCEPT ![t] = b] /\ pc' = [pc EXCEPT ![t] = "host"] /\ id' = id
  BY <1>1 DEF Takes
<1>0. <<>> \in Seq(Thread \cup {Host})
  OBVIOUS
<1>3. PoolTypeOK'
  <2>1. text' \in [Builder -> Seq(Thread \cup {Host})]
    BY <1>0, <1>1 DEF PoolIInv, PoolTypeOK
  <2>2. idle' \subseteq Builder /\ allocated' \subseteq Builder
    BY <1>1 DEF PoolIInv, PoolTypeOK
  <2>3. /\ pc' \in [Thread -> Busy \cup {"idle", "get"}]
        /\ sb' \in [Thread -> Builder \cup {NoBuilder}]
        /\ \A u \in Thread : sb'[u] = NoBuilder <=> pc'[u] \notin Busy
    BY <1>1, <1>2 DEF PoolIInv, PoolTypeOK
  <2> QED
    BY <1>2, <2>1, <2>2, <2>3 DEF PoolIInv, PoolTypeOK
<1>4. BuilderExclusive'
  BY <1>1, <1>2 DEF PoolIInv, PoolTypeOK, BuilderExclusive
<1>5. NoPoolLeak' /\ PoolSplit'
  <2>1. ASSUME NEW c \in allocated' PROVE \E u \in Thread : sb'[u] = c /\ pc'[u] \in Busy
    <3>1. CASE c = b
      BY <1>2, <3>1 DEF PoolIInv, PoolTypeOK
    <3>2. CASE c # b
      <4>1. PICK u \in Thread : sb[u] = c /\ pc[u] \in Busy
        BY <1>1, <2>1, <3>2 DEF PoolIInv, NoPoolLeak
      <4> QED
        BY <1>1, <1>2, <4>1 DEF PoolIInv, PoolTypeOK
    <3> QED
      BY <3>1, <3>2
  <2>2. PoolSplit'
    BY <1>1 DEF PoolIInv, PoolSplit
  <2> QED
    BY <2>1, <2>2 DEF NoPoolLeak
<1>6. TextOK'
  <2>1. text'[b] = <<>> /\ \A c \in Builder : c # b => text'[c] = text[c]
    BY <1>1 DEF PoolIInv, PoolTypeOK, TextOK
  <2>2. \A c \in idle' : text'[c] = <<>>
    BY <1>1, <2>1 DEF PoolIInv, PoolTypeOK, TextOK
  <2>3. ASSUME NEW u \in Thread PROVE Written(u)'
    BY <1>1, <1>2, <2>1 DEF PoolIInv, PoolTypeOK, TextOK, Written
  <2> QED
    BY <2>2, <2>3 DEF TextOK
<1>7. IdWellFormed'
  BY <1>2 DEF PoolIInv, IdWellFormed
<1> QED
  BY <1>3, <1>4, <1>5, <1>6, <1>7 DEF PoolIInv

(* A sequence of one, with one more behind it. *)
LEMMA AppendToOne ==
  ASSUME NEW x, NEW y
  PROVE  Append(<<x>>, y) = <<x, y>>
<1> DEFINE S == {x, y}
           s == Append(<<x>>, y)
<1>1. <<x>> \in Seq(S) /\ Len(<<x>>) = 1 /\ <<x>>[1] = x /\ y \in S
  OBVIOUS
<1>2. s \in Seq(S) /\ Len(s) = 2 /\ s[1] = x /\ s[2] = y
  <2> HIDE DEF S
  <2> QED
    BY <1>1, AppendProperties
<1>3. <<x, y>> \in Seq(S) /\ Len(<<x, y>>) = 2 /\ <<x, y>>[1] = x /\ <<x, y>>[2] = y
  OBVIOUS
<1>4. \A i \in 1 .. Len(s) : s[i] = <<x, y>>[i]
  <2> HIDE DEF s, S
  <2>1. \A i \in 1 .. 2 : i = 1 \/ i = 2
    OBVIOUS
  <2> QED
    BY <1>2, <1>3, <2>1
<1> QED
  <2> HIDE DEF s, S
  <2>1. s = <<x, y>>
    BY <1>2, <1>3, <1>4, SeqEqual
  <2> QED
    BY <2>1 DEF s

(* The user of a builder may append to it and clear it: nobody else has it. *)
LEMMA UseKeeps ==
  ASSUME PoolIInv, NEW t \in Thread,
         AppendHost(t) \/ AppendNumber(t) \/ ToString(t) \/ Clear(t)
  PROVE  PoolIInv'
<1> USE PoolAssumption DEF Busy
<1>1. /\ UNCHANGED <<idle, allocated, sb>>
      /\ pc[t] \in Busy
      /\ sb[t] \in Builder
  BY DEF AppendHost, AppendNumber, AppendPart, ToString, Clear, PoolIInv, PoolTypeOK
<1>2. \E s \in Seq(Thread \cup {Host}) : text' = [text EXCEPT ![sb[t]] = s]
  <2>0. text[sb[t]] \in Seq(Thread \cup {Host})
    BY <1>1 DEF PoolIInv, PoolTypeOK
  <2>1. CASE ToString(t)
    <3>1. text' = [text EXCEPT ![sb[t]] = text[sb[t]]]
      BY <1>1, <2>1 DEF ToString, PoolIInv, PoolTypeOK
    <3> QED
      BY <2>0, <3>1
  <2>2. CASE AppendHost(t)
    <3>1. Append(text[sb[t]], Host) \in Seq(Thread \cup {Host})
      BY <2>0
    <3> QED
      BY <2>2, <3>1 DEF AppendHost, AppendPart
  <2>3. CASE AppendNumber(t)
    <3>1. Append(text[sb[t]], t) \in Seq(Thread \cup {Host})
      BY <2>0
    <3> QED
      BY <2>3, <3>1 DEF AppendNumber, AppendPart
  <2>4. CASE Clear(t)
    <3>1. <<>> \in Seq(Thread \cup {Host})
      OBVIOUS
    <3> QED
      BY <2>4, <3>1 DEF Clear
  <2> QED
    BY <2>1, <2>2, <2>3, <2>4
<1>3. \E p \in Busy : pc' = [pc EXCEPT ![t] = p]
  BY DEF AppendHost, AppendNumber, ToString, Clear
<1>4. Written(t)'
  <2>1. CASE AppendHost(t)
    <3>1. text[sb[t]] = <<>>
      BY <2>1 DEF AppendHost, Written, PoolIInv, TextOK
    <3>2. Append(<<>>, Host) = <<Host>>
      OBVIOUS
    <3> QED
      BY <1>1, <2>1, <3>1, <3>2 DEF AppendHost, AppendPart, Written, PoolIInv, PoolTypeOK
  <2>2. CASE AppendNumber(t)
    <3>1. text[sb[t]] = <<Host>>
      BY <2>2 DEF AppendNumber, Written, PoolIInv, TextOK
    <3>2. Append(<<Host>>, t) = <<Host, t>>
      BY AppendToOne
    <3> QED
      BY <1>1, <2>2, <3>1, <3>2 DEF AppendNumber, AppendPart, Written, PoolIInv, PoolTypeOK
  <2>3. CASE ToString(t)
    BY <1>1, <2>3 DEF ToString, Written, PoolIInv, PoolTypeOK, TextOK
  <2>4. CASE Clear(t)
    BY <1>1, <2>4 DEF Clear, Written, PoolIInv, PoolTypeOK, TextOK
  <2> QED
    BY <2>1, <2>2, <2>3, <2>4
<1>5. id' \in [Thread -> Seq(Thread \cup {Host})] /\ IdWellFormed'
  <2>1. CASE ToString(t)
    <3>1. text[sb[t]] = <<Host, t>> /\ text[sb[t]] \in Seq(Thread \cup {Host})
      BY <1>1, <2>1 DEF ToString, PoolIInv, PoolTypeOK, TextOK, Written
    <3> QED
      BY <2>1, <3>1 DEF ToString, PoolIInv, PoolTypeOK, IdWellFormed
  <2> QED
    BY <2>1 DEF AppendHost, AppendNumber, AppendPart, Clear, PoolIInv, PoolTypeOK,
                IdWellFormed
<1>6. PoolTypeOK'
  <2>1. text' \in [Builder -> Seq(Thread \cup {Host})]
    BY <1>2 DEF PoolIInv, PoolTypeOK
  <2>2. /\ pc' \in [Thread -> Busy \cup {"idle", "get"}]
        /\ \A u \in Thread : sb'[u] = NoBuilder <=> pc'[u] \notin Busy
    BY <1>1, <1>3 DEF PoolIInv, PoolTypeOK
  <2> QED
    BY <1>1, <1>5, <2>1, <2>2 DEF PoolIInv, PoolTypeOK
<1>7. BuilderExclusive' /\ NoPoolLeak' /\ PoolSplit'
  BY <1>1, <1>3 DEF PoolIInv, PoolTypeOK, BuilderExclusive, NoPoolLeak, PoolSplit
<1>8. TextOK'
  <2>1. \A b \in Builder : b # sb[t] => text'[b] = text[b]
    BY <1>2 DEF PoolIInv, PoolTypeOK
  <2>2. \A u \in Thread : u # t => pc'[u] = pc[u] /\ sb[u] # sb[t]
    BY <1>1, <1>3 DEF PoolIInv, PoolTypeOK, BuilderExclusive
  <2>3. sb[t] \notin idle
    BY <1>1 DEF PoolIInv, BuilderExclusive
  <2>4. ASSUME NEW u \in Thread, u # t PROVE Written(u)'
    BY <1>1, <2>1, <2>2, <2>4 DEF PoolIInv, PoolTypeOK, TextOK, Written
  <2> QED
    BY <1>1, <1>4, <2>1, <2>3, <2>4 DEF PoolIInv, PoolTypeOK, TextOK
<1> QED
  BY <1>5, <1>6, <1>7, <1>8 DEF PoolIInv

(* A builder that goes back is empty, and nobody has it any more. *)
LEMMA ReturnKeeps ==
  ASSUME PoolIInv, NEW t \in Thread, Return(t)
  PROVE  PoolIInv'
<1> USE PoolAssumption DEF Busy
<1>1. /\ sb[t] \in Builder /\ text[sb[t]] = <<>>
      /\ \A u \in Thread \ {t} : sb[u] # sb[t]
      /\ sb' = [sb EXCEPT ![t] = NoBuilder] /\ pc' = [pc EXCEPT ![t] = "idle"]
      /\ text' = text /\ id' = id
      /\ allocated' = allocated \ {sb[t]}
      /\ idle' = idle \/ idle' = idle \cup {sb[t]}
  BY DEF Return, Lets, PoolIInv, PoolTypeOK, BuilderExclusive, TextOK, Written
<1>2. PoolTypeOK'
  BY <1>1 DEF PoolIInv, PoolTypeOK
<1>3. BuilderExclusive'
  BY <1>1 DEF PoolIInv, PoolTypeOK, BuilderExclusive
<1>4. NoPoolLeak' /\ PoolSplit'
  BY <1>1 DEF PoolIInv, PoolTypeOK, NoPoolLeak, PoolSplit
<1>5. TextOK'
  BY <1>1 DEF PoolIInv, PoolTypeOK, TextOK, Written
<1>6. IdWellFormed'
  BY <1>1 DEF PoolIInv, IdWellFormed
<1> QED
  BY <1>2, <1>3, <1>4, <1>5, <1>6 DEF PoolIInv

(* StringBuilderPool and generateTraceId: in every reachable state a       *)
(* builder has one user and holds what that user appended, and what is     *)
(* free is empty.                                                          *)
THEOREM PoolInvariant == PoolSpec => []PoolIInv
<1>1. PoolIInv /\ [PoolNext]_poolVars => PoolIInv'
  <2> SUFFICES ASSUME PoolIInv, [PoolNext]_poolVars PROVE PoolIInv'
    OBVIOUS
  <2>1. CASE UNCHANGED poolVars
    BY <2>1 DEF poolVars, PoolIInv, PoolTypeOK, BuilderExclusive, NoPoolLeak,
                PoolSplit, TextOK, Written, IdWellFormed
  <2>2. ASSUME NEW t \in Thread, Generate(t) PROVE PoolIInv'
    <3> USE <2>2, PoolAssumption DEF Generate, Busy
    <3>1. PoolTypeOK'
      BY DEF PoolIInv, PoolTypeOK
    <3>2. BuilderExclusive' /\ NoPoolLeak' /\ PoolSplit'
      BY DEF PoolIInv, PoolTypeOK, BuilderExclusive, NoPoolLeak, PoolSplit
    <3>3. TextOK' /\ IdWellFormed'
      BY DEF PoolIInv, PoolTypeOK, TextOK, Written, IdWellFormed
    <3> QED
      BY <3>1, <3>2, <3>3 DEF PoolIInv
  <2> QED
    BY <2>1, <2>2, GetKeeps, UseKeeps, ReturnKeeps DEF PoolNext, Generating
<1> QED
  BY PoolInitIInv, <1>1, PTL DEF PoolSpec

-----------------------------------------------------------------------------
(* StringBuilderPool.getObject: no builder is used by two threads, for any *)
(* pool size and any number of fallback builders.                          *)
THEOREM NoSharedBuilder == PoolSpec => []BuilderExclusive
BY PoolInvariant, PTL DEF PoolIInv

(* TraceIdUtil.generateTraceId: an id has the parts of its own thread. *)
THEOREM IdsOwnParts == PoolSpec => []IdWellFormed
BY PoolInvariant, PTL DEF PoolIInv

(* StringBuilderPool.returnObject: the pool loses no builder. *)
THEOREM PoolKeepsBuilders == PoolSpec => []NoPoolLeak
BY PoolInvariant, PTL DEF PoolIInv

-----------------------------------------------------------------------------
(* The pool has its size, with the finiteness that counting needs. *)
PoolSized == IsFiniteSet(idle \cup allocated) /\ PoolBounded

(* Builders that leave the pool, or change their place in it, make it no   *)
(* larger.                                                                 *)
LEMMA SmallerPool ==
  ASSUME PoolSized, idle' \cup allocated' \subseteq idle \cup allocated,
         Cardinality(idle') <= MaxIdle
  PROVE  PoolSized'
<1>1. /\ IsFiniteSet(idle' \cup allocated')
      /\ Cardinality(idle' \cup allocated') <= Cardinality(idle \cup allocated)
  BY FS_Subset DEF PoolSized
<1>2. /\ Cardinality(idle' \cup allocated') \in Nat
      /\ Cardinality(idle \cup allocated) \in Nat
  BY <1>1, FS_CardinalityType DEF PoolSized
<1> QED
  BY <1>1, <1>2, PoolAssumption DEF PoolSized, PoolBounded

(* A builder that is taken out of the free ones leaves fewer of them. *)
LEMMA FewerIdle ==
  ASSUME PoolSized, idle' \subseteq idle
  PROVE  Cardinality(idle') <= MaxIdle
<1>1. IsFiniteSet(idle)
  BY FS_Subset DEF PoolSized
<1>2. Cardinality(idle') <= Cardinality(idle) /\ IsFiniteSet(idle')
  BY <1>1, FS_Subset
<1>3. Cardinality(idle') \in Nat /\ Cardinality(idle) \in Nat
  BY <1>1, <1>2, FS_CardinalityType
<1> QED
  BY <1>2, <1>3, PoolAssumption DEF PoolSized, PoolBounded

(* Every step keeps the size: the factory is asked only while the pool is  *)
(* smaller than MaxTotal, and what comes back is taken in only if it was   *)
(* lent and fewer than MaxIdle are free.                                   *)
LEMMA SizeKept ==
  ASSUME PoolSized, [PoolNext]_poolVars
  PROVE  PoolSized'
<1>1. ASSUME NEW t \in Thread, GetIdle(t) PROVE PoolSized'
  <2>1. PICK b \in idle : idle' = idle \ {b} /\ allocated' = allocated \cup {b}
    BY <1>1 DEF GetIdle
  <2>2. idle' \subseteq idle /\ idle' \cup allocated' \subseteq idle \cup allocated
    BY <2>1
  <2> QED
    BY <2>2, FewerIdle, SmallerPool
<1>2. ASSUME NEW t \in Thread, GetCreated(t) PROVE PoolSized'
  <2>1. PICK b \in Builder :
          /\ idle = {} /\ idle' = {} /\ allocated' = allocated \cup {b}
          /\ b \notin allocated /\ Cardinality(allocated) < MaxTotal
    BY <1>2 DEF GetCreated, IsNew
  <2>2. IsFiniteSet(allocated)
    BY <2>1, FS_Subset DEF PoolSized
  <2>3. /\ IsFiniteSet(allocated')
        /\ Cardinality(allocated') = Cardinality(allocated) + 1
    BY <2>1, <2>2, FS_AddElement
  <2>4. Cardinality(allocated) \in Nat
    BY <2>2, FS_CardinalityType
  <2>5. Cardinality(idle') <= MaxIdle
    BY <2>1, FS_EmptySet, PoolAssumption
  <2>6. idle' \cup allocated' = allocated'
    BY <2>1
  <2> QED
    BY <2>1, <2>3, <2>4, <2>5, <2>6, PoolAssumption DEF PoolSized, PoolBounded
<1>3. ASSUME NEW t \in Thread, Return(t) PROVE PoolSized'
  <2>1. /\ allocated' = allocated \ {sb[t]}
        /\ \/ idle' = idle
           \/ /\ sb[t] \in allocated /\ Cardinality(idle) < MaxIdle
              /\ idle' = idle \cup {sb[t]}
    BY <1>3 DEF Return
  <2>2. CASE idle' = idle
    <3>1. idle' \cup allocated' \subseteq idle \cup allocated /\ idle' \subseteq idle
      BY <2>1, <2>2
    <3> QED
      BY <3>1, FewerIdle, SmallerPool
  <2>3. CASE /\ sb[t] \in allocated /\ Cardinality(idle) < MaxIdle
             /\ idle' = idle \cup {sb[t]}
    <3>1. IsFiniteSet(idle) /\ Cardinality(idle) \in Nat
      BY FS_Subset, FS_CardinalityType DEF PoolSized
    <3>2. Cardinality(idle') \in {Cardinality(idle), Cardinality(idle) + 1}
      BY <2>3, <3>1, FS_AddElement
    <3>3. Cardinality(idle') <= MaxIdle
      BY <2>3, <3>1, <3>2, PoolAssumption
    <3>4. idle' \cup allocated' \subseteq idle \cup allocated
      BY <2>1, <2>3
    <3> QED
      BY <3>3, <3>4, SmallerPool
  <2> QED
    BY <2>1, <2>2, <2>3
<1>4. ASSUME UNCHANGED <<idle, allocated>> PROVE PoolSized'
  BY <1>4 DEF PoolSized, PoolBounded
<1>5. ASSUME NEW t \in Thread,
             Generate(t) \/ GetFallback(t) \/ AppendHost(t) \/ AppendNumber(t)
               \/ ToString(t) \/ Clear(t)
      PROVE  PoolSized'
  BY <1>4, <1>5 DEF Generate, GetFallback, AppendHost, AppendNumber, AppendPart,
                    ToString, Clear
<1>6. CASE UNCHANGED poolVars
  BY <1>4, <1>6 DEF poolVars
<1> QED
  BY <1>1, <1>2, <1>3, <1>5, <1>6 DEF PoolNext, Generating, GetObject

(* StringBuilderPool.getConf: the pool keeps to its limits, for any number *)
(* of threads, and however many fallback builders are offered to it.       *)
THEOREM PoolKeepsSize == PoolSpec => []PoolBounded
<1>1. PoolInit => PoolSized
  BY FS_EmptySet, PoolAssumption DEF PoolInit, PoolSized, PoolBounded
<1>2. PoolSized /\ [PoolNext]_poolVars => PoolSized'
  BY SizeKept
<1>3. PoolSized => PoolBounded
  BY DEF PoolSized
<1> QED
  BY <1>1, <1>2, <1>3, PTL DEF PoolSpec

=============================================================================
