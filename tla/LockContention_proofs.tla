------------------------ MODULE LockContention_proofs ------------------------
(***************************************************************************)
(* When lock() may return null, for any finite number of threads and any   *)
(* number of processes, directories and lock files: a caller is turned     *)
(* away only when its walk overlapped Num others.                          *)
(*                                                                         *)
(* The walk finds each file busy at a different moment, so no state shows  *)
(* Num holders.  What can be counted is where the callers it met stand     *)
(* now: below file m of the walk there are at least m of them.             *)
(***************************************************************************)
EXTENDS LockContention, FileLimitedLock_proofs

(* A call of lock() begins at the first file. *)
IdleAtFirst == \A t \in Thread : pc[t] = "idle" => idx[t] = 0

(* While nothing was shut down, a running process has every file open. *)
AllOpen == \A j \in Jvm : live[j] => open[j] = Index

(* The callers that t has met and that stand before file m of the walk. *)
MetBelow(t, m) == {u \in met[t] : idx[u] < m}

(* What a walk that has come to file idx[t] has met: every caller of now,  *)
(* callers of its directory only, and for each file it has passed one that *)
(* stands before the next.                                                 *)
WalkMet(t) == /\ Others(t) \subseteq met[t]
              /\ met[t] \subseteq {u \in Thread \ {t} :
                                     DirOf[JvmOf[u]] = DirOf[JvmOf[t]]}
              /\ \A m \in 0 .. idx[t] : Cardinality(MetBelow(t, m)) >= m

WalksMet == \A t \in Thread : pc[t] = "scan" => WalkMet(t)

(* The inductive invariant. *)
ContentionIInv == /\ LockIInv
                  /\ IdleAtFirst
                  /\ calm => Owned /\ AllOpen /\ WalksMet

-----------------------------------------------------------------------------
(* The behaviours of the module are behaviours of the limiter. *)
LEMMA ContentionIsLock == [ContentionNext]_contentionVars => [LockNext]_lockVars
BY DEF ContentionNext, contentionVars, lockVars

(* A larger set of callers counts at least as many. *)
LEMMA MoreCounted ==
  ASSUME NEW S \in SUBSET Thread, NEW R \in SUBSET S, NEW m \in Int,
         Cardinality(R) >= m
  PROVE  Cardinality(S) >= m
<1>1. IsFiniteSet(S)
  BY ContentionAssumption, FS_Subset
<1>2. Cardinality(R) <= Cardinality(S) /\ IsFiniteSet(R)
  BY <1>1, FS_Subset
<1> QED
  BY <1>1, <1>2, FS_CardinalityType

(* One more caller counts one more. *)
LEMMA OneMoreCounted ==
  ASSUME NEW S \in SUBSET Thread, NEW R \in SUBSET S, NEW v \in S \ R,
         NEW m \in Int, Cardinality(R) >= m
  PROVE  Cardinality(S) >= m + 1
<1>1. IsFiniteSet(R)
  BY ContentionAssumption, FS_Subset
<1>2. Cardinality(R \cup {v}) = Cardinality(R) + 1
  BY <1>1, FS_AddElement
<1>3. Cardinality(R \cup {v}) >= m + 1
  BY <1>1, <1>2, FS_CardinalityType
<1> QED
  BY <1>3, MoreCounted

(* FileLimitedLock.lock, tryLock == null: while all is calm a file is busy *)
(* only because another caller of the directory holds it.                  *)
LEMMA BusyHeld ==
  ASSUME LockIInv, Owned, AllOpen,
         NEW t \in Thread, Trying(t), ~CanLock(JvmOf[t], idx[t])
  PROVE  \E v \in Others(t) : pc[v] = "hold" /\ idx[v] = idx[t]
<1> USE LockAssumption DEF LockIInv, LockTypeOK
<1>1. idx[t] \in Index /\ live[JvmOf[t]] /\ pc[t] = "scan"
  BY DEF Trying, Index, UsersAlive
<1>2. idx[t] \in open[JvmOf[t]]
  BY <1>1 DEF AllOpen
<1>3. FileOf(JvmOf[t], idx[t]) \in File /\ owner[FileOf(JvmOf[t], idx[t])] # NoJvm
  BY <1>1, <1>2 DEF CanLock, FileOf, File
<1>4. PICK v \in Thread : Holds(v) /\ HeldFile(v) = FileOf(JvmOf[t], idx[t])
  BY <1>3 DEF Owned
<1>5. pc[v] = "hold" /\ idx[v] = idx[t] /\ DirOf[JvmOf[v]] = DirOf[JvmOf[t]]
  BY <1>4 DEF Holds, HeldFile, FileOf
<1> QED
  BY <1>1, <1>5 DEF Others

-----------------------------------------------------------------------------
(* A step of a calm history keeps every file open and owned. *)
LEMMA CalmKept ==
  ASSUME LockIInv, Owned, AllOpen, LockNext, Calm
  PROVE  Owned' /\ AllOpen'
<1>1. Owned'
  BY OwnedPreserved DEF Calm
<1>2. AllOpen'
  BY DEF Calm, AllOpen, Index
<1> QED
  BY <1>1, <1>2

(* Everyone but a walk that goes on to the next file stands where it stood *)
(* or at the first file.                                                   *)
LEMMA NobodyAdvances ==
  ASSUME LockIInv, LockNext, NEW u \in Thread,
         \A t \in Thread : ~TryLockFails(t)
  PROVE  idx'[u] = idx[u] \/ idx'[u] = 0
<1> USE LockAssumption DEF LockIInv, LockTypeOK
<1>1. ASSUME NEW t \in Thread, Lock(t) \/ Scan(t) \/ Unlock(t)
      PROVE  idx'[u] = idx[u] \/ idx'[u] = 0
  BY <1>1 DEF Lock, Scan, TryLockAcquires, LockReturnsNull, Unlock
<1>2. ASSUME NEW j \in Jvm, Start(j) \/ CloseStream(j) \/ Crash(j)
      PROVE  idx'[u] = idx[u] \/ idx'[u] = 0
  BY <1>2 DEF Start, CloseStream, Crash
<1> QED
  BY <1>1, <1>2 DEF LockNext

(* lock() is entered at the first file. *)
LEMMA WalkBegins ==
  ASSUME LockIInv, IdleAtFirst, LockNext, NEW t \in Thread,
         pc[t] # "scan", pc'[t] = "scan"
  PROVE  idx'[t] = 0
<1> USE LockAssumption DEF LockIInv, LockTypeOK
<1>1. ASSUME NEW u \in Thread, Lock(u) PROVE idx'[t] = 0
  BY <1>1 DEF Lock, IdleAtFirst
<1>2. ASSUME NEW u \in Thread, Scan(u) \/ Unlock(u) PROVE FALSE
  BY <1>2 DEF Scan, TryLockAcquires, TryLockFails, LockReturnsNull, Unlock
<1>3. ASSUME NEW j \in Jvm, Start(j) \/ CloseStream(j) \/ Crash(j) PROVE FALSE
  BY <1>3 DEF Start, CloseStream, Crash
<1> QED
  BY <1>1, <1>2, <1>3 DEF LockNext

(* The callers a calm walk has met after a step: those of before, if it    *)
(* was under way, and those of now.                                        *)
LEMMA MetAfter ==
  ASSUME LockIInv, LockTypeOK', Meets, calm', NEW t \in Thread, pc'[t] = "scan",
         pc[t] = "scan" => WalkMet(t)
  PROVE  /\ pc[t] = "scan" => met[t] \subseteq met'[t]
         /\ Others(t)' \subseteq met'[t]
         /\ met'[t] \subseteq {u \in Thread \ {t} : DirOf[JvmOf[u]] = DirOf[JvmOf[t]]}
<1>1. met'[t] = Others(t)' \cup (IF pc[t] = "scan" THEN met[t] ELSE {})
  BY DEF Meets
<1>2. Others(t)' \subseteq {u \in Thread \ {t} : DirOf[JvmOf[u]] = DirOf[JvmOf[t]]}
  BY DEF Others
<1> QED
  BY <1>1, <1>2 DEF WalkMet

(* Before the first file nobody has to stand. *)
LEMMA NoneBelowFirst ==
  ASSUME NEW t \in Thread, met'[t] \subseteq Thread
  PROVE  Cardinality(MetBelow(t, 0)') >= 0
<1>1. MetBelow(t, 0)' \in SUBSET Thread
  BY DEF MetBelow
<1>2. IsFiniteSet(MetBelow(t, 0)')
  BY <1>1, ContentionAssumption, FS_Subset
<1> QED
  BY <1>2, FS_CardinalityType

(* A walk that begins, or goes on while nobody advances: those it met      *)
(* stand no further than before.                                           *)
LEMMA WalkKept ==
  ASSUME LockIInv, LockTypeOK', IdleAtFirst, LockNext, Meets, calm',
         NEW t \in Thread, pc'[t] = "scan", pc[t] = "scan" => WalkMet(t),
         \A u \in Thread : ~TryLockFails(u)
  PROVE  WalkMet(t)'
<1> SUFFICES ASSUME NEW m \in 0 .. idx'[t]
             PROVE  Cardinality(MetBelow(t, m)') >= m
  BY MetAfter DEF WalkMet
<1>1. met'[t] \subseteq Thread
  BY MetAfter
<1>2. CASE m = 0
  BY <1>1, <1>2, NoneBelowFirst
<1>3. CASE m # 0
  <2>0. m \in Int /\ m > 0 /\ m <= idx'[t]
    BY <1>3 DEF LockTypeOK
  <2>1. pc[t] = "scan"
    BY <2>0, WalkBegins
  <2>2. idx'[t] = idx[t]
    BY <2>0, NobodyAdvances
  <2>3. MetBelow(t, m) \subseteq MetBelow(t, m)'
    <3> SUFFICES ASSUME NEW u \in met[t], idx[u] < m
                 PROVE  u \in met'[t] /\ idx'[u] < m
      BY DEF MetBelow
    <3>1. u \in met'[t]
      BY <2>1, MetAfter
    <3> QED
      BY <1>1, <2>0, <3>1, NobodyAdvances
  <2>4. Cardinality(MetBelow(t, m)) >= m
    BY <2>0, <2>1, <2>2 DEF WalkMet
  <2>5. MetBelow(t, m)' \in SUBSET Thread
    BY <1>1 DEF MetBelow
  <2> QED
    BY <2>0, <2>3, <2>4, <2>5, MoreCounted
<1> QED
  BY <1>2, <1>3

(* FileLimitedLock.lock, on to the next file: the walker, or a caller it   *)
(* met, leaves file i behind because a third one holds it.                 *)
LEMMA WalkAdvances ==
  ASSUME LockIInv, LockTypeOK', Owned, AllOpen, WalksMet, Meets, calm',
         NEW u \in Thread, TryLockFails(u), NEW t \in Thread, pc'[t] = "scan"
  PROVE  WalkMet(t)'
<1> DEFINE i == idx[u]
<1>1. /\ Trying(u) /\ pc' = pc /\ pc[t] = "scan"
      /\ idx' = [idx EXCEPT ![u] = i + 1]
  BY DEF TryLockFails
<1>2. ~CanLock(JvmOf[u], i)
  BY DEF Meets, Calm
<1>3. PICK v \in Others(u) : pc[v] = "hold" /\ idx[v] = i
  BY <1>1, <1>2, BusyHeld
<1>4. WalkMet(t) /\ i \in 0 .. Num /\ idx \in [Thread -> 0 .. Num] /\ Num \in Nat
  BY <1>1, LockAssumption DEF WalksMet, LockIInv, LockTypeOK
<1> HIDE DEF i
<1>5. /\ met[t] \subseteq met'[t] /\ met'[t] \subseteq Thread
  BY <1>1, <1>4, MetAfter
<1> SUFFICES ASSUME NEW m \in 0 .. idx'[t]
             PROVE  Cardinality(MetBelow(t, m)') >= m
  BY <1>1, <1>4, MetAfter DEF WalkMet
<1>6. m \in Int /\ MetBelow(t, m)' \in SUBSET Thread
  BY <1>5 DEF MetBelow, LockTypeOK
<1>7. CASE (u = t \/ u \in met[t]) /\ m = i + 1
  <2>1. v \in met[t] /\ v # u
    <3>1. v \in Thread \ {u, t} /\ DirOf[JvmOf[v]] = DirOf[JvmOf[u]] /\ pc[v] # "idle"
      BY <1>1, <1>3 DEF Others
    <3>2. DirOf[JvmOf[u]] = DirOf[JvmOf[t]]
      BY <1>4, <1>7 DEF WalkMet
    <3> QED
      BY <1>4, <3>1, <3>2 DEF WalkMet, Others
  <2>2. i \in 0 .. idx[t]
    BY <1>1, <1>4, <1>7 DEF i
  <2>3. Cardinality(MetBelow(t, i)) >= i
    BY <1>4, <2>2 DEF WalkMet
  <2>4. MetBelow(t, i) \subseteq MetBelow(t, m)'
    <3> SUFFICES ASSUME NEW w \in met[t], idx[w] < i
                 PROVE  w \in met'[t] /\ idx'[w] < m
      BY DEF MetBelow
    <3>1. w # u /\ w \in Thread
      BY <1>4, <1>5 DEF i
    <3> QED
      BY <1>1, <1>4, <1>5, <1>7, <3>1
  <2>5. v \in MetBelow(t, m)' \ MetBelow(t, i)
    BY <1>1, <1>3, <1>4, <1>5, <1>7, <2>1 DEF MetBelow
  <2> QED
    BY <1>4, <1>6, <1>7, <2>3, <2>4, <2>5, OneMoreCounted
<1>8. CASE ~((u = t \/ u \in met[t]) /\ m = i + 1)
  <2>1. m \in 0 .. idx[t]
    BY <1>1, <1>4, <1>8 DEF i
  <2>2. Cardinality(MetBelow(t, m)) >= m
    BY <1>4, <2>1 DEF WalkMet
  <2>3. MetBelow(t, m) \subseteq MetBelow(t, m)'
    <3> SUFFICES ASSUME NEW w \in met[t], idx[w] < m
                 PROVE  w \in met'[t] /\ idx'[w] < m
      BY DEF MetBelow
    <3>1. w \in Thread /\ idx[w] \in Int /\ m \in Int /\ i \in Int
      BY <1>4, <1>5, <1>6
    <3>2. CASE w = u
      BY <1>1, <1>4, <1>5, <1>8, <3>1, <3>2 DEF i
    <3>3. CASE w # u
      BY <1>1, <1>4, <1>5, <3>1, <3>3
    <3> QED
      BY <3>2, <3>3
  <2> QED
    BY <1>6, <2>2, <2>3, MoreCounted
<1> QED
  BY <1>7, <1>8

-----------------------------------------------------------------------------
(* At the start nobody walks and nothing is open. *)
LEMMA ContentionInitIInv == ContentionInit => ContentionIInv
<1> SUFFICES ASSUME ContentionInit PROVE ContentionIInv
  OBVIOUS
<1>1. LockIInv
  BY LockInitIInv DEF ContentionInit
<1> QED
  BY <1>1, LockAssumption
     DEF ContentionInit, LockInit, ContentionIInv, IdleAtFirst, Owned, AllOpen, WalksMet

(* A call that returns, or a process that ends, leaves no index behind. *)
LEMMA IdleAtFirstKept ==
  ASSUME LockIInv, IdleAtFirst, LockNext
  PROVE  IdleAtFirst'
<1> USE LockAssumption DEF LockIInv, LockTypeOK, IdleAtFirst
<1>1. ASSUME NEW t \in Thread, Lock(t) \/ Scan(t) \/ Unlock(t) PROVE IdleAtFirst'
  BY <1>1 DEF Lock, Scan, TryLockAcquires, TryLockFails, Trying, LockReturnsNull, Unlock
<1>2. ASSUME NEW j \in Jvm, Start(j) \/ CloseStream(j) \/ Crash(j) PROVE IdleAtFirst'
  BY <1>2 DEF Start, CloseStream, Crash
<1> QED
  BY <1>1, <1>2 DEF LockNext

(* Every step keeps the inductive invariant. *)
LEMMA ContentionPreserved ==
  ContentionIInv /\ [ContentionNext]_contentionVars => ContentionIInv'
<1> SUFFICES ASSUME ContentionIInv, [ContentionNext]_contentionVars
             PROVE  ContentionIInv'
  OBVIOUS
<1>1. CASE ContentionNext
  <2>1. LockNext /\ Meets /\ LockIInv /\ IdleAtFirst
    BY <1>1 DEF ContentionNext, ContentionIInv
  <2>2. LockIInv' /\ LockTypeOK'
    BY <2>1, LockTypePreserved, LockStepPreserved DEF LockIInv
  <2>3. IdleAtFirst'
    BY <2>1, IdleAtFirstKept
  <2>4. ASSUME calm' PROVE Owned' /\ AllOpen' /\ WalksMet'
    <3>1. Calm /\ Owned /\ AllOpen /\ WalksMet
      BY <2>1, <2>4 DEF Meets, ContentionIInv
    <3>2. Owned' /\ AllOpen'
      BY <2>1, <3>1, CalmKept
    <3>3. ASSUME NEW t \in Thread, pc'[t] = "scan" PROVE WalkMet(t)'
      <4>1. CASE \E u \in Thread : TryLockFails(u)
        BY <2>1, <2>2, <2>4, <3>1, <3>3, <4>1, WalkAdvances
      <4>2. CASE \A u \in Thread : ~TryLockFails(u)
        BY <2>1, <2>2, <2>4, <3>1, <3>3, <4>2, WalkKept DEF WalksMet
      <4> QED
        BY <4>1, <4>2
    <3> QED
      BY <3>2, <3>3 DEF WalksMet
  <2> QED
    BY <2>2, <2>3, <2>4 DEF ContentionIInv
<1>2. CASE UNCHANGED contentionVars
  BY <1>2 DEF contentionVars, lockVars, ContentionIInv, LockIInv, LockTypeOK,
     SlotExclusive, LockTable, UsersAlive, Holds, HeldFile, FileOf, IdleAtFirst, Owned,
     AllOpen, WalksMet, WalkMet, Others, MetBelow
<1> QED
  BY <1>1, <1>2

(* FileLimitedLock.lock: in every reachable state, a walk that was not     *)
(* disturbed by a shutdown or a failing file has met as many other callers *)
(* as it has passed files.                                                 *)
THEOREM ContentionInvariant == ContentionSpec => []ContentionIInv
BY ContentionInitIInv, ContentionPreserved, PTL DEF ContentionSpec

(* FileLimitedLock.lock: a calm walk that ends without a file has met at   *)
(* least Num callers.                                                      *)
LEMMA NullIsContended ==
  ASSUME ContentionIInv, NEW t \in Thread, calm, LockReturnsNull(t)
  PROVE  Cardinality(met[t]) >= Num
<1>1. WalkMet(t) /\ idx[t] = Num /\ Num \in Nat
  BY LockAssumption DEF ContentionIInv, WalksMet, LockReturnsNull
<1>2. Cardinality(MetBelow(t, Num)) >= Num
  BY <1>1 DEF WalkMet
<1>3. met[t] \in SUBSET Thread /\ MetBelow(t, Num) \subseteq met[t]
  BY <1>1 DEF WalkMet, MetBelow
<1> QED
  BY <1>1, <1>2, <1>3, MoreCounted

(* FileLimitedLock.lock: whatever order the walks come in and however many *)
(* processes die, lock() returns null only to a caller that at least Num   *)
(* others of its directory overlapped.                                     *)
THEOREM NullMeansContended == ContentionSpec => LimitedOnlyWhenContended
<1>1. ContentionIInv =>
        \A t \in Thread : calm /\ LockReturnsNull(t) => Cardinality(met[t]) >= Num
  BY NullIsContended
<1> QED
  BY <1>1, ContentionInvariant, PTL DEF ContentionSpec, LimitedOnlyWhenContended

(* FileLimitedLock with its history variables: without them a behaviour is *)
(* one of the limiter, so what was proved of the limiter holds here too.   *)
THEOREM ContentionRefines == ContentionSpec => LockSpec
<1>1. ContentionInit => LockInit
  BY DEF ContentionInit
<1> QED
  BY <1>1, ContentionIsLock, PTL DEF ContentionSpec, LockSpec

=============================================================================
