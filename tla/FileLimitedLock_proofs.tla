----------------------- MODULE FileLimitedLock_proofs -----------------------
(***************************************************************************)
(* Proofs about FileLimitedLock for any processes, threads, directories    *)
(* and number of lock files, with and without I/O faults: the type         *)
(* invariant, mutual exclusion on a lock file with the lock table it rests *)
(* on, the bound on the holders, and the refinement of ConcurrencyLimit.   *)
(***************************************************************************)
EXTENDS FileLimitedLock, FiniteSetTheorems, TLAPS

(* FileLimitedLock, @PostConstruct and process end: a thread is in send()  *)
(* only while its process runs.  Without it a process that starts again    *)
(* could revive the lock of a thread that no longer exists.                *)
UsersAlive == \A t \in Thread : pc[t] # "idle" => live[JvmOf[t]]

(* The inductive invariant. *)
LockIInv == LockTypeOK /\ SlotExclusive /\ LockTable /\ UsersAlive

-----------------------------------------------------------------------------
(* Before any process has started nothing is open or locked. *)
LEMMA LockInitIInv == LockInit => LockIInv
<1> SUFFICES ASSUME LockInit PROVE LockIInv
  OBVIOUS
<1> USE LockAssumption DEF LockInit
<1>1. LockTypeOK
  BY DEF LockTypeOK, Index, File
<1>2. SlotExclusive
  BY DEF SlotExclusive, Holds
<1>3. LockTable
  BY DEF LockTable, Holds, File
<1>4. UsersAlive
  BY DEF UsersAlive
<1> QED
  BY <1>1, <1>2, <1>3, <1>4 DEF LockIInv

(* Every step of the limiter keeps the types of its variables. *)
LEMMA LockTypePreserved == LockTypeOK /\ [LockNext]_lockVars => LockTypeOK'
<1> SUFFICES ASSUME LockTypeOK, [LockNext]_lockVars PROVE LockTypeOK'
  OBVIOUS
<1> USE LockAssumption DEF LockTypeOK
<1>1. ASSUME NEW t \in Thread, Lock(t) PROVE LockTypeOK'
  BY <1>1 DEF Lock
<1>2. ASSUME NEW t \in Thread, TryLockAcquires(t) PROVE LockTypeOK'
  BY <1>2 DEF TryLockAcquires
<1>3. ASSUME NEW t \in Thread, TryLockFails(t) PROVE LockTypeOK'
  BY <1>3 DEF TryLockFails, Trying
<1>4. ASSUME NEW t \in Thread, LockReturnsNull(t) PROVE LockTypeOK'
  BY <1>4 DEF LockReturnsNull
<1>5. ASSUME NEW t \in Thread, Unlock(t) PROVE LockTypeOK'
  BY <1>5 DEF Unlock, Released
<1>6. ASSUME NEW j \in Jvm, Start(j) PROVE LockTypeOK'
  BY <1>6 DEF Start
<1>7. ASSUME NEW j \in Jvm, CloseStream(j) PROVE LockTypeOK'
  BY <1>7 DEF CloseStream, FreedBy
<1>8. ASSUME NEW j \in Jvm, Crash(j) PROVE LockTypeOK'
  BY <1>8 DEF Crash, FreedBy
<1>9. CASE UNCHANGED lockVars
  BY <1>9 DEF lockVars
<1> QED
  BY <1>1, <1>2, <1>3, <1>4, <1>5, <1>6, <1>7, <1>8, <1>9 DEF LockNext, Scan

(* Every step keeps the lock table, and with it mutual exclusion: a file   *)
(* that a thread gets was free in the table, so nobody held it.            *)
LEMMA LockStepPreserved ==
  LockIInv /\ LockTypeOK' /\ [LockNext]_lockVars
    => SlotExclusive' /\ LockTable' /\ UsersAlive'
<1> SUFFICES ASSUME LockTypeOK, SlotExclusive, LockTable, UsersAlive,
                    LockTypeOK', [LockNext]_lockVars
             PROVE  SlotExclusive' /\ LockTable' /\ UsersAlive'
  BY DEF LockIInv
<1> USE LockAssumption DEF LockTypeOK
<1>0. \A t \in Thread : Holds(t) => HeldFile(t) \in File /\ owner[HeldFile(t)] # NoJvm
  BY DEF LockTable, Holds, HeldFile, FileOf, File
<1>1. ASSUME NEW t \in Thread, Lock(t)
      PROVE  SlotExclusive' /\ LockTable' /\ UsersAlive'
  <2>1. \A u \in Thread : /\ Holds(u)' <=> Holds(u)
                          /\ HeldFile(u)' = HeldFile(u)
    BY <1>1 DEF Lock, Holds, HeldFile, FileOf
  <2>2. SlotExclusive' /\ LockTable'
    BY <1>1, <2>1 DEF Lock, SlotExclusive, LockTable
  <2>3. UsersAlive'
    BY <1>1 DEF Lock, UsersAlive
  <2> QED
    BY <2>2, <2>3
<1>2. ASSUME NEW t \in Thread, TryLockAcquires(t)
      PROVE  SlotExclusive' /\ LockTable' /\ UsersAlive'
  <2> DEFINE f0 == FileOf(JvmOf[t], idx[t])
  <2>1. /\ f0 \in File /\ owner[f0] = NoJvm
        /\ owner' = [owner EXCEPT ![f0] = JvmOf[t]]
        /\ idx[t] \in open[JvmOf[t]] /\ pc[t] = "scan"
    BY <1>2 DEF TryLockAcquires, CanLock, FileOf, File, Trying
  <2>2. \A u \in Thread : /\ HeldFile(u)' = HeldFile(u)
                          /\ u # t => (Holds(u)' <=> Holds(u))
    BY <1>2 DEF TryLockAcquires, Holds, HeldFile, FileOf
  <2>3. \A u \in Thread : Holds(u) => HeldFile(u) # f0
    BY <1>0, <2>1
  <2>4. HeldFile(t) = f0
    BY DEF HeldFile
  <2>5. SlotExclusive'
    BY <2>2, <2>3, <2>4 DEF SlotExclusive
  <2>6. \A u \in Thread : Holds(u)' => owner'[HeldFile(u)'] = JvmOf[u]
    <3> SUFFICES ASSUME NEW u \in Thread, Holds(u)'
                 PROVE  owner'[HeldFile(u)] = JvmOf[u]
      BY <2>2
    <3>1. CASE u = t
      BY <3>1, <2>1, <2>4
    <3>2. CASE u # t
      <4>1. Holds(u) /\ HeldFile(u) # f0 /\ HeldFile(u) \in File
        BY <3>2, <2>2, <2>3, <1>0
      <4> QED
        BY <4>1, <2>1 DEF LockTable
    <3> QED
      BY <3>1, <3>2
  <2>7. LockTable'
    <3>1. live' = live /\ open' = open
      BY <1>2 DEF TryLockAcquires
    <3>2. live[JvmOf[t]]
      BY <2>1 DEF UsersAlive
    <3>3. f0[1] = DirOf[JvmOf[t]] /\ f0[2] = idx[t]
      BY DEF FileOf
    <3>4. \A f \in File, j \in Jvm :
            owner'[f] = j => live[j] /\ f[1] = DirOf[j] /\ f[2] \in open[j]
      BY <2>1, <3>2, <3>3 DEF LockTable
    <3> QED
      BY <2>6, <3>1, <3>4 DEF LockTable
  <2>8. UsersAlive'
    BY <1>2, <2>1 DEF TryLockAcquires, UsersAlive
  <2> QED
    BY <2>5, <2>7, <2>8
<1>3. ASSUME NEW t \in Thread, TryLockFails(t) \/ LockReturnsNull(t)
      PROVE  SlotExclusive' /\ LockTable' /\ UsersAlive'
  <2>1. pc[t] = "scan" /\ pc'[t] # "hold"
    BY <1>3 DEF TryLockFails, LockReturnsNull, Trying
  <2>2. UNCHANGED <<live, open, owner>>
    BY <1>3 DEF TryLockFails, LockReturnsNull
  <2>3. \A u \in Thread : u # t => pc'[u] = pc[u] /\ idx'[u] = idx[u]
    BY <1>3 DEF TryLockFails, LockReturnsNull
  <2>4. \A u \in Thread : /\ Holds(u)' <=> Holds(u)
                          /\ Holds(u) => HeldFile(u)' = HeldFile(u)
    BY <2>1, <2>2, <2>3 DEF Holds, HeldFile, FileOf
  <2>5. SlotExclusive' /\ LockTable'
    BY <2>2, <2>4 DEF SlotExclusive, LockTable
  <2>6. UsersAlive'
    BY <2>1, <2>2, <2>3 DEF UsersAlive
  <2> QED
    BY <2>5, <2>6
<1>4. ASSUME NEW t \in Thread, Unlock(t)
      PROVE  SlotExclusive' /\ LockTable' /\ UsersAlive'
  <2> DEFINE f0 == FileOf(JvmOf[t], idx[t])
  <2>1. pc[t] = "hold" /\ pc'[t] = "idle" /\ UNCHANGED <<live, open>>
    BY <1>4 DEF Unlock
  <2>2. \A u \in Thread : u # t => pc'[u] = pc[u] /\ idx'[u] = idx[u]
    BY <1>4 DEF Unlock
  <2>3. \A u \in Thread : Holds(u)' => u # t /\ Holds(u) /\ HeldFile(u)' = HeldFile(u)
    BY <2>1, <2>2 DEF Holds, HeldFile, FileOf
  <2>4. \/ owner' = owner
        \/ Holds(t) /\ owner' = [owner EXCEPT ![f0] = NoJvm]
    BY <1>4, <2>1 DEF Unlock, Released, Holds
  <2>5. SlotExclusive'
    BY <2>3 DEF SlotExclusive
  <2>6. \A u \in Thread : Holds(u)' => owner'[HeldFile(u)'] = JvmOf[u]
    <3> SUFFICES ASSUME NEW u \in Thread, Holds(u)'
                 PROVE  owner'[HeldFile(u)'] = JvmOf[u]
      OBVIOUS
    <3>1. /\ u # t /\ Holds(u) /\ HeldFile(u)' = HeldFile(u)
          /\ owner[HeldFile(u)] = JvmOf[u] /\ HeldFile(u) \in File
      BY <2>3, <1>0 DEF LockTable
    <3>2. Holds(t) => HeldFile(u) # f0
      BY <3>1 DEF SlotExclusive, HeldFile
    <3> QED
      BY <2>4, <3>1, <3>2
  <2>7. \A f \in File : owner'[f] = owner[f] \/ owner'[f] = NoJvm
    BY <2>4
  <2>8. LockTable'
    BY <2>1, <2>6, <2>7 DEF LockTable
  <2>9. UsersAlive'
    BY <2>1, <2>2 DEF UsersAlive
  <2> QED
    BY <2>5, <2>8, <2>9
<1>5. ASSUME NEW j \in Jvm, Start(j)
      PROVE  SlotExclusive' /\ LockTable' /\ UsersAlive'
  <2>1. \A u \in Thread : pc[u] = "hold" => JvmOf[u] # j
    BY <1>5 DEF Start, UsersAlive
  <2>2. \A k \in Jvm : k # j => open'[k] = open[k] /\ live'[k] = live[k]
    BY <1>5 DEF Start
  <2>3. \A u \in Thread : /\ Holds(u)' <=> Holds(u)
                          /\ HeldFile(u)' = HeldFile(u)
    BY <1>5, <2>1, <2>2 DEF Start, Holds, HeldFile, FileOf
  <2>4. SlotExclusive'
    BY <2>3 DEF SlotExclusive
  <2>5. LockTable'
    BY <1>5, <2>2, <2>3 DEF Start, LockTable
  <2>6. UsersAlive'
    BY <1>5 DEF Start, UsersAlive
  <2> QED
    BY <2>4, <2>5, <2>6
<1>6. ASSUME NEW j \in Jvm, CloseStream(j)
      PROVE  SlotExclusive' /\ LockTable' /\ UsersAlive'
  <2> DEFINE i == Min(open[j])
  <2>1. /\ open' = [open EXCEPT ![j] = @ \ {i}]
        /\ owner' = FreedBy(j, {i})
        /\ UNCHANGED <<live, pc, idx>>
    BY <1>6 DEF CloseStream
  <2> HIDE DEF i
  <2>2. \A u \in Thread : /\ HeldFile(u)' = HeldFile(u)
                          /\ Holds(u)' => Holds(u) /\ ~(JvmOf[u] = j /\ idx[u] = i)
    BY <2>1 DEF Holds, HeldFile, FileOf
  <2>3. \A u \in Thread : HeldFile(u)[2] = idx[u]
    BY DEF HeldFile, FileOf
  <2>4. SlotExclusive'
    BY <2>2 DEF SlotExclusive
  <2>5. \A u \in Thread : Holds(u)' => owner'[HeldFile(u)'] = JvmOf[u]
    <3> SUFFICES ASSUME NEW u \in Thread, Holds(u)'
                 PROVE  owner'[HeldFile(u)] = JvmOf[u]
      BY <2>2
    <3>1. Holds(u) /\ ~(JvmOf[u] = j /\ idx[u] = i)
      BY <2>2
    <3>2. HeldFile(u) \in File /\ owner[HeldFile(u)] = JvmOf[u]
      BY <3>1, <1>0 DEF LockTable
    <3> QED
      BY <2>1, <2>3, <3>1, <3>2 DEF FreedBy
  <2>6. \A f \in File, k \in Jvm :
          owner'[f] = k => owner[f] = k /\ ~(k = j /\ f[2] = i)
    BY <2>1 DEF FreedBy
  <2>7. \A f \in File, k \in Jvm :
          owner'[f] = k => live'[k] /\ f[1] = DirOf[k] /\ f[2] \in open'[k]
    <3> SUFFICES ASSUME NEW f \in File, NEW k \in Jvm, owner'[f] = k
                 PROVE  live[k] /\ f[1] = DirOf[k] /\ f[2] \in open'[k]
      BY <2>1
    <3>1. live[k] /\ f[1] = DirOf[k] /\ f[2] \in open[k]
      BY <2>6 DEF LockTable
    <3> QED
      BY <2>1, <2>6, <3>1
  <2>8. LockTable'
    BY <2>5, <2>7 DEF LockTable
  <2>9. UsersAlive'
    BY <2>1 DEF UsersAlive
  <2> QED
    BY <2>4, <2>8, <2>9
<1>7. ASSUME NEW j \in Jvm, Crash(j)
      PROVE  SlotExclusive' /\ LockTable' /\ UsersAlive'
  <2>1. \A u \in Thread : Holds(u)' => /\ Holds(u) /\ JvmOf[u] # j
                                       /\ HeldFile(u)' = HeldFile(u)
    BY <1>7 DEF Crash, Holds, HeldFile, FileOf
  <2>2. SlotExclusive'
    BY <2>1 DEF SlotExclusive
  <2>3. \A f \in File, k \in Jvm : owner'[f] = k => owner[f] = k /\ k # j
    BY <1>7 DEF Crash, FreedBy, File
  <2>4. \A u \in Thread : Holds(u)' => owner'[HeldFile(u)'] = JvmOf[u]
    <3> SUFFICES ASSUME NEW u \in Thread, Holds(u)'
                 PROVE  owner'[HeldFile(u)] = JvmOf[u]
      BY <2>1
    <3>1. Holds(u) /\ JvmOf[u] # j
      BY <2>1
    <3>2. HeldFile(u) \in File /\ owner[HeldFile(u)] = JvmOf[u]
      BY <3>1, <1>0 DEF LockTable
    <3> QED
      BY <1>7, <3>1, <3>2 DEF Crash, FreedBy
  <2>5. \A k \in Jvm : k # j => live'[k] = live[k] /\ open'[k] = open[k]
    BY <1>7 DEF Crash
  <2>6. LockTable'
    BY <2>3, <2>4, <2>5 DEF LockTable
  <2>7. UsersAlive'
    BY <1>7, <2>5 DEF Crash, UsersAlive
  <2> QED
    BY <2>2, <2>6, <2>7
<1>8. CASE UNCHANGED lockVars
  BY <1>8 DEF lockVars, SlotExclusive, LockTable, UsersAlive, Holds, HeldFile, FileOf
<1> QED
  BY <1>1, <1>2, <1>3, <1>4, <1>5, <1>6, <1>7, <1>8 DEF LockNext, Scan

(* FileLimitedLock: in every reachable state the variables have their      *)
(* types, no file has two users, the lock table agrees with the threads,   *)
(* and only threads of a running process are in lock() or unlock().        *)
THEOREM LockInvariant == LockSpec => []LockIInv
<1>1. LockIInv /\ [LockNext]_lockVars => LockIInv'
  BY LockTypePreserved, LockStepPreserved DEF LockIInv
<1> QED
  BY LockInitIInv, <1>1, PTL DEF LockSpec

-----------------------------------------------------------------------------
(* Each variable has its type, in every behaviour of the limiter. *)
THEOREM LockTyping == LockSpec => []LockTypeOK
BY LockInvariant, PTL DEF LockIInv

(* FileLimitedLock.lock/unlock/destroy: no lock file ever has two users,   *)
(* for any number of processes, threads and files, through shutdowns,      *)
(* crashes and failing I/O.                                                *)
THEOREM MutualExclusion == LockSpec => []SlotExclusive
BY LockInvariant, PTL DEF LockIInv

(* FileLimitedLock.unlock/destroy and process end: the lock table names    *)
(* running processes that have the file open, and every valid lock.        *)
THEOREM TableConsistent == LockSpec => []LockTable
BY LockInvariant, PTL DEF LockIInv

(* Holders of one directory are counted by the numbers of their files. *)
LEMMA HoldersCounted ==
  ASSUME LockTypeOK, SlotExclusive, NEW d \in Dir,
         NEW I \in SUBSET Index, \A t \in HoldersOf(d) : idx[t] \in I
  PROVE  Cardinality(HoldersOf(d)) <= Cardinality(I)
<1> DEFINE num == [t \in HoldersOf(d) |-> idx[t]]
<1>1. IsFiniteSet(I)
  <2>1. IsFiniteSet(Index)
    BY LockAssumption, FS_Interval DEF Index
  <2> QED
    BY <2>1, FS_Subset
<1>2. num \in [HoldersOf(d) -> I]
  OBVIOUS
<1>3. \A t, u \in HoldersOf(d) : num[t] = num[u] => t = u
  BY DEF SlotExclusive, HoldersOf, HeldFile, FileOf
<1>4. num \in Injection(HoldersOf(d), I)
  BY <1>2, <1>3 DEF Injection, IsInjective
<1> QED
  BY <1>1, <1>4, FS_Injection

(* config.num: there are Num numbers of lock files. *)
LEMMA IndexCounted == Cardinality(Index) = Num /\ IsFiniteSet(Index)
BY LockAssumption, FS_Interval DEF Index

(* FileLimitedLock.lock: at most Num holders in a directory. *)
THEOREM HoldersLimit == LockSpec => []HoldersBounded
<1>1. LockIInv => HoldersBounded
  <2> SUFFICES ASSUME LockTypeOK, SlotExclusive, NEW d \in Dir
               PROVE  Cardinality(HoldersOf(d)) <= Num
    BY DEF LockIInv, HoldersBounded
  <2>1. \A t \in HoldersOf(d) : idx[t] \in Index
    BY LockAssumption DEF HoldersOf, Holds, LockTypeOK
  <2> QED
    BY <2>1, HoldersCounted, IndexCounted
<1> QED
  BY <1>1, LockInvariant, PTL

-----------------------------------------------------------------------------
(* No slot is lost: the lock table follows the threads the other way round. *)

(* A locked file has a thread that holds it and will release it. *)
Owned == \A f \in File : owner[f] # NoJvm =>
           \E t \in Thread : Holds(t) /\ HeldFile(t) = f

(* Every step whose releases succeed keeps Owned: a file gets its lock     *)
(* together with a thread that holds it, and loses it no later than that   *)
(* thread lets go.                                                         *)
LEMMA OwnedPreserved ==
  ASSUME LockIInv, Owned, [LockNext]_lockVars,
         \A t \in Thread : Unlock(t) => owner' = Released(t)
  PROVE  Owned'
<1> SUFFICES ASSUME NEW f \in File, owner'[f] # NoJvm
             PROVE  \E u \in Thread : Holds(u)' /\ HeldFile(u)' = f
  BY DEF Owned
<1> USE LockAssumption DEF LockIInv, LockTypeOK
<1>1. ASSUME NEW u \in Thread, Holds(u), HeldFile(u) = f,
             open'[JvmOf[u]] = open[JvmOf[u]], pc'[u] = pc[u], idx'[u] = idx[u]
      PROVE  Holds(u)' /\ HeldFile(u)' = f
  BY <1>1 DEF Holds, HeldFile, FileOf
<1>2. ASSUME owner[f] # NoJvm
      PROVE  \E u \in Thread : Holds(u) /\ HeldFile(u) = f /\ owner[f] = JvmOf[u]
  BY <1>2 DEF Owned, LockTable
<1>3. ASSUME NEW t \in Thread, Lock(t)
      PROVE  \E u \in Thread : Holds(u)' /\ HeldFile(u)' = f
  <2>1. PICK u \in Thread : Holds(u) /\ HeldFile(u) = f
    BY <1>2, <1>3 DEF Lock
  <2>2. u # t
    BY <1>3, <2>1 DEF Lock, Holds
  <2> QED
    BY <1>1, <1>3, <2>1, <2>2 DEF Lock
<1>4. ASSUME NEW t \in Thread, TryLockAcquires(t)
      PROVE  \E u \in Thread : Holds(u)' /\ HeldFile(u)' = f
  <2> DEFINE f0 == FileOf(JvmOf[t], idx[t])
  <2>1. CASE f = f0
    <3>1. Holds(t)' /\ HeldFile(t)' = f0
      BY <1>4 DEF TryLockAcquires, CanLock, Holds, HeldFile, FileOf
    <3> QED
      BY <2>1, <3>1
  <2>2. CASE f # f0
    <3>1. owner[f] # NoJvm
      BY <1>4, <2>2 DEF TryLockAcquires
    <3>2. PICK u \in Thread : Holds(u) /\ HeldFile(u) = f
      BY <1>2, <3>1
    <3>3. u # t
      BY <1>4, <3>2 DEF TryLockAcquires, Trying, Holds
    <3> QED
      BY <1>1, <1>4, <3>2, <3>3 DEF TryLockAcquires
  <2> QED
    BY <2>1, <2>2
<1>5. ASSUME NEW t \in Thread, TryLockFails(t) \/ LockReturnsNull(t)
      PROVE  \E u \in Thread : Holds(u)' /\ HeldFile(u)' = f
  <2>1. PICK u \in Thread : Holds(u) /\ HeldFile(u) = f
    BY <1>2, <1>5 DEF TryLockFails, LockReturnsNull
  <2>2. u # t
    BY <1>5, <2>1 DEF TryLockFails, LockReturnsNull, Trying, Holds
  <2> QED
    BY <1>1, <1>5, <2>1, <2>2 DEF TryLockFails, LockReturnsNull
<1>6. ASSUME NEW t \in Thread, Unlock(t)
      PROVE  \E u \in Thread : Holds(u)' /\ HeldFile(u)' = f
  <2>1. owner' = Released(t)
    BY <1>6
  <2>2. owner[f] # NoJvm /\ (Holds(t) => f # HeldFile(t))
    BY <1>6, <2>1 DEF Unlock, Released, Holds, HeldFile
  <2>3. PICK u \in Thread : Holds(u) /\ HeldFile(u) = f
    BY <1>2, <2>2
  <2>4. u # t
    BY <2>2, <2>3
  <2> QED
    BY <1>1, <1>6, <2>3, <2>4 DEF Unlock
<1>7. ASSUME NEW j \in Jvm, Start(j)
      PROVE  \E u \in Thread : Holds(u)' /\ HeldFile(u)' = f
  <2>1. PICK u \in Thread : Holds(u) /\ HeldFile(u) = f
    BY <1>2, <1>7 DEF Start
  <2>2. JvmOf[u] # j
    BY <1>7, <2>1 DEF Start, UsersAlive, Holds
  <2> QED
    BY <1>1, <1>7, <2>1, <2>2 DEF Start
<1>8. ASSUME NEW j \in Jvm, CloseStream(j)
      PROVE  \E u \in Thread : Holds(u)' /\ HeldFile(u)' = f
  <2> DEFINE i == Min(open[j])
  <2>1. /\ open' = [open EXCEPT ![j] = @ \ {i}]
        /\ owner' = FreedBy(j, {i})
        /\ UNCHANGED <<live, pc, idx>>
    BY <1>8 DEF CloseStream
  <2> HIDE DEF i
  <2>2. owner[f] # NoJvm /\ ~(owner[f] = j /\ f[2] = i)
    BY <2>1 DEF FreedBy
  <2>3. PICK u \in Thread : Holds(u) /\ HeldFile(u) = f /\ owner[f] = JvmOf[u]
    BY <1>2, <2>2
  <2>4. ~(JvmOf[u] = j /\ idx[u] = i)
    BY <2>2, <2>3 DEF HeldFile, FileOf
  <2>5. Holds(u)' /\ HeldFile(u)' = f
    BY <2>1, <2>3, <2>4 DEF Holds, HeldFile, FileOf
  <2> QED
    BY <2>5
<1>9. ASSUME NEW j \in Jvm, Crash(j)
      PROVE  \E u \in Thread : Holds(u)' /\ HeldFile(u)' = f
  <2>1. owner[f] # NoJvm /\ owner[f] # j
    BY <1>9 DEF Crash, FreedBy, File
  <2>2. PICK u \in Thread : Holds(u) /\ HeldFile(u) = f /\ owner[f] = JvmOf[u]
    BY <1>2, <2>1
  <2> QED
    BY <1>1, <1>9, <2>1, <2>2 DEF Crash
<1>10. CASE UNCHANGED lockVars
  BY <1>1, <1>2, <1>10 DEF lockVars
<1> QED
  BY <1>3, <1>4, <1>5, <1>6, <1>7, <1>8, <1>9, <1>10 DEF LockNext, Scan

(* FileLimitedLock.unlock: when the file system does not fail, a file is   *)
(* locked only while a thread will still unlock it.                        *)
THEOREM LeakFree == LockSpec => []NoSlotLeaks
<1>1. LockInit => NoSlotLeaks
  BY DEF LockInit, NoSlotLeaks
<1>2. LockIInv /\ NoSlotLeaks /\ [LockNext]_lockVars => NoSlotLeaks'
  <2> SUFFICES ASSUME LockIInv, Owned, [LockNext]_lockVars, ~IoFaults
               PROVE  Owned'
    BY DEF NoSlotLeaks, Owned
  <2>1. \A t \in Thread : Unlock(t) => owner' = Released(t)
    BY DEF Unlock
  <2> QED
    BY <2>1, OwnedPreserved
<1> QED
  BY <1>1, <1>2, LockInvariant, PTL DEF LockSpec

-----------------------------------------------------------------------------
(* The refinement of ConcurrencyLimit: getting a file admits a client,     *)
(* everything that ends a valid lock retires clients, and the rest leaves  *)
(* the set of holders alone.                                               *)
Active == {t \in Thread : Holds(t)}

(* The instance has a Cardinality of its own, with the same definition. *)
LEMMA SameCardinality == \A S : Limiter!Cardinality(S) = Cardinality(S)
BY Zenon DEF Limiter!Cardinality, Cardinality

(* A file that is free in the lock table leaves room for one more holder. *)
LEMMA RoomForOne ==
  ASSUME LockIInv, NEW t \in Thread, Trying(t), CanLock(JvmOf[t], idx[t])
  PROVE  Cardinality(HoldersOf(DirOf[JvmOf[t]])) < Num
<1> DEFINE d == DirOf[JvmOf[t]]
           i == idx[t]
<1> USE LockAssumption
<1>1. d \in Dir /\ i \in Index /\ owner[<<d, i>>] = NoJvm
  BY DEF LockIInv, LockTypeOK, CanLock, FileOf
<1>2. \A u \in HoldersOf(d) : idx[u] \in Index \ {i}
  <2> SUFFICES ASSUME NEW u \in HoldersOf(d) PROVE idx[u] \in Index \ {i}
    OBVIOUS
  <2>1. u \in Thread /\ Holds(u) /\ DirOf[JvmOf[u]] = d
    BY DEF HoldersOf
  <2>2. owner[<<d, idx[u]>>] = JvmOf[u] /\ JvmOf[u] # NoJvm
    BY <2>1 DEF LockIInv, LockTable, HeldFile, FileOf
  <2>3. idx[u] \in Index
    BY <2>1 DEF Holds, LockIInv, LockTypeOK
  <2> QED
    BY <1>1, <2>2, <2>3
<1>3. Cardinality(HoldersOf(d)) <= Cardinality(Index \ {i})
  <2>1. Index \ {i} \in SUBSET Index
    OBVIOUS
  <2>2. LockTypeOK /\ SlotExclusive
    BY DEF LockIInv
  <2> QED
    BY <1>1, <1>2, <2>1, <2>2, HoldersCounted
<1>4. Cardinality(Index \ {i}) = Num - 1
  BY <1>1, IndexCounted, FS_RemoveElement
<1>5. IsFiniteSet(Index \ {i})
  BY IndexCounted, FS_Subset
<1>6. Cardinality(HoldersOf(d)) \in Nat
  <2>1. IsFiniteSet(HoldersOf(d))
    <3> DEFINE num == [u \in HoldersOf(d) |-> idx[u]]
    <3>1. num \in [HoldersOf(d) -> Index \ {i}]
      BY <1>2
    <3>2. \A u, v \in HoldersOf(d) : num[u] = num[v] => u = v
      BY DEF LockIInv, SlotExclusive, HoldersOf, HeldFile, FileOf
    <3>3. num \in Injection(HoldersOf(d), Index \ {i})
      BY <3>1, <3>2 DEF Injection, IsInjective
    <3> QED
      BY <1>5, <3>3, FS_Injection
  <2> QED
    BY <2>1, FS_CardinalityType
<1> QED
  BY <1>3, <1>4, <1>6

(* A step of the limiter admits a client, retires clients, or changes      *)
(* nothing that the callers see.                                           *)
LEMMA StepRefines ==
  ASSUME LockIInv, [LockNext]_lockVars
  PROVE  [Limiter!LimitNext]_Active
<1> USE LockAssumption DEF LockIInv, LockTypeOK
<1>1. ASSUME NEW t \in Thread, TryLockAcquires(t) PROVE Limiter!Admit(t)
  <2>1. Trying(t) /\ CanLock(JvmOf[t], idx[t])
    BY <1>1 DEF TryLockAcquires
  <2>2. ~Holds(t)
    BY <2>1 DEF Trying, Holds
  <2>3. Active' = Active \cup {t}
    BY <1>1, <2>1 DEF TryLockAcquires, CanLock, Active, Holds
  <2>4. Limiter!ActiveIn(DirOf[JvmOf[t]]) = HoldersOf(DirOf[JvmOf[t]])
    BY DEF Limiter!ActiveIn, HoldersOf
  <2>5. Cardinality(HoldersOf(DirOf[JvmOf[t]])) < Num
    BY <2>1, RoomForOne
  <2> QED
    BY <2>2, <2>3, <2>4, <2>5, SameCardinality DEF Limiter!Admit, Active
<1>2. ASSUME Active' \subseteq Active PROVE [Limiter!LimitNext]_Active
  <2>1. CASE Active' = Active
    BY <2>1
  <2>2. CASE Active' # Active
    <3> DEFINE S == Active \ Active'
    <3>1. S \in SUBSET Active /\ S # {} /\ Active' = Active \ S
      BY <1>2, <2>2
    <3> HIDE DEF S
    <3>2. Limiter!Retire(S)
      BY <3>1 DEF Limiter!Retire, Active
    <3> QED
      BY <3>1, <3>2 DEF Limiter!LimitNext, Active
  <2> QED
    BY <2>1, <2>2
<1>3. ASSUME NEW t \in Thread, Lock(t) PROVE Active' \subseteq Active
  BY <1>3 DEF Lock, Active, Holds
<1>4. ASSUME NEW t \in Thread, TryLockFails(t) PROVE Active' \subseteq Active
  BY <1>4 DEF TryLockFails, Trying, Active, Holds
<1>5. ASSUME NEW t \in Thread, LockReturnsNull(t) PROVE Active' \subseteq Active
  BY <1>5 DEF LockReturnsNull, Active, Holds
<1>6. ASSUME NEW t \in Thread, Unlock(t) PROVE Active' \subseteq Active
  BY <1>6 DEF Unlock, Active, Holds
<1>7. ASSUME NEW j \in Jvm, Start(j) PROVE Active' \subseteq Active
  BY <1>7 DEF Start, UsersAlive, Active, Holds
<1>8. ASSUME NEW j \in Jvm, CloseStream(j) PROVE Active' \subseteq Active
  BY <1>8 DEF CloseStream, Active, Holds
<1>9. ASSUME NEW j \in Jvm, Crash(j) PROVE Active' \subseteq Active
  BY <1>9 DEF Crash, Active, Holds
<1>10. CASE UNCHANGED lockVars
  BY <1>10 DEF lockVars, Active, Holds
<1> QED
  BY <1>1, <1>2, <1>3, <1>4, <1>5, <1>6, <1>7, <1>8, <1>9, <1>10
     DEF LockNext, Scan, Limiter!LimitNext

(* FileLimitedLock implements ConcurrencyLimit: whatever order the walks,  *)
(* releases, shutdowns and crashes come in, callers see a limiter that     *)
(* admits one at a time while fewer than Num are past it.                  *)
THEOREM LimiterRefined == LockSpec => LimiterSpec
<1>1. LockInit => Limiter!LimitInit
  BY DEF LockInit, Limiter!LimitInit, Holds
<1>2. LockIInv /\ [LockNext]_lockVars => [Limiter!LimitNext]_Active
  BY StepRefines
<1> QED
  BY <1>1, <1>2, LockInvariant, PTL DEF LockSpec, LimiterSpec, Limiter!LimitSpec, Active

=============================================================================
