-------------------------- MODULE FileLimitedLock --------------------------
(***************************************************************************)
(* ping: org.example.component.FileLimitedLock, the limiter that every     *)
(* ping process asks before it calls pong.                                 *)
(*                                                                         *)
(* Num lock files lie in a directory.  A process (Jvm) opens a channel on  *)
(* each of them at start, in the order of their numbers; a thread that     *)
(* wants to send walks the channels and takes the first file whose lock it *)
(* gets (lock), and releases that file when the request is over (unlock).  *)
(* The operating system keeps the locks per process, so `owner' names a    *)
(* Jvm; within one process the JDK refuses an overlapping lock with an     *)
(* exception, which lock() catches and treats as "try the next file".      *)
(*                                                                         *)
(* The walk is not atomic: between two tryLock calls every other thread    *)
(* and process may move, a process may die, and a shutdown may close the   *)
(* channels one at a time under the threads that still use them.           *)
(***************************************************************************)
EXTENDS Integers, FiniteSets, FiniteSetsExt

CONSTANTS Jvm,        \* the ping processes
          Thread,     \* the threads of all of them that call PingService.send
          JvmOf,      \* the process a thread belongs to
          Dir,        \* the directories config.file-lock may name
          DirOf,      \* the directory a process opens its lock files in
          Num,        \* config.num, the number of lock files
          IoFaults,   \* TRUE: tryLock and release may also fail with an I/O error
          NoJvm       \* the owner of a free file

ASSUME LockAssumption == /\ JvmOf \in [Thread -> Jvm]
                         /\ DirOf \in [Jvm -> Dir]
                         /\ Num \in Nat
                         /\ IoFaults \in BOOLEAN
                         /\ NoJvm \notin Jvm

VARIABLES live,    \* [Jvm -> BOOLEAN], the process has passed init
          open,    \* [Jvm -> SUBSET Index], the channels it has open
          owner,   \* [File -> Jvm \cup {NoJvm}], the lock table of the OS
          pc,      \* [Thread -> ...], where the thread is in send()
          idx      \* [Thread -> 0..Num], the channel it tries or has locked

lockVars == <<live, open, owner, pc, idx>>

Index == 0 .. (Num - 1)
File == Dir \X Index

FileOf(j, i) == <<DirOf[j], i>>
ThreadsOf(j) == {t \in Thread : JvmOf[t] = j}

LockInit == /\ live = [j \in Jvm |-> FALSE]
            /\ open = [j \in Jvm |-> {}]
            /\ owner = [f \in File |-> NoJvm]
            /\ pc = [t \in Thread |-> "idle"]
            /\ idx = [t \in Thread |-> 0]

-----------------------------------------------------------------------------
(* init, a @PostConstruct method: no thread of the process runs before it  *)
(* returns, and opening a channel is seen by no other process, so the loop *)
(* over the Num files is one step.                                         *)
Start(j) == /\ ~live[j]
            /\ live' = [live EXCEPT ![j] = TRUE]
            /\ open' = [open EXCEPT ![j] = Index]
            /\ UNCHANGED <<owner, pc, idx>>

(* lock() is entered: the walk begins at the first channel.  The index is  *)
(* local to the call and is 0 outside of it.                               *)
Lock(t) == /\ live[JvmOf[t]]
           /\ pc[t] = "idle"
           /\ pc' = [pc EXCEPT ![t] = "scan"]
           /\ UNCHANGED <<live, open, owner, idx>>

Trying(t) == pc[t] = "scan" /\ idx[t] < Num

(* What FileChannel.tryLock does with one file: null when another process  *)
(* holds it, OverlappingFileLockException when this process does,          *)
(* ClosedChannelException after destroy, a lock otherwise.                 *)
CanLock(j, i) == /\ i \in open[j]
                 /\ owner[FileOf(j, i)] = NoJvm

(* Mutant: lock() returns after the first tryLock that does not throw,     *)
(* without looking whether it returned null.                               *)
TryLockUnchecked(t) ==
  /\ Trying(t)
  /\ LET f == FileOf(JvmOf[t], idx[t])
     IN  /\ idx[t] \in open[JvmOf[t]]
         /\ owner[f] # JvmOf[t]
         /\ owner' = IF owner[f] = NoJvm THEN [owner EXCEPT ![f] = JvmOf[t]]
                     ELSE owner
  /\ pc' = [pc EXCEPT ![t] = "hold"]
  /\ UNCHANGED <<live, open, idx>>

(* Mutant: an overlap within the process is taken for a lock it has. *)
TryLockOverlapping(t) ==
  /\ Trying(t)
  /\ idx[t] \in open[JvmOf[t]]
  /\ owner[FileOf(JvmOf[t], idx[t])] \in {NoJvm, JvmOf[t]}
  /\ owner' = [owner EXCEPT ![FileOf(JvmOf[t], idx[t])] = JvmOf[t]]
  /\ pc' = [pc EXCEPT ![t] = "hold"]
  /\ UNCHANGED <<live, open, idx>>

(* lock != null: lock() returns it. *)
TryLockAcquires(t) ==
  /\ Trying(t)
  /\ CanLock(JvmOf[t], idx[t])
  /\ owner' = [owner EXCEPT ![FileOf(JvmOf[t], idx[t])] = JvmOf[t]]
  /\ pc' = [pc EXCEPT ![t] = "hold"]
  /\ UNCHANGED <<live, open, idx>>

(* null or an exception, which is caught and logged: on to the next file. *)
TryLockFails(t) ==
  /\ Trying(t)
  /\ IoFaults \/ ~CanLock(JvmOf[t], idx[t])
  /\ idx' = [idx EXCEPT ![t] = @ + 1]
  /\ UNCHANGED <<live, open, owner, pc>>

(* Mutant: lock() returns null as soon as one file is busy. *)
LockGivesUp(t) == /\ pc[t] = "scan"
                  /\ idx[t] > 0
                  /\ pc' = [pc EXCEPT ![t] = "idle"]
                  /\ idx' = [idx EXCEPT ![t] = 0]
                  /\ UNCHANGED <<live, open, owner>>

(* Every file was tried: lock() returns null, the caller is limited. *)
LockReturnsNull(t) == /\ pc[t] = "scan"
                      /\ idx[t] = Num
                      /\ pc' = [pc EXCEPT ![t] = "idle"]
                      /\ idx' = [idx EXCEPT ![t] = 0]
                      /\ UNCHANGED <<live, open, owner>>

(* FileLock.release of a thread's lock: the channel must still be open     *)
(* (ClosedChannelException otherwise, and the file is not touched).        *)
Released(t) == IF idx[t] \in open[JvmOf[t]]
               THEN [owner EXCEPT ![FileOf(JvmOf[t], idx[t])] = NoJvm]
               ELSE owner

(* Mutant: unlock releases the first channel's lock, not the one it got. *)
UnlockFirst(t) == /\ pc[t] = "hold"
                  /\ owner' = [owner EXCEPT ![FileOf(JvmOf[t], 0)] = NoJvm]
                  /\ pc' = [pc EXCEPT ![t] = "idle"]
                  /\ idx' = [idx EXCEPT ![t] = 0]
                  /\ UNCHANGED <<live, open>>

(* Mutant: unlock leaves the release to the garbage collector. *)
UnlockNothing(t) == /\ pc[t] = "hold"
                    /\ pc' = [pc EXCEPT ![t] = "idle"]
                    /\ idx' = [idx EXCEPT ![t] = 0]
                    /\ UNCHANGED <<live, open, owner>>

(* unlock: a failing release is caught and logged, and the caller goes on  *)
(* as if it had released; after an I/O error the file stays locked until   *)
(* the process closes it.                                                  *)
Unlock(t) == /\ pc[t] = "hold"
             /\ \/ owner' = Released(t)
                \/ IoFaults /\ UNCHANGED owner
             /\ pc' = [pc EXCEPT ![t] = "idle"]
             /\ idx' = [idx EXCEPT ![t] = 0]
             /\ UNCHANGED <<live, open>>

(* A process lets go of the files it has locked among those numbered in I. *)
FreedBy(j, I) == [f \in File |-> IF owner[f] = j /\ f[2] \in I
                                 THEN NoJvm ELSE owner[f]]

(* destroy closes the streams in the order of the list, one at a time.     *)
(* Closing a channel releases its lock, whatever the thread that took it   *)
(* is doing: its request to pong may still be on its way.                  *)
CloseStream(j) ==
  /\ live[j]
  /\ open[j] # {}
  /\ LET i == Min(open[j])
     IN  /\ open' = [open EXCEPT ![j] = @ \ {i}]
         /\ owner' = FreedBy(j, {i})
  /\ UNCHANGED <<live, pc, idx>>

(* The process ends, after destroy or killed at any point: the operating   *)
(* system closes its files, which frees their locks.                       *)
Crash(j) == /\ live[j]
            /\ live' = [live EXCEPT ![j] = FALSE]
            /\ open' = [open EXCEPT ![j] = {}]
            /\ owner' = FreedBy(j, Index)
            /\ pc' = [t \in Thread |-> IF JvmOf[t] = j THEN "idle" ELSE pc[t]]
            /\ idx' = [t \in Thread |-> IF JvmOf[t] = j THEN 0 ELSE idx[t]]

Scan(t) == TryLockAcquires(t) \/ TryLockFails(t) \/ LockReturnsNull(t)

LockNext == \/ \E t \in Thread : Lock(t) \/ Scan(t) \/ Unlock(t)
            \/ \E j \in Jvm : Start(j) \/ CloseStream(j) \/ Crash(j)

LockSpec == LockInit /\ [][LockNext]_lockVars

-----------------------------------------------------------------------------
(* Each variable has its type. *)
LockTypeOK == /\ live \in [Jvm -> BOOLEAN]
              /\ open \in [Jvm -> SUBSET Index]
              /\ owner \in [File -> Jvm \cup {NoJvm}]
              /\ pc \in [Thread -> {"idle", "scan", "hold"}]
              /\ idx \in [Thread -> 0 .. Num]

(* A thread past lock() whose lock is still valid (FileLock.isValid). *)
Holds(t) == pc[t] = "hold" /\ idx[t] \in open[JvmOf[t]]
HeldFile(t) == FileOf(JvmOf[t], idx[t])

(* FileLimitedLock.lock/unlock/destroy: two threads, of one process or of  *)
(* two that share a directory, never have the same lock file at once,      *)
(* whatever was closed, released late or killed in between.                *)
SlotExclusive == \A t, u \in Thread :
                    t # u /\ Holds(t) /\ Holds(u) => HeldFile(t) # HeldFile(u)

(* The lock table and the threads agree: a valid lock is in the table for  *)
(* its process, and a file is locked only by a running process that has it *)
(* open, so a slot survives neither a shutdown nor a crash.                *)
LockTable == /\ \A t \in Thread : Holds(t) => owner[HeldFile(t)] = JvmOf[t]
             /\ \A f \in File, j \in Jvm :
                  owner[f] = j => live[j] /\ f[1] = DirOf[j] /\ f[2] \in open[j]

(* unlock returns the slot: without I/O errors a locked file is held by a  *)
(* thread that will unlock it, none is left over by a request that ended.  *)
NoSlotLeaks == ~IoFaults => \A f \in File :
                 owner[f] # NoJvm => \E t \in Thread : Holds(t) /\ HeldFile(t) = f

(* At most Num threads of the processes that share a directory are between *)
(* lock() and unlock() with a valid lock.                                  *)
HoldersOf(d) == {t \in Thread : Holds(t) /\ DirOf[JvmOf[t]] = d}
HoldersBounded == \A d \in Dir : Cardinality(HoldersOf(d)) <= Num

(* FileLimitedLock implements the limiter of ConcurrencyLimit. *)
Limiter == INSTANCE ConcurrencyLimit
             WITH Client <- Thread, Pool <- Dir, Limit <- Num,
                  PoolOf <- [t \in Thread |-> DirOf[JvmOf[t]]],
                  active <- {t \in Thread : Holds(t)}

LimiterSpec == Limiter!LimitSpec

(* lock() cannot starve a directory: when a thread asks for ever and its   *)
(* channels stay open, slots keep being handed out, to it or to others.    *)
SlotsKeepMoving == \A t \in Thread :
  []<>(pc[t] = "scan") /\ <>[](open[JvmOf[t]] = Index)
    => []<>(HoldersOf(DirOf[JvmOf[t]]) # {})

=============================================================================
