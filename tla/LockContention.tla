-------------------------- MODULE LockContention --------------------------
(***************************************************************************)
(* When lock() may return null.  The walk over the lock files is not       *)
(* atomic: each file may be busy when it is tried though at every moment   *)
(* one of them is free.  A history variable records, for every call of     *)
(* lock(), the other callers it overlapped with.                           *)
(***************************************************************************)
EXTENDS FileLimitedLock

ASSUME ContentionAssumption == IsFiniteSet(Thread)

VARIABLES calm,   \* history: nothing was shut down and no file operation failed
          met     \* history: [Thread -> SUBSET Thread], callers a walk overlapped

contentionVars == <<lockVars, calm, met>>

(* The other threads of t's directory that are between lock and unlock. *)
Others(t) == {u \in Thread \ {t} : /\ DirOf[JvmOf[u]] = DirOf[JvmOf[t]]
                                   /\ pc[u] # "idle"}

ContentionInit == /\ LockInit
                  /\ calm = TRUE
                  /\ met = [t \in Thread |-> {}]

(* A step in which destroy does not run and the file system does as asked. *)
(* While destroy runs, a walk skips the files that are closed and may end  *)
(* on a later file while an earlier one is free, which turns a single      *)
(* rival away.                                                             *)
Calm == /\ \A j \in Jvm : live'[j] => open'[j] = Index
        /\ \A t \in Thread : ~(TryLockFails(t) /\ CanLock(JvmOf[t], idx[t]))
        /\ \A t \in Thread : Unlock(t) => owner' = Released(t)

(* A walk starts with the callers that are there and meets those who come. *)
Meets == /\ calm' = (calm /\ Calm)
         /\ met' = [t \in Thread |->
                     IF ~calm' \/ pc'[t] # "scan" THEN {}
                     ELSE Others(t)' \cup (IF pc[t] = "scan" THEN met[t] ELSE {})]

ContentionNext == LockNext /\ Meets

ContentionSpec == ContentionInit /\ [][ContentionNext]_contentionVars

(* FileLimitedLock.lock: as long as no file operation fails and destroy    *)
(* does not run, a call is turned away only when at least Num other        *)
(* callers overlapped it: nobody is limited while there are Num callers or *)
(* fewer, crashes included, though one of more may be limited while a file *)
(* is free.                                                                *)
LimitedOnlyWhenContended ==
  [][\A t \in Thread :
       calm /\ LockReturnsNull(t) => Cardinality(met[t]) >= Num
    ]_contentionVars

=============================================================================
