------------------------- MODULE ConcurrencyLimit -------------------------
(***************************************************************************)
(* What ping's FileLimitedLock promises to its callers, without files,     *)
(* channels or processes: the clients are divided into pools (the          *)
(* processes that share one lock directory), and at most Limit clients of  *)
(* a pool are past the limiter at any time.  Clients leave one at a time   *)
(* (unlock) or several at once (the process that runs them ends).          *)
(* FileLimitedLock.tla is shown to implement LimitSpec.                    *)
(***************************************************************************)
EXTENDS Integers, FiniteSets

CONSTANTS Client,   \* the threads that may ask for a slot
          Pool,     \* the lock directories
          PoolOf,   \* the pool each client belongs to
          Limit     \* config.num

VARIABLE active     \* the clients past the limiter

ActiveIn(p) == {c \in active : PoolOf[c] = p}

LimitInit == active = {}

(* A client gets a slot of its pool, which must have one to spare. *)
Admit(c) == /\ c \notin active
            /\ Cardinality(ActiveIn(PoolOf[c])) < Limit
            /\ active' = active \cup {c}

(* One client gives its slot back, or the process of several ends. *)
Retire(S) == /\ S # {}
             /\ active' = active \ S

LimitNext == \/ \E c \in Client : Admit(c)
             \/ \E S \in SUBSET active : Retire(S)

LimitSpec == LimitInit /\ [][LimitNext]_active

=============================================================================
