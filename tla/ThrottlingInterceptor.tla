----------------------- MODULE ThrottlingInterceptor -----------------------
(***************************************************************************)
(* pong: org.example.filter.ThrottlingInterceptor, the web filter that     *)
(* lets a request through or answers 429, around Guava's RateLimiter       *)
(* (external: the SmoothBursty limiter that RateLimiter.create returns).   *)
(*                                                                         *)
(* Time is counted in ticks; a permit is earned in Interval ticks and a    *)
(* second has Rate * Interval of them, so the limiter's arithmetic (a      *)
(* double of permits, a long of microseconds) is exact here.  Stored       *)
(* permits are kept as the ticks they took to earn.  tryAcquire runs under *)
(* the limiter's mutex, so a request is one step whatever the number of    *)
(* event-loop threads.                                                     *)
(***************************************************************************)
EXTENDS Integers, Sequences

CONSTANTS Rate,      \* config.rate-limiter, permits per second
          Interval,  \* ticks to earn one permit
          MaxTime    \* bound of the model: the clock stops there

ASSUME RateAssumption == /\ Rate \in Nat \ {0}
                         /\ Interval \in Nat \ {0}
                         /\ MaxTime \in Nat

Second == Rate * Interval

VARIABLES now,             \* the clock
          created,         \* when this pong process called init
          storedPermits,   \* unused permits, in ticks
          nextFreeTicket,  \* when the next permit can be handed out
          passed,          \* history: when requests went down the chain
          rejected         \* history: when requests were answered 429

limiterVars == <<created, storedPermits, nextFreeTicket>>
throttleVars == <<now, limiterVars, passed, rejected>>

Least(a, b) == IF a < b THEN a ELSE b

-----------------------------------------------------------------------------
(* RateLimiter (external) *)

(* canAcquire with a timeout of 0. *)
CanAcquire == nextFreeTicket <= now

(* resync: the time since nextFreeTicket becomes stored permits, at most   *)
(* one second's worth (maxBurstSeconds).  Used when CanAcquire holds.      *)
Resynced == Least(Second, storedPermits + (now - nextFreeTicket))

(* The part of this request's permit that stored permits pay for. *)
Spend == Least(Interval, Resynced)

(* reserveEarliestAvailable: what stored permits do not pay for moves the  *)
(* next ticket into the future; this request itself never waits.           *)
NextFree == now + Interval - Spend

-----------------------------------------------------------------------------
(* Mutant: the limiter starts with a second's permits in store. *)
CreateLimiterFull(t) == /\ created' = t
                        /\ storedPermits' = Second
                        /\ nextFreeTicket' = t

(* init: RateLimiter.create starts with no permit stored. *)
CreateLimiter(t) == /\ created' = t
                    /\ storedPermits' = 0
                    /\ nextFreeTicket' = t

ThrottleInit == /\ now = 0
                /\ created = 0
                /\ storedPermits = 0
                /\ nextFreeTicket = 0
                /\ passed = <<>>
                /\ rejected = {}

(* Mutant: every request gets a limiter of its own. *)
FilterPassesFresh == /\ CreateLimiter(now)
                     /\ passed' = Append(passed, now)
                     /\ UNCHANGED <<now, rejected>>

(* Mutant: tryAcquire is called twice, once for a log line. *)
FilterPassesTwice == /\ CanAcquire
                     /\ storedPermits' = 0
                     /\ nextFreeTicket' = now + 2 * Interval - Least(2 * Interval, Resynced)
                     /\ passed' = Append(passed, now)
                     /\ UNCHANGED <<now, created, rejected>>

(* filter, first branch: a permit is taken, chain.filter is called. *)
FilterPasses == /\ CanAcquire
                /\ storedPermits' = Resynced - Spend
                /\ nextFreeTicket' = NextFree
                /\ passed' = Append(passed, now)
                /\ UNCHANGED <<now, created, rejected>>

(* filter, second branch: status 429 and an empty body. *)
FilterRejects == /\ ~CanAcquire
                 /\ rejected' = rejected \cup {now}
                 /\ UNCHANGED <<now, limiterVars, passed>>

(* The pong process is restarted; the histories are of one process. *)
Restart == /\ CreateLimiter(now)
           /\ passed' = <<>>
           /\ rejected' = {}
           /\ UNCHANGED now

Tick == /\ now < MaxTime
        /\ now' = now + 1
        /\ UNCHANGED <<limiterVars, passed, rejected>>

ThrottleNext == FilterPasses \/ FilterRejects \/ Restart \/ Tick

ThrottleSpec == ThrottleInit /\ [][ThrottleNext]_throttleVars

-----------------------------------------------------------------------------
(* Each variable has its type. *)
ThrottleTypeOK == /\ now \in Nat /\ now <= MaxTime
                  /\ created \in Nat
                  /\ storedPermits \in 0 .. Second
                  /\ nextFreeTicket \in Nat
                  /\ passed \in Seq(Nat)
                  /\ rejected \subseteq Nat

(* filter: since the process started, requests passed at no more than the  *)
(* configured rate, but for one permit in advance.                         *)
LongRunRate == Len(passed) * Interval <= now - created + Interval

(* filter: between two requests that passed, at most the permits earned    *)
(* meanwhile and one second's stored ones were used.  In a window of one   *)
(* second no more than 2 * Rate requests pass, at whatever times they come *)
(* and however long pong was idle.                                         *)
WindowRate == \A i, j \in 1 .. Len(passed) :
                i < j => (j - i) * Interval <= passed[j] - passed[i] + Second

(* filter: 429 only when a request passed less than Interval before; a     *)
(* limiter that is not in use never refuses.                               *)
RejectedOnlyAfterPass ==
  \A r \in rejected : \E i \in 1 .. Len(passed) :
    passed[i] <= r /\ r < passed[i] + Interval

=============================================================================
