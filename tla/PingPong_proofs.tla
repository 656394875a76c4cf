-------------------------- MODULE PingPong_proofs --------------------------
(***************************************************************************)
(* Proofs about PingService for any processes, threads, directories,       *)
(* numbers of lock files and messages: it uses the limiter by its          *)
(* protocol, so what FileLimitedLock_proofs shows of the limiter holds of  *)
(* the service, and the requests at pong are bounded.  Then about          *)
(* ThrottlingInterceptor for any rate and time, and about the system of    *)
(* ping processes and pong: it implements each of its parts, so what is    *)
(* proved of the parts holds of the system, and results are told to the    *)
(* caller as pong gave them.                                               *)
(***************************************************************************)
EXTENDS PingPong, FileLimitedLock_proofs

(* PingService.send: a thread is in the try block exactly while it has a   *)
(* lock from lock(), and that lock has a number.                           *)
TryHolds == \A t \in Thread : /\ stage[t] \in InTry <=> pc[t] = "hold"
                              /\ pc[t] = "hold" => idx[t] \in Index

(* The history of an attempt has the message that is stored now. *)
CurrentHasDoc == \A t \in Thread :
  stage[t] \in InTry /\ doc # Absent => doc \in current[t]

PingIInv == PingTypeOK /\ TryHolds /\ CurrentHasDoc /\ MessageIsCurrent

-----------------------------------------------------------------------------
(* Each step of the service is a step of the limiter, or leaves it alone. *)
LEMMA StepUsesLock == [PingNext]_pingVars => [LockNext]_lockVars
<1> SUFFICES ASSUME [PingNext]_pingVars PROVE [LockNext]_lockVars
  OBVIOUS
<1>1. ASSUME NEW j \in Jvm, BootStep(j) \/ Kill(j) \/ Shutdown(j)
      PROVE  [LockNext]_lockVars
  BY <1>1 DEF BootStep, BootStart, BootExists, BootInsert, BootDuplicate, Kill,
              Gone, Shutdown, LockNext
<1>2. ASSUME NEW t \in Thread, Attempt(t) \/ Acquired(t) \/ NextChannel(t) \/ Limited(t)
      PROVE  [LockNext]_lockVars
  BY <1>2 DEF Attempt, Acquired, NextChannel, Limited, LockNext, Scan
<1>3. ASSUME NEW t \in Thread,
             GetMessage(t) \/ SendRequest(t) \/ Answer(t) \/ RequestFails(t)
      PROVE  UNCHANGED lockVars
  BY <1>3 DEF GetMessage, FindOne, InsertDefault, InsertDuplicate, MongoFails,
              SendRequest, Answer, AnswerWith, RequestFails
<1>4. ASSUME NEW t \in Thread, Finally(t) PROVE [LockNext]_lockVars
  BY <1>4 DEF Finally, Release, LockNext
<1>5. ASSUME (\E m \in Msg : SetSendMessage(m)) \/ DropDoc
      PROVE  UNCHANGED lockVars
  BY <1>5 DEF SetSendMessage, DropDoc
<1>6. CASE UNCHANGED pingVars
  BY <1>6 DEF pingVars
<1> QED
  BY <1>1, <1>2, <1>3, <1>4, <1>5, <1>6 DEF PingNext, InSend, OwnStep

(* PingService.send: FileLimitedLock is used by its protocol, unlock once  *)
(* after each lock that was got, on every path through the try block.      *)
THEOREM LockUsed == PingSpec => UsesLock
<1>1. PingInit => LockInit
  BY DEF PingInit
<1> QED
  BY <1>1, StepUsesLock, PTL DEF PingSpec, UsesLock, LockSpec

(* PingService.send: what holds of the limiter alone holds in the service. *)
THEOREM LockInvariantInService == PingSpec => []LockIInv
BY LockUsed, LockInvariant DEF UsesLock

-----------------------------------------------------------------------------
(* Before any process has started no thread is in send(). *)
LEMMA PingInitIInv == PingInit => PingIInv
<1> SUFFICES ASSUME PingInit PROVE PingIInv
  OBVIOUS
<1>1. LockTypeOK
  BY LockInitIInv DEF PingInit, LockIInv
<1>2. PingTypeOK
  BY <1>1 DEF PingInit, PingTypeOK, InTry
<1>3. TryHolds /\ CurrentHasDoc /\ MessageIsCurrent
  BY DEF PingInit, LockInit, TryHolds, CurrentHasDoc, MessageIsCurrent, InTry
<1> QED
  BY <1>2, <1>3 DEF PingIInv

(* What a step may do to one thread's part of the state: the four facts    *)
(* of PingIInv that concern thread u.                                      *)
ThreadOK(u) == /\ stage[u] \in InTry <=> pc[u] = "hold"
               /\ pc[u] = "hold" => idx[u] \in Index
               /\ stage[u] \in InTry /\ doc # Absent => doc \in current[u]
               /\ stage[u] \in {"request", "await"} => msg[u] \in current[u]

(* SetDoc keeps every history up to date. *)
LEMMA SetDocFacts ==
  ASSUME PingTypeOK, NEW m \in Msg \cup {Absent}, SetDoc(m)
  PROVE  /\ doc' = m /\ doc' \in Msg \cup {Absent}
         /\ current' \in [Thread -> SUBSET Msg]
         /\ \A u \in Thread : /\ current[u] \subseteq current'[u]
                              /\ stage[u] \in InTry /\ m # Absent => m \in current'[u]
BY DEF SetDoc, PingTypeOK

(* Every step keeps the invariant: a thread moves on its own, and a step   *)
(* on the document extends the history of all attempts under way.          *)
LEMMA PingStepIInv == PingIInv /\ [PingNext]_pingVars => PingIInv'
<1> SUFFICES ASSUME PingTypeOK, \A u \in Thread : ThreadOK(u), [PingNext]_pingVars
             PROVE  PingTypeOK' /\ \A u \in Thread : ThreadOK(u)'
  BY DEF PingIInv, TryHolds, CurrentHasDoc, MessageIsCurrent, ThreadOK
<1> USE LockAssumption, PingAssumption
<1>0. LockTypeOK /\ LockTypeOK'
  BY StepUsesLock, LockTypePreserved DEF PingTypeOK
<1>1. ASSUME NEW j \in Jvm, BootStart(j)
      PROVE  PingTypeOK' /\ \A u \in Thread : ThreadOK(u)'
  BY <1>0, <1>1 DEF BootStart, Start, PingTypeOK, ThreadOK
<1>2. ASSUME NEW j \in Jvm, BootExists(j)
      PROVE  PingTypeOK' /\ \A u \in Thread : ThreadOK(u)'
  BY <1>0, <1>2 DEF BootExists, lockVars, PingTypeOK, ThreadOK
<1>3. ASSUME NEW j \in Jvm, BootInsert(j)
      PROVE  PingTypeOK' /\ \A u \in Thread : ThreadOK(u)'
  <2>1. SetDoc(Hello) /\ Hello \in Msg \cup {Absent}
    BY <1>3 DEF BootInsert
  <2>2. UNCHANGED <<lockVars, stage, msg, result>>
    BY <1>3 DEF BootInsert
  <2>3. PingTypeOK'
    BY <1>0, <1>3, <2>1, <2>2, SetDocFacts DEF BootInsert, PingTypeOK
  <2>4. \A u \in Thread : ThreadOK(u)'
    BY <2>1, <2>2, SetDocFacts DEF lockVars, ThreadOK
  <2> QED
    BY <2>3, <2>4
<1>4. ASSUME NEW j \in Jvm, Gone(j)
      PROVE  PingTypeOK' /\ \A u \in Thread : ThreadOK(u)'
  <2>1. PingTypeOK'
    BY <1>0, <1>4 DEF Gone, PingTypeOK
  <2>2. \A u \in Thread : ThreadOK(u)'
    <3> SUFFICES ASSUME NEW u \in Thread PROVE ThreadOK(u)'
      OBVIOUS
    <3>1. CASE JvmOf[u] = j
      <4>1. stage'[u] = "none" /\ pc'[u] = "idle"
        BY <1>4, <3>1 DEF Gone, Crash
      <4> QED
        BY <4>1 DEF ThreadOK, InTry
    <3>2. CASE JvmOf[u] # j
      <4>1. /\ stage'[u] = stage[u] /\ pc'[u] = pc[u] /\ idx'[u] = idx[u]
            /\ msg'[u] = msg[u] /\ current'[u] = current[u] /\ doc' = doc
        BY <1>4, <3>2 DEF Gone, Crash
      <4> QED
        BY <4>1 DEF ThreadOK
    <3> QED
      BY <3>1, <3>2
  <2> QED
    BY <2>1, <2>2
<1>5. ASSUME NEW j \in Jvm, Shutdown(j)
      PROVE  PingTypeOK' /\ \A u \in Thread : ThreadOK(u)'
  BY <1>0, <1>5 DEF Shutdown, CloseStream, serviceVars, PingTypeOK, ThreadOK
<1>6. ASSUME NEW t \in Thread, Attempt(t)
      PROVE  PingTypeOK' /\ \A u \in Thread : ThreadOK(u)'
  <2>1. /\ UNCHANGED <<boot, doc, stage, msg, result, current, idx>>
        /\ pc[t] = "idle" /\ pc' = [pc EXCEPT ![t] = "scan"]
    BY <1>6 DEF Attempt, Lock, serviceVars
  <2>2. PingTypeOK'
    BY <1>0, <2>1 DEF PingTypeOK
  <2>3. \A u \in Thread : pc'[u] = "hold" <=> pc[u] = "hold"
    BY <1>0, <2>1 DEF LockTypeOK
  <2> QED
    BY <2>1, <2>2, <2>3 DEF ThreadOK
<1>7. ASSUME NEW t \in Thread, Acquired(t)
      PROVE  PingTypeOK' /\ \A u \in Thread : ThreadOK(u)'
  <2>1. /\ pc' = [pc EXCEPT ![t] = "hold"] /\ idx' = idx /\ idx[t] \in Index
        /\ stage' = [stage EXCEPT ![t] = "find"]
        /\ current' = [current EXCEPT ![t] = {doc} \ {Absent}]
        /\ UNCHANGED <<boot, doc, msg, result>>
    BY <1>0, <1>7 DEF Acquired, TryLockAcquires, CanLock, LockTypeOK
  <2>2. PingTypeOK'
    BY <1>0, <2>1 DEF PingTypeOK, InTry
  <2>3. ThreadOK(t)'
    BY <1>0, <2>1 DEF ThreadOK, InTry, LockTypeOK, PingTypeOK
  <2>4. \A u \in Thread : u # t => ThreadOK(u)'
    BY <2>1 DEF ThreadOK
  <2> QED
    BY <2>2, <2>3, <2>4
<1>8. ASSUME NEW t \in Thread, NextChannel(t) \/ Limited(t)
      PROVE  PingTypeOK' /\ \A u \in Thread : ThreadOK(u)'
  <2>1. /\ UNCHANGED <<boot, doc, stage, msg, result, current>>
        /\ pc[t] = "scan" /\ pc'[t] # "hold"
        /\ \A u \in Thread : u # t => pc'[u] = pc[u] /\ idx'[u] = idx[u]
    BY <1>0, <1>8 DEF NextChannel, Limited, TryLockFails, LockReturnsNull, Trying,
                     serviceVars, LockTypeOK
  <2>2. PingTypeOK'
    BY <1>0, <2>1 DEF PingTypeOK
  <2>3. \A u \in Thread : ThreadOK(u)'
    BY <2>1 DEF ThreadOK
  <2> QED
    BY <2>2, <2>3
<1>9. ASSUME NEW t \in Thread, FindOne(t)
      PROVE  PingTypeOK' /\ \A u \in Thread : ThreadOK(u)'
  <2>1. /\ stage[t] = "find"
        /\ msg' = [msg EXCEPT ![t] = doc]
        /\ stage' = [stage EXCEPT ![t] = IF doc = Absent THEN "insert" ELSE "request"]
        /\ UNCHANGED <<pc, idx, boot, doc, result, current>>
    BY <1>9 DEF FindOne, Found, lockVars
  <2>2. PingTypeOK'
    BY <1>0, <2>1 DEF PingTypeOK, InTry
  <2>3. \A u \in Thread : ThreadOK(u)'
    <3>1. ThreadOK(t)'
      BY <2>1 DEF ThreadOK, InTry, PingTypeOK
    <3>2. \A u \in Thread : u # t => ThreadOK(u)'
      BY <2>1 DEF ThreadOK
    <3> QED
      BY <3>1, <3>2
  <2> QED
    BY <2>2, <2>3
<1>10. ASSUME NEW t \in Thread, InsertDefault(t)
       PROVE  PingTypeOK' /\ \A u \in Thread : ThreadOK(u)'
  <2>1. /\ stage[t] = "insert" /\ SetDoc(Hello) /\ Hello \in Msg \cup {Absent}
        /\ msg' = [msg EXCEPT ![t] = Hello]
        /\ stage' = [stage EXCEPT ![t] = "request"]
        /\ UNCHANGED <<pc, idx, boot, result>>
    BY <1>10 DEF InsertDefault, lockVars
  <2>2. PingTypeOK'
    BY <1>0, <2>1, SetDocFacts DEF PingTypeOK, InTry
  <2>3. ThreadOK(t)'
    BY <2>1, SetDocFacts DEF ThreadOK, InTry, PingTypeOK
  <2>4. \A u \in Thread : u # t => ThreadOK(u)'
    BY <2>1, SetDocFacts DEF ThreadOK
  <2> QED
    BY <2>2, <2>3, <2>4
<1>11. ASSUME NEW t \in Thread,
              InsertDuplicate(t) \/ Answer(t) \/ RequestFails(t)
       PROVE  PingTypeOK' /\ \A u \in Thread : ThreadOK(u)'
  <2>1. /\ stage[t] \in InTry
        /\ stage' = [stage EXCEPT ![t] = "finally"]
        /\ \E r \in {"throttled", "responded", "exception"} :
             result' = [result EXCEPT ![t] = r]
        /\ UNCHANGED <<pc, idx, boot, doc, msg, current>>
    BY <1>11 DEF InsertDuplicate, Answer, AnswerWith, ResultOf, RequestFails, Throw,
                 lockVars, InTry
  <2>2. PingTypeOK'
    BY <1>0, <2>1 DEF PingTypeOK, InTry
  <2>3. ThreadOK(t)'
    BY <2>1 DEF ThreadOK, InTry, PingTypeOK
  <2>4. \A u \in Thread : u # t => ThreadOK(u)'
    BY <2>1 DEF ThreadOK
  <2> QED
    BY <2>2, <2>3, <2>4
<1>12. ASSUME NEW t \in Thread, MongoFails(t)
       PROVE  PingTypeOK' /\ \A u \in Thread : ThreadOK(u)'
  <2>1. /\ stage[t] \in InTry
        /\ stage' = [stage EXCEPT ![t] = "finally"]
        /\ result' = [result EXCEPT ![t] = "exception"]
        /\ UNCHANGED <<pc, idx, boot, msg>>
        /\ UNCHANGED <<doc, current>> \/ SetDoc(Hello)
        /\ Hello \in Msg \cup {Absent}
    BY <1>12 DEF MongoFails, Throw, KeepDoc, lockVars, InTry
  <2>2. PingTypeOK'
    BY <1>0, <2>1, SetDocFacts DEF PingTypeOK, InTry
  <2>3. ThreadOK(t)'
    BY <2>1, SetDocFacts DEF ThreadOK, InTry, PingTypeOK
  <2>4. \A u \in Thread : u # t => ThreadOK(u)'
    BY <2>1, SetDocFacts DEF ThreadOK
  <2> QED
    BY <2>2, <2>3, <2>4
<1>13. ASSUME NEW t \in Thread, SendRequest(t)
       PROVE  PingTypeOK' /\ \A u \in Thread : ThreadOK(u)'
  <2>1. /\ stage[t] = "request"
        /\ stage' = [stage EXCEPT ![t] = "await"]
        /\ UNCHANGED <<pc, idx, boot, doc, msg, result, current>>
    BY <1>13 DEF SendRequest, lockVars
  <2>2. PingTypeOK'
    BY <1>0, <2>1 DEF PingTypeOK, InTry
  <2>3. ThreadOK(t)'
    BY <2>1 DEF ThreadOK, InTry, PingTypeOK
  <2>4. \A u \in Thread : u # t => ThreadOK(u)'
    BY <2>1 DEF ThreadOK
  <2> QED
    BY <2>2, <2>3, <2>4
<1>14. ASSUME NEW t \in Thread, Finally(t)
       PROVE  PingTypeOK' /\ \A u \in Thread : ThreadOK(u)'
  <2>1. /\ pc' = [pc EXCEPT ![t] = "idle"] /\ idx' = [idx EXCEPT ![t] = 0]
        /\ stage' = [stage EXCEPT ![t] = "none"]
        /\ msg' = [msg EXCEPT ![t] = Absent]
        /\ result' = [result EXCEPT ![t] = "none"]
        /\ current' = [current EXCEPT ![t] = {}]
        /\ UNCHANGED <<boot, doc>>
    BY <1>14 DEF Finally, Release, Unlock, Leave
  <2>2. PingTypeOK'
    BY <1>0, <2>1 DEF PingTypeOK, InTry
  <2>3. ThreadOK(t)'
    BY <1>0, <2>1 DEF ThreadOK, InTry, PingTypeOK, LockTypeOK
  <2>4. \A u \in Thread : u # t => ThreadOK(u)'
    BY <2>1 DEF ThreadOK
  <2> QED
    BY <2>2, <2>3, <2>4
<1>15. ASSUME NEW m \in Msg \cup {Absent}, SetDoc(m),
              UNCHANGED <<lockVars, boot, stage, msg, result>>
       PROVE  PingTypeOK' /\ \A u \in Thread : ThreadOK(u)'
  <2>1. PingTypeOK'
    BY <1>0, <1>15, SetDocFacts DEF PingTypeOK
  <2>2. \A u \in Thread : ThreadOK(u)'
    BY <1>15, SetDocFacts DEF lockVars, ThreadOK
  <2> QED
    BY <2>1, <2>2
<1>16. CASE UNCHANGED pingVars
  BY <1>0, <1>16 DEF pingVars, lockVars, serviceVars, PingTypeOK, ThreadOK
<1>17. ASSUME NEW j \in Jvm, BootStep(j) \/ Kill(j) \/ Shutdown(j)
       PROVE  PingTypeOK' /\ \A u \in Thread : ThreadOK(u)'
  BY <1>1, <1>2, <1>3, <1>4, <1>5, <1>17 DEF BootStep, BootDuplicate, Kill
<1>18. ASSUME NEW t \in Thread, Attempt(t) \/ InSend(t)
       PROVE  PingTypeOK' /\ \A u \in Thread : ThreadOK(u)'
  BY <1>6, <1>7, <1>8, <1>9, <1>10, <1>11, <1>12, <1>13, <1>14, <1>18
     DEF InSend, OwnStep, GetMessage
<1>19. ASSUME (\E m \in Msg : SetSendMessage(m)) \/ DropDoc
       PROVE  PingTypeOK' /\ \A u \in Thread : ThreadOK(u)'
  BY <1>15, <1>19 DEF SetSendMessage, DropDoc
<1> QED
  BY <1>16, <1>17, <1>18, <1>19 DEF PingNext

(* PingService.send/getSendMessage: a thread is in the try block just when *)
(* lock() gave it a file, and the history of its attempt knows the stored  *)
(* message and the one it is about to send.                                *)
THEOREM PingInvariant == PingSpec => []PingIInv
BY PingInitIInv, PingStepIInv, PTL DEF PingSpec

-----------------------------------------------------------------------------
(* PingService.send: at most Num requests are at pong at the same time,    *)
(* over all the processes of a directory that are not shutting down.       *)
THEOREM RequestsLimit == PingSpec => []RequestsBounded
<1>1. PingIInv /\ LockIInv => RequestsBounded
  <2> SUFFICES ASSUME PingIInv, LockIInv, NEW d \in Dir
               PROVE  Cardinality(InFlight(d)) <= Num
    BY DEF RequestsBounded
  <2>1. \A t \in InFlight(d) : t \in HoldersOf(d) /\ idx[t] \in Index
    BY DEF InFlight, HoldersOf, Holds, PingIInv, TryHolds, InTry
  <2> DEFINE num == [t \in InFlight(d) |-> idx[t]]
  <2>2. num \in [InFlight(d) -> Index]
    BY <2>1
  <2>3. \A t, u \in InFlight(d) : num[t] = num[u] => t = u
    BY <2>1 DEF LockIInv, SlotExclusive, HoldersOf, HeldFile, FileOf
  <2>4. num \in Injection(InFlight(d), Index)
    BY <2>2, <2>3 DEF Injection, IsInjective
  <2> QED
    BY <2>4, IndexCounted, FS_Injection
<1> QED
  BY <1>1, PingInvariant, LockInvariantInService, PTL

(* PingService.send, finally: no attempt leaves a lock file locked behind. *)
THEOREM SlotsAlwaysReturned == PingSpec => []SlotsReturned
<1>1. PingIInv /\ NoSlotLeaks => SlotsReturned
  BY DEF PingIInv, TryHolds, NoSlotLeaks, SlotsReturned, Holds
<1> QED
  BY <1>1, PingInvariant, LockUsed, LeakFree, PTL DEF UsesLock

(* PingService.getSendMessage: what is sent was stored during the attempt. *)
THEOREM MessageCurrent == PingSpec => []MessageIsCurrent
BY PingInvariant, PTL DEF PingIInv

(* PingService.getSendMessage, MongoDBConfiguration.init: no step replaces *)
(* a stored message but setSendMessage and the deletion by hand.           *)
THEOREM MessageKept == PingSpec => ConfiguredMessageKept
<1>1. ASSUME [PingNext]_pingVars, doc # Absent, doc' # doc
      PROVE  DropDoc \/ \E m \in Msg : SetSendMessage(m)
  <2>1. ASSUME NEW j \in Jvm, BootStep(j) \/ Kill(j) \/ Shutdown(j) PROVE doc' = doc
    BY <1>1, <2>1 DEF BootStep, BootStart, BootExists, BootInsert, MayInsert,
         BootDuplicate, Kill, Gone, Shutdown, serviceVars
  <2>2. ASSUME NEW t \in Thread, Attempt(t) \/ InSend(t) PROVE doc' = doc
    BY <1>1, <2>2 DEF Attempt, InSend, OwnStep, Acquired, NextChannel, Limited, GetMessage,
         FindOne, InsertDefault, MayInsert, InsertDuplicate, MongoFails, KeepDoc,
         SendRequest, Answer, AnswerWith, RequestFails, Finally, Leave, serviceVars
  <2>3. CASE UNCHANGED pingVars
    BY <1>1, <2>3 DEF pingVars, serviceVars
  <2> QED
    BY <1>1, <2>1, <2>2, <2>3 DEF PingNext
<1>2. [PingNext]_pingVars =>
        [doc # Absent /\ doc' # doc =>
           DropDoc \/ \E m \in Msg : SetSendMessage(m)]_pingVars
  BY <1>1
<1> QED
  BY <1>2, PTL DEF PingSpec, ConfiguredMessageKept

-----------------------------------------------------------------------------
(* Permits ever handed out and those in store were earned since init. *)
Earned == Len(passed) * Interval + storedPermits <= nextFreeTicket - created

(* Since any request that passed, at most a second's store was added to    *)
(* what was earned: the budget that is left once it has been served.       *)
EarnedSince ==
  \A i \in 1 .. Len(passed) :
    (Len(passed) - i) * Interval + storedPermits
      <= nextFreeTicket - passed[i] + Second - Interval

(* The next ticket is in the future only because of the last request. *)
Cause == IF passed = <<>> THEN nextFreeTicket <= now
         ELSE /\ passed[Len(passed)] <= now
              /\ nextFreeTicket <= passed[Len(passed)] + Interval

ThrottleIInv == /\ ThrottleTypeOK
                /\ Earned /\ EarnedSince /\ Cause
                /\ WindowRate /\ RejectedOnlyAfterPass

-----------------------------------------------------------------------------
(* A second is at least as long as the time to earn a permit. *)
LEMMA SecondFacts == Second \in Nat /\ Interval <= Second /\ Interval \in Nat \ {0}
<1>1. \A r, n \in Nat \ {0} : r * n \in Nat /\ n <= r * n
  OBVIOUS
<1> QED
  BY <1>1, RateAssumption DEF Second

(* One more permit is one more interval (distributivity, for SMT). *)
LEMMA OneMore == \A n \in Int : (n + 1) * Interval = n * Interval + Interval
BY SecondFacts

(* Linear arithmetic of a request that passes: its permit is paid for by   *)
(* the store, by the time gone by, or by moving the next ticket.           *)
LEMMA Slack ==
  \A x, s, n, w, p, c, k \in Int :
    x + s <= n - p + c - k /\ n <= w /\ 0 <= s => x + k <= w - p + c
OBVIOUS

(* The same for the budget of an earlier request: x of it was used, the    *)
(* store grows from s to r, of which a is spent.                           *)
LEMMA Serve ==
  \A x, s, n, w, r, a, p, c, k \in Int :
    x + s <= n - p + c - k /\ r <= s + w - n
      => (x + k) + (r - a) <= (w + k - a) - p + c - k
OBVIOUS

(* What resync and reserve compute when a permit can be had. *)
LEMMA ReserveFacts ==
  ASSUME ThrottleTypeOK, CanAcquire
  PROVE  /\ Resynced \in 0 .. Second
         /\ Resynced <= storedPermits + now - nextFreeTicket
         /\ Spend \in 0 .. Interval /\ Spend <= Resynced
         /\ NextFree = now + Interval - Spend
         /\ NextFree \in Nat
<1>1. /\ Resynced \in 0 .. Second
      /\ Resynced <= storedPermits + now - nextFreeTicket
  BY SecondFacts DEF ThrottleTypeOK, CanAcquire, Resynced, Least
<1>2. Spend \in 0 .. Interval /\ Spend <= Resynced
  BY <1>1, SecondFacts DEF Spend, Least
<1>3. NextFree = now + Interval - Spend /\ NextFree \in Nat
  BY <1>2, SecondFacts DEF NextFree, ThrottleTypeOK
<1> QED
  BY <1>1, <1>2, <1>3

(* A limiter that was just created has handed out nothing. *)
LEMMA ThrottleInitIInv == ThrottleInit => ThrottleIInv
BY SecondFacts, RateAssumption
   DEF ThrottleInit, ThrottleIInv, ThrottleTypeOK, Earned, EarnedSince, Cause,
       WindowRate, RejectedOnlyAfterPass

(* A request that passes is paid for by what was earned. *)
LEMMA PassKeeps == ThrottleIInv /\ FilterPasses => ThrottleIInv'
<1> SUFFICES ASSUME ThrottleIInv, FilterPasses PROVE ThrottleIInv'
  OBVIOUS
<1> DEFINE G == Len(passed)
<1>1. /\ storedPermits' = Resynced - Spend
      /\ nextFreeTicket' = now + Interval - Spend
      /\ passed' = Append(passed, now)
      /\ UNCHANGED <<now, created, rejected>>
      /\ nextFreeTicket <= now
      /\ Resynced \in 0 .. Second
      /\ Resynced <= storedPermits + now - nextFreeTicket
      /\ Spend \in 0 .. Interval /\ Spend <= Resynced
      /\ nextFreeTicket' \in Nat
  BY ReserveFacts DEF FilterPasses, ThrottleIInv, CanAcquire
<1>2. /\ now \in Nat /\ created \in Nat /\ nextFreeTicket \in Nat
      /\ storedPermits \in 0 .. Second /\ passed \in Seq(Nat)
      /\ G \in Nat
  BY DEF ThrottleIInv, ThrottleTypeOK
<1>3. /\ Len(passed') = G + 1
      /\ passed'[G + 1] = now
      /\ \A i \in 1 .. G : passed'[i] = passed[i] /\ passed[i] \in Nat
  BY <1>1, <1>2
<1>4. ThrottleTypeOK'
  BY <1>1, <1>2, SecondFacts DEF ThrottleIInv, ThrottleTypeOK
<1>5. Earned'
  <2>1. (G + 1) * Interval = G * Interval + Interval /\ G * Interval \in Int
    BY <1>2, OneMore, SecondFacts
  <2>2. G * Interval + storedPermits <= nextFreeTicket - created
    BY DEF ThrottleIInv, Earned
  <2> QED
    BY <1>1, <1>2, <1>3, <2>1, <2>2, SecondFacts DEF Earned
<1>6. EarnedSince'
  <2> SUFFICES ASSUME NEW i \in 1 .. (G + 1)
               PROVE  (G + 1 - i) * Interval + storedPermits'
                        <= nextFreeTicket' - passed'[i] + Second - Interval
    BY <1>1, <1>3 DEF EarnedSince
  <2>1. CASE i = G + 1
    <3>1. (G + 1 - i) * Interval = 0
      BY <2>1, <1>2, SecondFacts
    <3> QED
      BY <2>1, <3>1, <1>1, <1>2, <1>3, SecondFacts
  <2>2. CASE i \in 1 .. G
    <3>1. (G - i) * Interval + storedPermits
            <= nextFreeTicket - passed[i] + Second - Interval
      BY <2>2 DEF ThrottleIInv, EarnedSince
    <3>2. (G + 1 - i) * Interval = (G - i) * Interval + Interval
      <4>1. G + 1 - i = (G - i) + 1 /\ G - i \in Int
        BY <1>2
      <4> QED
        BY <4>1, OneMore
    <3>3. /\ (G - i) * Interval \in Int /\ storedPermits \in Int
          /\ nextFreeTicket \in Int /\ now \in Int /\ passed[i] \in Int
          /\ Resynced \in Int /\ Spend \in Int /\ Second \in Int /\ Interval \in Int
      BY <2>2, <1>1, <1>2, <1>3, SecondFacts
    <3>4. ((G - i) * Interval + Interval) + (Resynced - Spend)
            <= (now + Interval - Spend) - passed[i] + Second - Interval
      BY <3>1, <3>3, <1>1, Serve
    <3>5. passed'[i] = passed[i]
      BY <2>2, <1>3
    <3> QED
      BY <3>2, <3>4, <3>5, <1>1
  <2> QED
    BY <2>1, <2>2, <1>2
<1>7. Cause'
  <2>1. passed' # <<>>
    BY <1>1, <1>2
  <2> QED
    BY <1>1, <1>2, <1>3, <2>1, SecondFacts DEF Cause
<1>8. WindowRate'
  <2> SUFFICES ASSUME NEW i \in 1 .. (G + 1), NEW j \in 1 .. (G + 1), i < j
               PROVE  (j - i) * Interval <= passed'[j] - passed'[i] + Second
    BY <1>1, <1>3 DEF WindowRate
  <2>1. CASE j \in 1 .. G
    <3>1. i \in 1 .. G
      BY <2>1, <1>2
    <3> QED
      BY <2>1, <3>1, <1>3 DEF ThrottleIInv, WindowRate
  <2>2. CASE j = G + 1
    <3>1. i \in 1 .. G
      BY <2>2, <1>2
    <3>2. (G - i) * Interval + storedPermits
            <= nextFreeTicket - passed[i] + Second - Interval
      BY <3>1 DEF ThrottleIInv, EarnedSince
    <3>3. (j - i) * Interval = (G - i) * Interval + Interval
      <4>1. j - i = (G - i) + 1 /\ G - i \in Int
        BY <2>2, <1>2
      <4> QED
        BY <4>1, OneMore
    <3>4. (G - i) * Interval \in Int
      BY <1>2, SecondFacts
    <3>5. passed'[j] = now /\ passed'[i] = passed[i] /\ passed[i] \in Nat
      BY <2>2, <3>1, <1>3
    <3>6. (G - i) * Interval + Interval <= now - passed[i] + Second
      <4>1. /\ (G - i) * Interval \in Int /\ storedPermits \in Int
            /\ nextFreeTicket \in Int /\ now \in Int /\ passed[i] \in Int
            /\ Second \in Int /\ Interval \in Int
        BY <3>4, <3>5, <1>2, SecondFacts
      <4>2. nextFreeTicket <= now /\ 0 <= storedPermits
        BY <1>1, <1>2
      <4> QED
        BY <4>1, <4>2, <3>2, Slack
    <3> QED
      BY <3>3, <3>5, <3>6
  <2> QED
    BY <2>1, <2>2, <1>2
<1>9. RejectedOnlyAfterPass'
  BY <1>1, <1>2, <1>3 DEF ThrottleIInv, RejectedOnlyAfterPass
<1> QED
  BY <1>4, <1>5, <1>6, <1>7, <1>8, <1>9 DEF ThrottleIInv

(* A request that is refused came too soon after the last that passed. *)
LEMMA RejectKeeps == ThrottleIInv /\ FilterRejects => ThrottleIInv'
<1> SUFFICES ASSUME ThrottleIInv, FilterRejects PROVE ThrottleIInv'
  OBVIOUS
<1>1. /\ rejected' = rejected \cup {now}
      /\ UNCHANGED <<now, created, storedPermits, nextFreeTicket, passed>>
      /\ now \in Nat /\ nextFreeTicket \in Nat /\ now < nextFreeTicket
      /\ passed \in Seq(Nat)
  BY DEF FilterRejects, CanAcquire, limiterVars, ThrottleIInv, ThrottleTypeOK
<1>2. ThrottleTypeOK' /\ Earned' /\ EarnedSince' /\ Cause' /\ WindowRate'
  BY <1>1 DEF ThrottleIInv, ThrottleTypeOK, Earned, EarnedSince, Cause, WindowRate
<1>3. RejectedOnlyAfterPass'
  <2>1. passed # <<>> /\ Len(passed) \in 1 .. Len(passed)
    BY <1>1 DEF ThrottleIInv, Cause
  <2>2. passed[Len(passed)] <= now /\ now < passed[Len(passed)] + Interval
    BY <1>1, <2>1, SecondFacts DEF ThrottleIInv, Cause
  <2> QED
    BY <1>1, <2>1, <2>2 DEF ThrottleIInv, RejectedOnlyAfterPass
<1> QED
  BY <1>2, <1>3 DEF ThrottleIInv

(* init after a restart: the histories of the process are empty again. *)
LEMMA RestartKeeps == ThrottleIInv /\ Restart => ThrottleIInv'
BY SecondFacts
   DEF Restart, CreateLimiter, ThrottleIInv, ThrottleTypeOK, Earned, EarnedSince,
       Cause, WindowRate, RejectedOnlyAfterPass

(* The clock moves: nothing was handed out, and more is earned. *)
LEMMA TickKeeps == ThrottleIInv /\ Tick => ThrottleIInv'
<1> SUFFICES ASSUME ThrottleIInv, Tick PROVE ThrottleIInv'
  OBVIOUS
<1>1. /\ now' = now + 1 /\ now < MaxTime
      /\ UNCHANGED <<created, storedPermits, nextFreeTicket, passed, rejected>>
  BY DEF Tick, limiterVars
<1>2. ThrottleTypeOK'
  BY <1>1, RateAssumption DEF ThrottleIInv, ThrottleTypeOK
<1>3. Earned' /\ EarnedSince' /\ WindowRate' /\ RejectedOnlyAfterPass'
  BY <1>1 DEF ThrottleIInv, Earned, EarnedSince, WindowRate, RejectedOnlyAfterPass
<1>4. Cause'
  <2>1. passed # <<>> => passed[Len(passed)] \in Nat
    BY DEF ThrottleIInv, ThrottleTypeOK
  <2> QED
    BY <1>1, <2>1 DEF ThrottleIInv, ThrottleTypeOK, Cause
<1> QED
  BY <1>2, <1>3, <1>4 DEF ThrottleIInv

(* ThrottlingInterceptor.filter: every request that passed is paid for by  *)
(* permits earned since the limiter was created, and a ticket in the       *)
(* future was caused by a request that passed less than a permit ago.      *)
THEOREM ThrottleInvariant == ThrottleSpec => []ThrottleIInv
<1>1. ThrottleIInv /\ UNCHANGED throttleVars => ThrottleIInv'
  BY DEF throttleVars, limiterVars, ThrottleIInv, ThrottleTypeOK, Earned,
         EarnedSince, Cause, WindowRate, RejectedOnlyAfterPass
<1>2. ThrottleIInv /\ [ThrottleNext]_throttleVars => ThrottleIInv'
  BY <1>1, PassKeeps, RejectKeeps, RestartKeeps, TickKeeps DEF ThrottleNext
<1> QED
  BY ThrottleInitIInv, <1>2, PTL DEF ThrottleSpec

-----------------------------------------------------------------------------
(* ThrottlingInterceptor.filter: in any window, no more requests pass than *)
(* the rate allows plus one second's store (2 * Rate in a second).         *)
THEOREM WindowBound == ThrottleSpec => []WindowRate
BY ThrottleInvariant, PTL DEF ThrottleIInv

(* ThrottlingInterceptor.filter: over the life of a process the requests   *)
(* that pass keep to the rate, but for one.                                *)
THEOREM LongRunBound == ThrottleSpec => []LongRunRate
<1>1. ThrottleIInv => LongRunRate
  <2> SUFFICES ASSUME ThrottleIInv PROVE LongRunRate
    OBVIOUS
  <2>1. /\ now \in Nat /\ created \in Nat /\ nextFreeTicket \in Nat
        /\ storedPermits \in Nat /\ Len(passed) * Interval \in Int
        /\ passed # <<>> => passed[Len(passed)] \in Nat
    BY SecondFacts DEF ThrottleIInv, ThrottleTypeOK
  <2>2. nextFreeTicket <= now + Interval
    BY <2>1, SecondFacts DEF ThrottleIInv, Cause
  <2> QED
    BY <2>1, <2>2, SecondFacts DEF ThrottleIInv, Earned, LongRunRate
<1> QED
  BY <1>1, ThrottleInvariant, PTL

(* ThrottlingInterceptor.filter: no 429 without a request that passed less *)
(* than one permit's time before.                                          *)
THEOREM NoIdleRejection == ThrottleSpec => []RejectedOnlyAfterPass
BY ThrottleInvariant, PTL DEF ThrottleIInv

-----------------------------------------------------------------------------
(* pong's filter and handler: the statuses that come back. *)
StatusOK == status \in [Thread -> {0, 200, RATE_LIMITED, 500}]

(* ThrottlingInterceptor.filter and PongService.respond answer no others. *)
LEMMA StatusInvariant == SystemSpec => []StatusOK
<1>1. SystemInit => StatusOK
  BY DEF SystemInit, StatusOK
<1>2. StatusOK /\ [SystemNext]_systemVars => StatusOK'
  BY DEF StatusOK, SystemNext, systemVars, Clock, Scheduled, HttpSend, Local, Leaves,
         PongHandles, Receives, Breaks, Ends, Stray, PongRestarts, ProcessStep, DocStep
<1> QED
  BY <1>1, <1>2, PTL DEF SystemSpec

(* Every step of the system is a step of the ping side or leaves it alone, *)
(* and likewise of pong's limiter.                                         *)
LEMMA StepProjects ==
  StatusOK /\ [SystemNext]_systemVars
    => [PingNext]_pingVars /\ [ThrottleNext]_throttleVars
<1> SUFFICES ASSUME StatusOK, [SystemNext]_systemVars
             PROVE  [PingNext]_pingVars /\ [ThrottleNext]_throttleVars
  OBVIOUS
<1>1. CASE Clock
  BY <1>1 DEF Clock, ThrottleNext
<1>2. ASSUME NEW t \in Thread, Scheduled(t) \/ HttpSend(t) \/ Local(t)
      PROVE  PingNext /\ UNCHANGED throttleVars
  BY <1>2 DEF Scheduled, HttpSend, Local, PingNext, InSend, OwnStep
<1>3. ASSUME NEW t \in Thread, Leaves(t) \/ Breaks(t) \/ Ends(t)
      PROVE  PingNext /\ UNCHANGED throttleVars
  BY <1>3 DEF Leaves, Breaks, Ends, PingNext, InSend, OwnStep
<1>4. ASSUME NEW t \in Thread, PongHandles(t)
      PROVE  UNCHANGED pingVars /\ ThrottleNext
  BY <1>4 DEF PongHandles, ThrottleNext
<1>5. ASSUME NEW t \in Thread, Receives(t)
      PROVE  [PingNext]_pingVars /\ UNCHANGED throttleVars
  <2>1. status[t] \in {200, RATE_LIMITED, 500} /\ UNCHANGED throttleVars
    BY <1>5 DEF Receives, StatusOK
  <2>2. Answer(t)
    BY <1>5, <2>1 DEF Receives, Answer
  <2> QED
    BY <2>1, <2>2 DEF PingNext, InSend, OwnStep
<1>6. CASE Stray \/ PongRestarts
  BY <1>6 DEF Stray, PongRestarts, ThrottleNext
<1>7. ASSUME NEW j \in Jvm, ProcessStep(j)
      PROVE  PingNext /\ UNCHANGED throttleVars
  BY <1>7 DEF ProcessStep, PingNext
<1>8. CASE DocStep
  BY <1>8 DEF DocStep, PingNext
<1>9. CASE UNCHANGED systemVars
  BY <1>9 DEF systemVars
<1> QED
  BY <1>1, <1>2, <1>3, <1>4, <1>5, <1>6, <1>7, <1>8, <1>9 DEF SystemNext

-----------------------------------------------------------------------------
(* In the system the ping side and pong's limiter behave as they do alone. *)
LEMMA SystemParts == SystemSpec => PingSpec /\ ThrottleSpec
<1>1. SystemInit => PingInit /\ ThrottleInit
  BY DEF SystemInit
<1> QED
  BY <1>1, StatusInvariant, StepProjects, PTL DEF SystemSpec, PingSpec, ThrottleSpec

(* PingService.send in the system: what the processes of a directory have  *)
(* at pong is bounded, and every attempt returns its slot.                 *)
THEOREM SystemBounded == SystemSpec => []RequestsBounded /\ []SlotsReturned
BY SystemParts, RequestsLimit, SlotsAlwaysReturned

(* ThrottlingInterceptor in the system: whatever the ping processes and    *)
(* other callers send, and whenever, pong handles no more than the rate    *)
(* and one second's store in any window.                                   *)
THEOREM SystemRate == SystemSpec => []WindowRate
BY SystemParts, WindowBound

-----------------------------------------------------------------------------
(* What HonestResults says of one thread. *)
HonestAt(u) ==
  stage[u] = "finally" =>
    /\ result[u] = "throttled" <=> result[u] # "exception" /\ status[u] = RATE_LIMITED
    /\ result[u] = "responded" => status[u] \in {200, 500}

(* A thread that has been through none of its steps is as honest as before. *)
LEMMA OthersHonest ==
  ASSUME NEW u \in Thread, HonestAt(u),
         stage'[u] = stage[u], result'[u] = result[u], status'[u] = status[u]
  PROVE  HonestAt(u)'
BY DEF HonestAt

(* Steps of ping that pong takes no part in end the try block only with an *)
(* exception.                                                              *)
LEMMA AloneHonest ==
  ASSUME PingIInv, HonestResults, NEW t \in Thread,
         \/ Attempt(t) \/ Acquired(t) \/ NextChannel(t) \/ Limited(t)
         \/ GetMessage(t) \/ SendRequest(t) \/ RequestFails(t),
         UNCHANGED status
  PROVE  HonestResults'
<1> SUFFICES ASSUME NEW u \in Thread PROVE HonestAt(u)'
  BY DEF HonestResults, HonestAt
<1> USE DEF PingIInv, PingTypeOK
<1>1. HonestAt(u)
  BY DEF HonestResults, HonestAt
<1>2. CASE Attempt(t) \/ NextChannel(t) \/ Limited(t)
  BY <1>1, <1>2, OthersHonest DEF Attempt, NextChannel, Limited, serviceVars
<1>3. CASE \/ Acquired(t) \/ SendRequest(t) \/ FindOne(t) \/ InsertDefault(t)
  <2>1. /\ stage'[t] # "finally"
        /\ u # t => stage'[u] = stage[u] /\ result'[u] = result[u]
    BY <1>3 DEF Acquired, SendRequest, FindOne, InsertDefault
  <2> QED
    BY <1>1, <2>1, OthersHonest DEF HonestAt
<1>4. CASE InsertDuplicate(t) \/ MongoFails(t) \/ RequestFails(t)
  <2>1. Throw(t)
    BY <1>4 DEF InsertDuplicate, MongoFails, RequestFails
  <2>2. /\ result'[t] = "exception"
        /\ u # t => stage'[u] = stage[u] /\ result'[u] = result[u]
    BY <2>1 DEF Throw
  <2> QED
    BY <1>1, <2>2, OthersHonest DEF HonestAt
<1> QED
  BY <1>2, <1>3, <1>4 DEF GetMessage

(* A process that ends takes the answers of its threads along, and no      *)
(* others: a thread in the try block belongs to a process that runs.       *)
LEMMA ProcessHonest ==
  ASSUME PingIInv, PingIInv', LockIInv', HonestResults,
         NEW j \in Jvm, ProcessStep(j)
  PROVE  HonestResults'
<1> SUFFICES ASSUME NEW u \in Thread PROVE HonestAt(u)'
  BY DEF HonestResults, HonestAt
<1> DEFINE dead == {t \in ThreadsOf(j) : ~live'[j]}
<1>1. HonestAt(u)
  BY DEF HonestResults, HonestAt
<1>2. status'[u] = IF u \in dead THEN 0 ELSE status[u]
  BY DEF ProcessStep
<1>3. u \in dead => stage'[u] # "finally"
  BY DEF PingIInv, TryHolds, LockIInv, UsersAlive, ThreadsOf, InTry
<1>4. CASE BootDuplicate(j) \/ Kill(j)
  <2>1. Gone(j)
    BY <1>4 DEF BootDuplicate, Kill
  <2>2. stage'[u] = "none" \/ (stage'[u] = stage[u] /\ result'[u] = result[u])
    BY <2>1 DEF Gone
  <2>3. stage'[u] = "none" => HonestAt(u)'
    BY DEF HonestAt
  <2>4. u \in dead => HonestAt(u)'
    BY <1>3 DEF HonestAt
  <2> QED
    BY <1>1, <1>2, <2>2, <2>3, <2>4, OthersHonest
<1>5. CASE BootStart(j) \/ BootExists(j) \/ BootInsert(j) \/ Shutdown(j)
  <2>1. UNCHANGED <<stage, result>>
    BY <1>5 DEF BootStart, BootExists, BootInsert, Shutdown, serviceVars
  <2>2. u \in dead => HonestAt(u)'
    BY <1>3 DEF HonestAt
  <2> QED
    BY <1>1, <1>2, <2>1, <2>2, OthersHonest
<1> QED
  BY <1>4, <1>5 DEF ProcessStep, BootStep

(* Every step of the system keeps results honest. *)
LEMMA HonestKept ==
  ASSUME PingIInv, PingIInv', LockIInv', StatusOK, HonestResults,
         [SystemNext]_systemVars
  PROVE  HonestResults'
<1>1. ASSUME UNCHANGED <<stage, result, status>> PROVE HonestResults'
  BY <1>1 DEF HonestResults
<1>2. CASE Clock \/ Stray \/ PongRestarts \/ DocStep \/ UNCHANGED systemVars
  BY <1>1, <1>2 DEF Clock, Stray, PongRestarts, DocStep, SetSendMessage, DropDoc,
                    systemVars, pingVars, serviceVars
<1>3. ASSUME NEW t \in Thread,
             Scheduled(t) \/ HttpSend(t) \/ Local(t) \/ Leaves(t) \/ Breaks(t)
      PROVE  HonestResults'
  <2>1. /\ \/ Attempt(t) \/ Acquired(t) \/ NextChannel(t) \/ Limited(t)
           \/ GetMessage(t) \/ SendRequest(t) \/ RequestFails(t)
        /\ UNCHANGED status
    BY <1>3 DEF Scheduled, HttpSend, Local, Leaves, Breaks
  <2> QED
    BY <2>1, AloneHonest
<1>4. ASSUME NEW t \in Thread, PongHandles(t) PROVE HonestResults'
  <2>1. stage[t] = "await" /\ UNCHANGED <<stage, result>>
    BY <1>4 DEF PongHandles, pingVars, serviceVars
  <2>2. \A u \in Thread : u # t => status'[u] = status[u]
    BY <1>4 DEF PongHandles, StatusOK
  <2> QED
    BY <2>1, <2>2 DEF HonestResults
<1>5. ASSUME NEW t \in Thread, Receives(t) PROVE HonestResults'
  <2>1. /\ status[t] \in {200, RATE_LIMITED, 500} /\ status' = status
        /\ stage' = [stage EXCEPT ![t] = "finally"]
        /\ result' = [result EXCEPT ![t] = ResultOf(status[t])]
    BY <1>5 DEF Receives, AnswerWith, StatusOK
  <2>2. result'[t] = ResultOf(status[t])
    BY <2>1 DEF PingIInv, PingTypeOK
  <2>3. HonestAt(t)'
    BY <2>1, <2>2 DEF HonestAt, ResultOf, RATE_LIMITED
  <2>4. ASSUME NEW u \in Thread, u # t PROVE HonestAt(u)'
    BY <2>1, <2>4, OthersHonest DEF HonestResults, HonestAt
  <2> QED
    BY <2>3, <2>4 DEF HonestResults, HonestAt
<1>6. ASSUME NEW t \in Thread, Ends(t) PROVE HonestResults'
  <2>1. /\ stage' = [stage EXCEPT ![t] = "none"]
        /\ result' = [result EXCEPT ![t] = "none"]
        /\ status' = [status EXCEPT ![t] = 0]
    BY <1>6 DEF Ends, Finally, Leave
  <2>2. stage'[t] # "finally"
    BY <2>1 DEF PingIInv, PingTypeOK
  <2>3. \A u \in Thread : u # t => /\ stage'[u] = stage[u] /\ result'[u] = result[u]
                                   /\ status'[u] = status[u]
    BY <2>1
  <2> QED
    BY <2>2, <2>3 DEF HonestResults
<1>7. ASSUME NEW j \in Jvm, ProcessStep(j) PROVE HonestResults'
  BY <1>7, ProcessHonest
<1> QED
  BY <1>2, <1>3, <1>4, <1>5, <1>6, <1>7 DEF SystemNext

(* PingService.send with pong's filter: in whatever order answers, breaks, *)
(* restarts and kills come, an attempt is logged as throttled just when    *)
(* pong refused this request, and as answered only if pong handled it.     *)
THEOREM ResultsHonest == SystemSpec => []HonestResults
<1>1. SystemInit => HonestResults
  BY DEF SystemInit, PingInit, HonestResults
<1>2. PingIInv /\ PingIInv' /\ LockIInv' /\ StatusOK /\ HonestResults
        /\ [SystemNext]_systemVars
        => HonestResults'
  BY HonestKept
<1>3. SystemSpec => []PingIInv /\ []LockIInv
  BY SystemParts, PingInvariant, LockInvariantInService
<1> QED
  BY <1>1, <1>2, <1>3, StatusInvariant, PTL DEF SystemSpec

=============================================================================
