---------------------------- MODULE PingService ----------------------------
(***************************************************************************)
(* ping: PingService.send and setSendMessage, the controller and the cron  *)
(* job that call them, and MongoDBConfiguration.init, which every process  *)
(* runs before it serves.  The limiter is FileLimitedLock, whose actions   *)
(* this module composes with its own.                                      *)
(*                                                                         *)
(* A process has one scheduler thread and the event-loop threads that run  *)
(* GET /ping/send; both call send(), so a Thread here is any of them.  The *)
(* message to send is a document in MongoDB that all processes share:      *)
(* every operation of MongoTemplate is one atomic step on it, and other    *)
(* threads and processes act between two of them.  mongoTemplate is not    *)
(* null, since MongoDBConfiguration requires it.                           *)
(***************************************************************************)
EXTENDS FileLimitedLock

CONSTANTS Msg,          \* messages the document may hold
          Hello,        \* MappedConstant.REQUEST_MSG
          Absent,       \* there is no document, or no message was read yet
          MongoFaults   \* TRUE: MongoDB operations of send() may fail

ASSUME PingAssumption == /\ Hello \in Msg
                         /\ Absent \notin Msg
                         /\ MongoFaults \in BOOLEAN

VARIABLES boot,     \* [Jvm -> ...], how far the process has started
          doc,      \* the message of the document with id MSG_ID
          stage,    \* [Thread -> ...], where the thread is in send's try block
          msg,      \* [Thread -> Msg \cup {Absent}], the local variable msg
          result,   \* [Thread -> ...], how the try block ends
          current   \* history: the messages doc had since the thread's lock()

serviceVars == <<boot, doc, stage, msg, result, current>>
pingVars == <<lockVars, serviceVars>>

RATE_LIMITED == 429

InTry == {"find", "insert", "request", "await", "finally"}

PingInit == /\ LockInit
            /\ boot = [j \in Jvm |-> "off"]
            /\ doc \in Msg \cup {Absent}
            /\ stage = [t \in Thread |-> "none"]
            /\ msg = [t \in Thread |-> Absent]
            /\ result = [t \in Thread |-> "none"]
            /\ current = [t \in Thread |-> {}]

(* The document becomes m; the history of every running attempt sees it. *)
SetDoc(m) == /\ doc' = m
             /\ current' = [t \in Thread |->
                              IF stage[t] \in InTry /\ m # Absent
                              THEN current[t] \cup {m} ELSE current[t]]

KeepDoc == UNCHANGED <<doc, current>>

-----------------------------------------------------------------------------
(* The process starts: FileLimitedLock.init and MongoDBConfiguration.init. *)

BootStart(j) == /\ Start(j)
                /\ boot' = [boot EXCEPT ![j] = "check"]
                /\ UNCHANGED <<doc, stage, msg, result, current>>

(* Mutant: the default is inserted at every start. *)
BootWithoutExists(j) ==
  /\ boot[j] = "check"
  /\ boot' = [boot EXCEPT ![j] = "insert"]
  /\ UNCHANGED <<lockVars, doc, stage, msg, result, current>>

(* mongoTemplate.exists *)
BootExists(j) ==
  /\ boot[j] = "check"
  /\ boot' = [boot EXCEPT ![j] = IF doc = Absent THEN "insert" ELSE "ready"]
  /\ UNCHANGED <<lockVars, doc, stage, msg, result, current>>

(* insert() of a document whose id exists is refused with a duplicate key. *)
MayInsert == doc = Absent

BootInsert(j) == /\ boot[j] = "insert"
                 /\ MayInsert
                 /\ SetDoc(Hello)
                 /\ boot' = [boot EXCEPT ![j] = "ready"]
                 /\ UNCHANGED <<lockVars, stage, msg, result>>

(* What is left of the threads of a process that ends: nothing. *)
Gone(j) == /\ Crash(j)
           /\ boot' = [boot EXCEPT ![j] = "off"]
           /\ stage' = [t \in Thread |-> IF JvmOf[t] = j THEN "none" ELSE stage[t]]
           /\ msg' = [t \in Thread |-> IF JvmOf[t] = j THEN Absent ELSE msg[t]]
           /\ result' = [t \in Thread |-> IF JvmOf[t] = j THEN "none" ELSE result[t]]
           /\ current' = [t \in Thread |-> IF JvmOf[t] = j THEN {} ELSE current[t]]
           /\ UNCHANGED doc

(* Another process inserted first: the duplicate key ends this one. *)
BootDuplicate(j) == /\ boot[j] = "insert"
                    /\ ~MayInsert
                    /\ Gone(j)

(* Killed, out of memory, or the end of a shutdown. *)
Kill(j) == Gone(j)

(* A shutdown: the streams are closed while threads may be in send(). *)
Shutdown(j) == CloseStream(j) /\ UNCHANGED serviceVars

-----------------------------------------------------------------------------
(* send(), called by the cron job and by GET /ping/send *)

Attempt(t) == /\ boot[JvmOf[t]] = "ready"
              /\ Lock(t)
              /\ UNCHANGED serviceVars

(* lock() got a file: the try block begins. *)
Acquired(t) == /\ TryLockAcquires(t)
               /\ stage' = [stage EXCEPT ![t] = "find"]
               /\ current' = [current EXCEPT ![t] = {doc} \ {Absent}]
               /\ UNCHANGED <<boot, doc, msg, result>>

NextChannel(t) == TryLockFails(t) /\ UNCHANGED serviceVars

(* lock() returned null: PING_LIMITED_MSG is logged and returned. *)
Limited(t) == LockReturnsNull(t) /\ UNCHANGED serviceVars

(* Mutant: the call is tried again until it works. *)
Retry(t) == /\ stage' = [stage EXCEPT ![t] = "find"]
            /\ UNCHANGED result

(* An exception in the try block goes through finally to the caller. *)
Throw(t) == /\ stage' = [stage EXCEPT ![t] = "finally"]
            /\ result' = [result EXCEPT ![t] = "exception"]

(* Mutant: the message of an earlier attempt is still good. *)
FoundCached(t) == IF doc = Absent THEN Absent ELSE Hello

(* What findOne returns. *)
Found(t) == doc

(* getSendMessage: mongoTemplate.findOne *)
FindOne(t) == /\ stage[t] = "find"
              /\ msg' = [msg EXCEPT ![t] = Found(t)]
              /\ stage' = [stage EXCEPT ![t] = IF doc = Absent THEN "insert"
                                               ELSE "request"]
              /\ UNCHANGED <<lockVars, boot, doc, result, current>>

(* Mutant: save() instead of insert(), which replaces a document. *)
SaveDefault(t) == /\ stage[t] = "insert"
                  /\ SetDoc(Hello)
                  /\ msg' = [msg EXCEPT ![t] = Hello]
                  /\ stage' = [stage EXCEPT ![t] = "request"]
                  /\ UNCHANGED <<lockVars, boot, result>>

(* getSendMessage: there was none, the default is inserted and used. *)
InsertDefault(t) == /\ stage[t] = "insert"
                    /\ MayInsert
                    /\ SetDoc(Hello)
                    /\ msg' = [msg EXCEPT ![t] = Hello]
                    /\ stage' = [stage EXCEPT ![t] = "request"]
                    /\ UNCHANGED <<lockVars, boot, result>>

(* getSendMessage: someone inserted it since findOne: DuplicateKeyException. *)
InsertDuplicate(t) == /\ stage[t] = "insert"
                      /\ ~MayInsert
                      /\ Throw(t)
                      /\ UNCHANGED <<lockVars, boot, doc, msg, current>>

(* MongoDB is down or slow; an insert that fails may have been applied. *)
MongoFails(t) == /\ MongoFaults
                 /\ stage[t] \in {"find", "insert"}
                 /\ Throw(t)
                 /\ \/ KeepDoc
                    \/ stage[t] = "insert" /\ doc = Absent /\ SetDoc(Hello)
                 /\ UNCHANGED <<lockVars, boot, msg>>

(* pingClient.send: the request leaves. *)
SendRequest(t) == /\ stage[t] = "request"
                  /\ stage' = [stage EXCEPT ![t] = "await"]
                  /\ UNCHANGED <<lockVars, boot, doc, msg, result, current>>

(* Mutant: only 200 is taken for a response, all else for throttling. *)
ResultIfOk(status) == IF status = 200 THEN "responded" ELSE "throttled"

(* 429 is told from every other status, errors of pong included. *)
ResultOf(status) == IF status = RATE_LIMITED THEN "throttled" ELSE "responded"

(* pong answers with a status. *)
AnswerWith(t, status) ==
  /\ stage[t] = "await"
  /\ stage' = [stage EXCEPT ![t] = "finally"]
  /\ result' = [result EXCEPT ![t] = ResultOf(status)]
  /\ UNCHANGED <<lockVars, boot, doc, msg, current>>

Answer(t) == \E status \in {200, RATE_LIMITED, 500} : AnswerWith(t, status)

(* No connection, or it breaks: the HTTP client throws. *)
RequestFails(t) == /\ stage[t] = "await"
                   /\ Throw(t)
                   /\ UNCHANGED <<lockVars, boot, doc, msg, current>>

Leave(t) == /\ stage' = [stage EXCEPT ![t] = "none"]
            /\ msg' = [msg EXCEPT ![t] = Absent]
            /\ result' = [result EXCEPT ![t] = "none"]
            /\ current' = [current EXCEPT ![t] = {}]
            /\ UNCHANGED <<boot, doc>>

(* Mutant: unlock at the end of the try block instead of in finally. *)
UnlockIfAnswered(t) ==
  \/ result[t] # "exception" /\ Unlock(t)
  \/ /\ result[t] = "exception"
     /\ pc' = [pc EXCEPT ![t] = "idle"]
     /\ idx' = [idx EXCEPT ![t] = 0]
     /\ UNCHANGED <<live, open, owner>>

(* limitedLock.unlock(lock), whatever happened in the try block. *)
Release(t) == Unlock(t)

Finally(t) == /\ stage[t] = "finally"
              /\ Release(t)
              /\ Leave(t)

-----------------------------------------------------------------------------
(* POST /ping/message: updateFirst changes nothing when there is no        *)
(* document, and setSendMessage answers SUCCESS all the same.              *)
SetSendMessage(m) == /\ \E j \in Jvm : boot[j] = "ready"
                     /\ doc # Absent
                     /\ SetDoc(m)
                     /\ UNCHANGED <<lockVars, boot, stage, msg, result>>

(* External: the document is deleted by hand (the case that the code's     *)
(* second insert, in getSendMessage, is there for).                        *)
DropDoc == /\ doc # Absent
           /\ SetDoc(Absent)
           /\ UNCHANGED <<lockVars, boot, stage, msg, result>>

BootStep(j) == BootStart(j) \/ BootExists(j) \/ BootInsert(j) \/ BootDuplicate(j)

GetMessage(t) == FindOne(t) \/ InsertDefault(t) \/ InsertDuplicate(t) \/ MongoFails(t)

(* What a thread in send() does itself, and what it waits for. *)
OwnStep(t) == \/ Acquired(t) \/ NextChannel(t) \/ Limited(t)
              \/ SendRequest(t) \/ Finally(t)

Awaits == {"find", "insert", "await"}

InSend(t) == OwnStep(t) \/ GetMessage(t) \/ Answer(t) \/ RequestFails(t)

PingNext == \/ \E j \in Jvm : BootStep(j) \/ Kill(j) \/ Shutdown(j)
            \/ \E t \in Thread : Attempt(t) \/ InSend(t)
            \/ \E m \in Msg : SetSendMessage(m)
            \/ DropDoc

PingSpec == PingInit /\ [][PingNext]_pingVars

(* A thread in send() goes on where the operating system alone lets it.   *)
(* That MongoDB or pong answers, or its connection breaks, is not assumed: *)
(* neither the database's URI nor execute sets a timeout for an answer.    *)
SendFairness == \A t \in Thread : WF_pingVars(OwnStep(t))

(* A process that is not up is started again and goes through its boot,    *)
(* which MongoDB answers.                                                  *)
BootFairness == \A j \in Jvm : WF_pingVars(BootStep(j))

PingFairSpec == PingSpec /\ SendFairness /\ BootFairness

-----------------------------------------------------------------------------
(* Each variable has its type. *)
PingTypeOK == /\ LockTypeOK
              /\ boot \in [Jvm -> {"off", "check", "insert", "ready"}]
              /\ doc \in Msg \cup {Absent}
              /\ stage \in [Thread -> InTry \cup {"none"}]
              /\ msg \in [Thread -> Msg \cup {Absent}]
              /\ result \in [Thread -> {"none", "throttled", "responded", "exception"}]
              /\ current \in [Thread -> SUBSET Msg]

(* Requests of processes that are not being shut down which are on their   *)
(* way to pong or are being handled there.                                 *)
InFlight(d) == {t \in Thread : /\ stage[t] = "await"
                               /\ DirOf[JvmOf[t]] = d
                               /\ open[JvmOf[t]] = Index}

(* send: no more than Num requests are at pong at the same time, over all  *)
(* the processes that share a directory.                                   *)
RequestsBounded == \A d \in Dir : Cardinality(InFlight(d)) <= Num

(* send's finally block: a lock file is locked only on behalf of a thread  *)
(* that is in the try block, however the earlier attempts ended.           *)
SlotsReturned == ~IoFaults => \A f \in File :
  owner[f] # NoJvm =>
    \E t \in Thread : stage[t] \in InTry /\ Holds(t) /\ HeldFile(t) = f

(* getSendMessage: the message that is sent was the stored one at some     *)
(* moment of this attempt, though other processes insert and update it.    *)
MessageIsCurrent == \A t \in Thread :
  stage[t] \in {"request", "await"} => msg[t] \in current[t]

(* init and getSendMessage: inserting the default never replaces a message *)
(* that is there; only setSendMessage does, or the deletion by hand.       *)
ConfiguredMessageKept ==
  [][doc # Absent /\ doc' # doc =>
       DropDoc \/ \E m \in Msg : SetSendMessage(m)]_pingVars

(* send: the limiter is used as FileLimitedLock expects. *)
UsesLock == LockSpec

(* send: an attempt stays nowhere but in a wait for MongoDB or pong: when  *)
(* its waits end, with an answer or an exception, every attempt comes to   *)
(* its end, in whatever order the others move.                             *)
AttemptsFinish == \A t \in Thread :
  []<>(stage[t] \notin Awaits) => (pc[t] # "idle" ~> pc[t] = "idle")

(* MongoDBConfiguration.init: processes that race to insert the default    *)
(* may kill each other's start, but not for ever: once nobody deletes the  *)
(* document or stops processes any more, all of them come up.              *)
BootConverges ==
  (<>[][~DropDoc /\ \A j \in Jvm : ~Kill(j) \/ BootDuplicate(j)]_pingVars)
    => \A j \in Jvm : <>[](boot[j] = "ready")

=============================================================================
