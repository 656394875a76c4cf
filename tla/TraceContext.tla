---------------------------- MODULE TraceContext ----------------------------
(***************************************************************************)
(* The trace id's way from a thread of ping to a row of other.  Logback's  *)
(* MDC holds one id per thread; whoever starts work on a thread sets it,   *)
(* if at all, and threads are used again, so an id can stay on a thread    *)
(* longer than the work it was made for.                                   *)
(*                                                                         *)
(*   ping   TaskRunnable (cron thread), WebTraceFilter (event loops),      *)
(*          OpenFeignClientProxy, which puts the id into a header;         *)
(*   pong   WebTraceFilter and WebFluxTraceFilter, PongService, which puts *)
(*          the id into the message, MqInterceptor, which puts it into the *)
(*          message's headers;                                             *)
(*   other  ReceiveService, which saves it.                                *)
(*                                                                         *)
(* Delivery is composed with this: a Request is one call of ping or of     *)
(* another client of pong, and its thread in pong is busy until respond is *)
(* left.  Ids are numbered in the order in which they are made; that two   *)
(* calls of TraceIdUtil make different ones is assumed here.               *)
(***************************************************************************)
EXTENDS Delivery

CONSTANTS CronThread,  \* ping's scheduler threads
          LoopThread,  \* ping's event-loop threads
          PongThread,  \* pong's event-loop threads
          NoThread,
          MaxId        \* bound: ids that are made

PingThread == CronThread \cup LoopThread

Blank == 0

ASSUME TraceAssumption == /\ CronThread \cap LoopThread = {}
                          /\ PingThread \cap PongThread = {}
                          /\ NoThread \notin PingThread
                          /\ MaxId \in Nat

VARIABLES mdc,     \* [PingThread \cup PongThread -> Nat], the thread's id
          last,    \* the id that was made last
          run,     \* [PingThread -> ...], where the thread is
          caller,  \* [Request -> PingThread \cup {NoThread}]
          header,  \* [Request -> Nat], the request's TRACE_ID header
          serving, \* [PongThread -> Request \cup {NoRequest}]
          mqId,    \* [Request -> Nat], MqMessageDTO.id
          mqHead,  \* [Request -> Nat], the message's TRACE_ID header
          traceId, \* [Request -> SUBSET Nat], PongMessage.traceId of its rows
          logged,  \* history: [Request -> Nat], the id pong handled it under
          ended    \* history: ids of cron runs that returned

traceVars == <<mdc, last, run, caller, header, serving, mqId, mqHead, traceId, logged, ended>>
allVars == <<deliveryVars, traceVars>>

TraceInit == /\ DeliveryInit
             /\ mdc = [t \in PingThread \cup PongThread |-> Blank]
             /\ last = Blank
             /\ run = [t \in PingThread |-> "idle"]
             /\ caller = [r \in Request |-> NoThread]
             /\ header = [r \in Request |-> Blank]
             /\ serving = [p \in PongThread |-> NoRequest]
             /\ mqId = [r \in Request |-> Blank]
             /\ mqHead = [r \in Request |-> Blank]
             /\ traceId = [r \in Request |-> {}]
             /\ logged = [r \in Request |-> Blank]
             /\ ended = {}

-----------------------------------------------------------------------------
(* ping *)

(* TaskRunnable.run before the task, WebTraceFilter.filter: a thread that  *)
(* has no id gets a new one; one that has an id keeps it.                  *)
BeginRun(t) == /\ run[t] = "idle"
               /\ IF mdc[t] = Blank
                  THEN /\ last < MaxId
                       /\ last' = last + 1
                       /\ mdc' = [mdc EXCEPT ![t] = last + 1]
                  ELSE UNCHANGED <<last, mdc>>
               /\ run' = [run EXCEPT ![t] = "run"]
               /\ UNCHANGED <<deliveryVars, caller, header, serving, mqId, mqHead, traceId,
                              logged, ended>>

(* OpenFeignClientProxy.invoke: the request takes the thread's id along.   *)
(* The thread has one, whichever way it came here.                         *)
Invoke(t) ==
  \E r \in Request : /\ run[t] = "run"
                     /\ pong[r] = "none" /\ caller[r] = NoThread /\ logged[r] = Blank
                     /\ caller' = [caller EXCEPT ![r] = t]
                     /\ header' = [header EXCEPT ![r] = mdc[t]]
                     /\ run' = [run EXCEPT ![t] = "call"]
                     /\ UNCHANGED <<deliveryVars, mdc, last, serving, mqId, mqHead, traceId,
                                    logged, ended>>

(* Mutant: run() does not clear the MDC. *)
EndRunKeeps(t) == /\ run[t] \in {"run", "call"}
                  /\ ended' = IF t \in CronThread THEN ended \cup {mdc[t]} ELSE ended
                  /\ run' = [run EXCEPT ![t] = "idle"]
                  /\ UNCHANGED <<deliveryVars, mdc, last, caller, header, serving, mqId, mqHead,
                                 traceId, logged>>

(* The work returns, after a call, or without one when it was limited.     *)
(* TaskRunnable.run clears the MDC; an event loop keeps its id.            *)
EndRun(t) == /\ run[t] \in {"run", "call"}
             /\ IF t \in CronThread
                THEN /\ mdc' = [mdc EXCEPT ![t] = Blank]
                     /\ ended' = ended \cup {mdc[t]}
                ELSE UNCHANGED <<mdc, ended>>
             /\ run' = [run EXCEPT ![t] = "idle"]
             /\ UNCHANGED <<deliveryVars, last, caller, header, serving, mqId, mqHead, traceId,
                            logged>>

(* The work throws: the scheduler survives it, but MDC.clear is skipped. *)
RunThrows(t) == /\ run[t] \in {"run", "call"}
                /\ run' = [run EXCEPT ![t] = "idle"]
                /\ UNCHANGED <<deliveryVars, mdc, last, caller, header, serving, mqId, mqHead,
                               traceId, logged, ended>>

-----------------------------------------------------------------------------
(* pong *)

(* Mutant: WebFluxTraceFilter keeps an id that is there, as WebTraceFilter *)
(* does.                                                                   *)
FilteredKeeps(p, r) == IF mdc[p] # Blank THEN mdc[p]
                       ELSE IF header[r] # Blank THEN header[r] ELSE last + 1

(* WebFluxTraceFilter.filter: the header's id, or else a new one, replaces *)
(* what the thread has.                                                    *)
Filtered(p, r) == IF header[r] # Blank THEN header[r] ELSE last + 1

(* WebTraceFilter's id for a thread that has none is replaced at once.     *)
(* Ids that the two filters make are counted as one.                       *)
Made(p, r) == IF mdc[p] = Blank \/ header[r] = Blank THEN last + 1 ELSE last

(* A request reaches pong, from ping or from a client that sets no header. *)
Filter(p, r) == /\ serving[p] = NoRequest
                /\ pong[r] = "none" /\ logged[r] = Blank
                /\ Made(p, r) <= MaxId
                /\ mdc' = [mdc EXCEPT ![p] = Filtered(p, r)]
                /\ last' = Made(p, r)
                /\ logged' = [logged EXCEPT ![r] = mdc'[p]]
                /\ serving' = [serving EXCEPT ![p] = r]
                /\ UNCHANGED <<deliveryVars, run, caller, header, mqId, mqHead, traceId, ended>>

(* ThrottlingInterceptor answers 429: respond is not called. *)
Throttle(p) == /\ serving[p] # NoRequest
               /\ pong[serving[p]] = "none"
               /\ serving' = [serving EXCEPT ![p] = NoRequest]
               /\ UNCHANGED <<deliveryVars, mdc, last, run, caller, header, mqId, mqHead, traceId,
                              logged, ended>>

(* Mutant: the id is taken from the request instead of the thread. *)
MessageOfHeader(p) == /\ serving[p] # NoRequest
                      /\ Respond(serving[p])
                      /\ mqId' = [mqId EXCEPT ![serving[p]] = header[serving[p]]]
                      /\ UNCHANGED <<mdc, last, run, caller, header, serving, mqHead, traceId,
                                     logged, ended>>

(* PongService.message puts the thread's id into the message. *)
Message(p) == /\ serving[p] # NoRequest
              /\ Respond(serving[p])
              /\ mqId' = [mqId EXCEPT ![serving[p]] = mdc[p]]
              /\ UNCHANGED <<mdc, last, run, caller, header, serving, mqHead, traceId, logged,
                             ended>>

(* MqInterceptor.preSend: a message without a header gets the thread's id; *)
(* the thread takes over the id of one that has a header, which happens    *)
(* since the interceptor is registered twice.                              *)
PreSend(p) == /\ serving[p] # NoRequest
              /\ pong[serving[p]] = "send"
              /\ IF mqHead[serving[p]] = Blank
                 THEN /\ mqHead' = [mqHead EXCEPT ![serving[p]] = mdc[p]]
                      /\ UNCHANGED mdc
                 ELSE /\ mdc' = [mdc EXCEPT ![p] = mqHead[serving[p]]]
                      /\ UNCHANGED mqHead
              /\ UNCHANGED <<deliveryVars, last, run, caller, header, serving, mqId, traceId,
                             logged, ended>>

(* The broker gets a message only after it went through the interceptor. *)
Broker(r) == /\ mqHead[r] # Blank
             /\ Store(r)
             /\ UNCHANGED traceVars

(* respond is left and the thread is free for other requests. *)
Answers(p) == /\ serving[p] # NoRequest
              /\ \/ mqHead[serving[p]] # Blank /\ SendReturns(serving[p])
                 \/ SendThrows(serving[p])
                 \/ pong[serving[p]] = "answered" /\ UNCHANGED deliveryVars
              /\ serving' = [serving EXCEPT ![p] = NoRequest]
              /\ UNCHANGED <<mdc, last, run, caller, header, mqId, mqHead, traceId, logged, ended>>

-----------------------------------------------------------------------------
(* other: traceId(msg.getId()) *)

Saves(c) == /\ Save(c) \/ SaveFails(c)
            /\ traceId' = IF rows' = rows THEN traceId
                          ELSE [traceId EXCEPT ![taken[c]] = @ \cup {mqId[taken[c]]}]
            /\ UNCHANGED <<mdc, last, run, caller, header, serving, mqId, mqHead, logged, ended>>

OtherStep == /\ \/ \E c \in Consumer : (\E r \in Request : Take(c, r)) \/ Return(c)
                \/ Commit \/ CrashOther
             /\ UNCHANGED traceVars

PingStep(t) == BeginRun(t) \/ Invoke(t) \/ EndRun(t) \/ RunThrows(t)

PongStep(p) == \/ \E r \in Request : Filter(p, r)
               \/ Throttle(p) \/ Message(p) \/ PreSend(p) \/ Answers(p)

TraceNext == \/ \E t \in PingThread : PingStep(t)
             \/ \E p \in PongThread : PongStep(p)
             \/ \E r \in Request : Broker(r)
             \/ \E c \in Consumer : Saves(c)
             \/ OtherStep

TraceSpec == TraceInit /\ [][TraceNext]_allVars

-----------------------------------------------------------------------------
(* A row carries the id under which pong logged its request, and so does   *)
(* the message's header, though pong's threads take other requests before  *)
(* the row is saved.                                                       *)
RowsCarryPongId == \A r \in Request : /\ traceId[r] \subseteq {logged[r]}
                                      /\ mqHead[r] \in {Blank, logged[r]}

(* The row of a call of ping carries the id under which ping logged it:    *)
(* one id from the attempt to the row, over three services.                *)
EndToEnd == \A r \in Request : caller[r] # NoThread =>
  /\ header[r] # Blank
  /\ traceId[r] \subseteq {header[r]}

(* TaskRunnable.run: a cron run does not use the id of a run that returned. *)
CronRunsFresh == \A t \in CronThread : run[t] # "idle" => mdc[t] \notin ended

(* pong: two requests that carry no header are not logged under one id,    *)
(* though pong never clears the MDC of its threads.                        *)
PongIdsDistinct == \A r, s \in Request :
  r # s /\ header[r] = Blank /\ header[s] = Blank /\ logged[r] # Blank => logged[r] # logged[s]

=============================================================================
