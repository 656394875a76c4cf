------------------------------ MODULE PingPong ------------------------------
(***************************************************************************)
(* The system: ping processes with their limiter, MongoDB and cron jobs    *)
(* (PingService), and one pong process with its limiter                    *)
(* (ThrottlingInterceptor), on one clock.                                  *)
(*                                                                         *)
(* A request leaves in SendRequest, reaches pong's filter at any later     *)
(* moment, and is answered; it may fail before or after pong handled it.   *)
(* Whoever else calls pong, and requests whose process has died since they *)
(* were sent, are stray requests.                                          *)
(***************************************************************************)
EXTENDS PingService, ThrottlingInterceptor

CONSTANTS Cron,     \* the scheduler threads; the others serve GET /ping/send
          Stops,    \* bound of the model: FALSE: processes run for ever
          MaxSent   \* bound of the model: requests that leave

ASSUME SystemAssumption == /\ Cron \subseteq Thread
                           /\ Stops \in BOOLEAN
                           /\ MaxSent \in Nat

VARIABLES due,      \* [Thread -> BOOLEAN], the cron trigger has fired
          status,   \* [Thread -> Nat], what pong answered, 0 when it did not
          sent      \* history: when requests left

systemVars == <<pingVars, throttleVars, due, status, sent>>

SystemInit == /\ PingInit
              /\ ThrottleInit
              /\ due = [t \in Thread |-> FALSE]
              /\ status = [t \in Thread |-> 0]
              /\ sent = <<>>

(* The scheduler has one thread, and asks the trigger for the next second  *)
(* when a run is over: seconds that begin during a run are skipped.        *)
Fires(t) == /\ t \in Cron
            /\ boot[JvmOf[t]] = "ready"
            /\ pc[t] = "idle"

NewSecond == (now + 1) % Second = 0

Clock == /\ Tick
         /\ due' = [t \in Thread |-> due[t] \/ (NewSecond /\ Fires(t))]
         /\ UNCHANGED <<pingVars, status, sent>>

(* PingController.scheduled *)
Scheduled(t) == /\ due[t]
                /\ Attempt(t)
                /\ due' = [due EXCEPT ![t] = FALSE]
                /\ UNCHANGED <<throttleVars, status, sent>>

(* PingController.send *)
HttpSend(t) == /\ t \notin Cron
               /\ Attempt(t)
               /\ UNCHANGED <<throttleVars, due, status, sent>>

Leaves(t) == /\ Len(sent) < MaxSent
             /\ SendRequest(t)
             /\ sent' = Append(sent, now)
             /\ UNCHANGED <<throttleVars, due, status>>

(* pong: the filter lets the request through, and the handler answers or   *)
(* fails, or the filter answers 429.                                       *)
PongHandles(t) == /\ stage[t] = "await"
                  /\ status[t] = 0
                  /\ \/ /\ FilterPasses
                        /\ \E code \in {200, 500} :
                             status' = [status EXCEPT ![t] = code]
                     \/ /\ FilterRejects
                        /\ status' = [status EXCEPT ![t] = RATE_LIMITED]
                  /\ UNCHANGED <<pingVars, due, sent>>

Stray == /\ FilterPasses \/ FilterRejects
         /\ UNCHANGED <<pingVars, due, status, sent>>

PongRestarts == Stops /\ Restart /\ UNCHANGED <<pingVars, due, status, sent>>

(* The answer arrives. *)
Receives(t) == /\ status[t] # 0
               /\ AnswerWith(t, status[t])
               /\ UNCHANGED <<throttleVars, due, status, sent>>

Breaks(t) == /\ RequestFails(t)
             /\ UNCHANGED <<throttleVars, due, status, sent>>

Ends(t) == /\ Finally(t)
           /\ status' = [status EXCEPT ![t] = 0]
           /\ UNCHANGED <<throttleVars, due, sent>>

(* Steps of send() that neither pong nor the clock takes part in. *)
Local(t) == /\ Acquired(t) \/ NextChannel(t) \/ Limited(t) \/ GetMessage(t)
            /\ UNCHANGED <<throttleVars, due, status, sent>>

ProcessStep(j) == /\ BootStep(j) \/ (Stops /\ (Shutdown(j) \/ Kill(j)))
                  /\ LET dead == {t \in ThreadsOf(j) : ~live'[j]}
                     IN  /\ due' = [t \in Thread |-> due[t] /\ t \notin dead]
                         /\ status' = [t \in Thread |->
                                         IF t \in dead THEN 0 ELSE status[t]]
                  /\ UNCHANGED <<throttleVars, sent>>

DocStep == /\ (\E m \in Msg : SetSendMessage(m)) \/ DropDoc
           /\ UNCHANGED <<throttleVars, due, status, sent>>

SystemNext == \/ Clock
              \/ \E t \in Thread : \/ Scheduled(t) \/ HttpSend(t) \/ Local(t)
                                   \/ Leaves(t) \/ PongHandles(t)
                                   \/ Receives(t) \/ Breaks(t) \/ Ends(t)
              \/ Stray \/ PongRestarts
              \/ \E j \in Jvm : ProcessStep(j)
              \/ DocStep

SystemSpec == SystemInit /\ [][SystemNext]_systemVars

-----------------------------------------------------------------------------
(* PingService.send with pong's filter: an attempt is logged as throttled  *)
(* just when pong refused this very request, and no attempt is answered    *)
(* that pong did not see.                                                  *)
HonestResults ==
  \A t \in Thread : stage[t] = "finally" =>
    /\ result[t] = "throttled" <=> result[t] # "exception" /\ status[t] = RATE_LIMITED
    /\ result[t] = "responded" => status[t] \in {200, 500}

(* README: the processes send "with only 2 RPS" (config.num): no more than *)
(* Num requests leave in a second.                                         *)
SentPerSecond ==
  \A s \in 0 .. (MaxTime \div Second) :
    Len(SelectSeq(sent, LAMBDA p : p \div Second = s)) <= Num

=============================================================================
