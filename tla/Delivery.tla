------------------------------ MODULE Delivery ------------------------------
(***************************************************************************)
(* What pong and other do with a request: PongService.respond sends a      *)
(* message to the broker and answers; ReceiveService.onMessage saves the   *)
(* message as a row.  One message belongs to each Request, so a message is *)
(* named by its request.                                                   *)
(*                                                                         *)
(* The broker (external) stores what the producer sends, possibly more     *)
(* than once since the producer retries, and delivers a message until the  *)
(* consumer group has acknowledged it: when other's process ends, what was *)
(* taken and what was acknowledged since the last commit comes again.      *)
(***************************************************************************)
EXTENDS Integers, FiniteSets

CONSTANTS Request,        \* requests that pong handles
          Consumer,       \* the consumer threads of other
          NoRequest,      \* a consumer thread that has no message
          HasBridge,      \* TRUE: there is a StreamBridge bean
          MaxCopies,      \* bound: times a message is stored
          MaxCrashes,     \* bound: times other's process ends
          BrokerFaults,   \* TRUE: sending may fail or time out
          DbFaults        \* TRUE: saving may fail

ASSUME DeliveryAssumption == /\ NoRequest \notin Request
                             /\ IsFiniteSet(Consumer)
                             /\ HasBridge \in BOOLEAN
                             /\ MaxCopies \in Nat
                             /\ MaxCrashes \in Nat
                             /\ BrokerFaults \in BOOLEAN
                             /\ DbFaults \in BOOLEAN

VARIABLES pong,     \* [Request -> ...], where respond is
          queue,    \* [Request -> Nat], copies waiting in the topic
          acked,    \* [Request -> Nat], copies acknowledged, not committed
          taken,    \* [Consumer -> Request \cup {NoRequest}], msg
          at,       \* [Consumer -> ...], where onMessage is
          rows,     \* [Request -> Nat], rows in pong_message
          crashes,  \* how often other's process ended
          stored,   \* history: [Request -> Nat], copies that were stored
          again,    \* history: [Request -> Nat], copies that came again
          missed    \* history: requests with a failed save that was caught

pongVars == <<pong, queue, stored>>
otherVars == <<acked, taken, at, rows, crashes, again, missed>>
deliveryVars == <<pongVars, otherVars>>

DeliveryInit == /\ pong = [r \in Request |-> "none"]
                /\ queue = [r \in Request |-> 0]
                /\ acked = [r \in Request |-> 0]
                /\ taken = [c \in Consumer |-> NoRequest]
                /\ at = [c \in Consumer |-> "idle"]
                /\ rows = [r \in Request |-> 0]
                /\ crashes = 0
                /\ stored = [r \in Request |-> 0]
                /\ again = [r \in Request |-> 0]
                /\ missed = {}

-----------------------------------------------------------------------------
(* pong *)

(* respond, and message up to streamBridge.send: without a bridge there is *)
(* no message, and the answer is the same.                                 *)
Respond(r) == /\ pong[r] = "none"
              /\ pong' = [pong EXCEPT ![r] = IF HasBridge THEN "send" ELSE "answered"]
              /\ UNCHANGED <<queue, stored, otherVars>>

(* The broker stores a copy while pong waits in send, or after pong gave   *)
(* up waiting.                                                             *)
Store(r) == /\ HasBridge
            /\ \/ pong[r] = "send"
               \/ pong[r] = "failed" /\ BrokerFaults
            /\ stored[r] < MaxCopies
            /\ stored' = [stored EXCEPT ![r] = @ + 1]
            /\ queue' = [queue EXCEPT ![r] = @ + 1]
            /\ UNCHANGED <<pong, otherVars>>

(* send returned; flag is only logged, and FALSE is as good as TRUE. *)
SendReturns(r) == /\ pong[r] = "send"
                  /\ stored[r] > 0 \/ BrokerFaults
                  /\ pong' = [pong EXCEPT ![r] = "answered"]
                  /\ UNCHANGED <<queue, stored, otherVars>>

(* send throws: nothing in respond catches it, the request fails. *)
SendThrows(r) == /\ pong[r] = "send"
                 /\ BrokerFaults
                 /\ pong' = [pong EXCEPT ![r] = "failed"]
                 /\ UNCHANGED <<queue, stored, otherVars>>

-----------------------------------------------------------------------------
(* other *)

(* A consumer thread gets a message: onMessage begins. *)
Take(c, r) == /\ at[c] = "idle"
              /\ queue[r] > 0
              /\ queue' = [queue EXCEPT ![r] = @ - 1]
              /\ taken' = [taken EXCEPT ![c] = r]
              /\ at' = [at EXCEPT ![c] = "save"]
              /\ UNCHANGED <<pong, stored, acked, rows, crashes, again, missed>>

(* Mutant: after a save the loop goes round once more. *)
SaveTwice(c) == /\ at[c] = "save"
                /\ rows' = [rows EXCEPT ![taken[c]] = @ + 2]
                /\ at' = [at EXCEPT ![c] = "return"]
                /\ UNCHANGED <<pongVars, acked, taken, crashes, again, missed>>

(* Mutant: onMessage only remembers the row and saves it some time later. *)
SaveLater(c) == /\ at[c] = "save"
                /\ at' = [at EXCEPT ![c] = "return"]
                /\ UNCHANGED <<pongVars, acked, taken, rows, crashes, again, missed>>

(* messageRepository.save: a new row each time, the id is generated. *)
Save(c) == /\ at[c] = "save"
           /\ rows' = [rows EXCEPT ![taken[c]] = @ + 1]
           /\ at' = [at EXCEPT ![c] = "return"]
           /\ UNCHANGED <<pongVars, acked, taken, crashes, again, missed>>

(* Mutant: the save is tried until it works. *)
SaveRetried(c) == /\ DbFaults
                  /\ at[c] = "save"
                  /\ at' = [at EXCEPT ![c] = "retry"]
                  /\ UNCHANGED <<pongVars, acked, taken, rows, crashes, again, missed>>

(* save throws, with the row written or not; onMessage catches it and      *)
(* returns as if it had been saved.                                        *)
SaveFails(c) == /\ DbFaults
                /\ at[c] = "save"
                /\ \/ UNCHANGED rows
                   \/ rows' = [rows EXCEPT ![taken[c]] = @ + 1]
                /\ missed' = missed \cup {taken[c]}
                /\ at' = [at EXCEPT ![c] = "return"]
                /\ UNCHANGED <<pongVars, acked, taken, crashes, again>>

(* onMessage returned: the container acknowledges the message. *)
Return(c) == /\ at[c] = "return"
             /\ acked' = [acked EXCEPT ![taken[c]] = @ + 1]
             /\ taken' = [taken EXCEPT ![c] = NoRequest]
             /\ at' = [at EXCEPT ![c] = "idle"]
             /\ UNCHANGED <<pongVars, rows, crashes, again, missed>>

(* The consumer group's progress is saved at the broker. *)
Commit == /\ acked' = [r \in Request |-> 0]
          /\ UNCHANGED <<pongVars, taken, at, rows, crashes, again, missed>>

InHand(r) == Cardinality({c \in Consumer : taken[c] = r})

(* The process of other ends and starts again. *)
CrashOther == /\ crashes < MaxCrashes
              /\ crashes' = crashes + 1
              /\ queue' = [r \in Request |-> queue[r] + acked[r] + InHand(r)]
              /\ again' = [r \in Request |-> again[r] + acked[r] + InHand(r)]
              /\ acked' = [r \in Request |-> 0]
              /\ taken' = [c \in Consumer |-> NoRequest]
              /\ at' = [c \in Consumer |-> "idle"]
              /\ UNCHANGED <<pong, stored, rows, missed>>

Pong(r) == Respond(r) \/ Store(r) \/ SendReturns(r) \/ SendThrows(r)

OnMessage(c) == \/ \E r \in Request : Take(c, r)
                \/ Save(c) \/ SaveFails(c) \/ Return(c)

DeliveryNext == \/ \E r \in Request : Pong(r)
                \/ \E c \in Consumer : OnMessage(c)
                \/ Commit \/ CrashOther

DeliverySpec == DeliveryInit /\ [][DeliveryNext]_deliveryVars

(* The broker delivers what it has, and other's threads run. *)
DeliveryFairSpec == DeliverySpec /\ \A c \in Consumer : WF_deliveryVars(OnMessage(c))

-----------------------------------------------------------------------------
(* Each variable has its type, and a consumer in onMessage has a message. *)
DeliveryTypeOK ==
  /\ pong \in [Request -> {"none", "send", "answered", "failed"}]
  /\ queue \in [Request -> Nat]
  /\ acked \in [Request -> Nat]
  /\ taken \in [Consumer -> Request \cup {NoRequest}]
  /\ at \in [Consumer -> {"idle", "save", "return"}]
  /\ rows \in [Request -> Nat]
  /\ crashes \in Nat
  /\ stored \in [Request -> Nat]
  /\ again \in [Request -> Nat]
  /\ missed \subseteq Request
  /\ \A c \in Consumer : taken[c] = NoRequest <=> at[c] = "idle"

(* onMessage: duplicates come from the broker only.  There are never more  *)
(* rows of a request than its message was stored and came again, however   *)
(* saves fail.                                                             *)
RowsBounded == \A r \in Request : rows[r] <= stored[r] + again[r]

(* A copy of the message that is still to be saved. *)
Pending(r) == queue[r] > 0 \/ \E c \in Consumer : taken[c] = r /\ at[c] = "save"

(* onMessage: a message that was stored has a row, or will be tried again, *)
(* or its save failed and was caught; a crash of other loses none.         *)
NoneLost == \A r \in Request :
  stored[r] > 0 => rows[r] > 0 \/ r \in missed \/ Pending(r)

(* onMessage: every stored message is recorded, or its save failed. *)
Recorded == \A r \in Request : stored[r] > 0 ~> rows[r] > 0 \/ r \in missed

=============================================================================
