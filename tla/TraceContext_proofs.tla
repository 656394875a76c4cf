------------------------ MODULE TraceContext_proofs ------------------------
(***************************************************************************)
(* Delivery for any requests, consumer threads, faults and bounds: types,  *)
(* that no message is lost between the broker and the table unless its     *)
(* save failed, and where duplicate rows come from.  This part uses        *)
(* nothing of TraceContext.                                                *)
(*                                                                         *)
(* TraceContext for any threads, requests and consumers: it implements     *)
(* Delivery, one trace id follows a request from ping's attempt to the     *)
(* row, and ids are not used again where the code means to make new ones.  *)
(***************************************************************************)
EXTENDS TraceContext, FiniteSetTheorems, TLAPS

-----------------------------------------------------------------------------
(* Delivery *)

(* A thread that is about to acknowledge has dealt with its message. *)
Dealt == \A c \in Consumer :
  at[c] = "return" => rows[taken[c]] > 0 \/ taken[c] \in missed

DeliveryIInv == DeliveryTypeOK /\ NoneLost /\ Dealt

(* The number of threads that have a request's message. *)
LEMMA InHandIsNat ==
  ASSUME NEW r \in Request
  PROVE  InHand(r) \in Nat /\ \A c \in Consumer : taken[c] = r => InHand(r) > 0
<1> DEFINE C == {c \in Consumer : taken[c] = r}
<1>1. IsFiniteSet(C) /\ Cardinality(C) \in Nat
  BY DeliveryAssumption, FS_Subset, FS_CardinalityType
<1>2. Cardinality(C) = 0 <=> C = {}
  BY <1>1, FS_EmptySet
<1> QED
  BY <1>1, <1>2 DEF InHand

(* Nothing is stored at the start. *)
LEMMA DeliveryInitIInv == DeliveryInit => DeliveryIInv
BY DeliveryAssumption DEF DeliveryInit, DeliveryIInv, DeliveryTypeOK, NoneLost, Dealt

(* pong only adds copies, and they wait in the topic. *)
LEMMA PongKeeps ==
  ASSUME DeliveryIInv, NEW r \in Request, Pong(r)
  PROVE  DeliveryIInv'
<1> USE DEF DeliveryIInv, DeliveryTypeOK, otherVars
<1>1. CASE Respond(r)
  BY <1>1 DEF Respond, NoneLost, Dealt, Pending
<1>2. CASE Store(r)
  <2>1. /\ stored' = [stored EXCEPT ![r] = @ + 1]
        /\ queue' = [queue EXCEPT ![r] = @ + 1]
        /\ UNCHANGED <<pong, otherVars>>
    BY <1>2 DEF Store
  <2>2. queue'[r] > 0 /\ \A s \in Request \ {r} : queue'[s] = queue[s] /\ stored'[s] = stored[s]
    BY <2>1
  <2>3. NoneLost'
    BY <2>1, <2>2 DEF NoneLost, Pending
  <2> QED
    BY <2>1, <2>3 DEF Dealt
<1>3. CASE SendReturns(r)
  BY <1>3 DEF SendReturns, NoneLost, Dealt, Pending
<1>4. CASE SendThrows(r)
  BY <1>4 DEF SendThrows, NoneLost, Dealt, Pending
<1> QED
  BY <1>1, <1>2, <1>3, <1>4 DEF Pong

(* onMessage: a copy leaves the topic into a thread's hands, and leaves    *)
(* them only once it has a row or a failed save.                           *)
LEMMA OnMessageKeeps ==
  ASSUME DeliveryIInv, NEW c \in Consumer, OnMessage(c)
  PROVE  DeliveryIInv'
<1> USE DeliveryAssumption DEF DeliveryIInv, DeliveryTypeOK, pongVars
<1>1. CASE \E r \in Request : Take(c, r)
  <2> PICK r \in Request : Take(c, r)
    BY <1>1
  <2>1. /\ queue' = [queue EXCEPT ![r] = @ - 1] /\ queue[r] > 0
        /\ taken' = [taken EXCEPT ![c] = r] /\ at' = [at EXCEPT ![c] = "save"]
        /\ at[c] = "idle"
        /\ UNCHANGED <<pong, stored, acked, rows, crashes, again, missed>>
    BY DEF Take
  <2>2. DeliveryTypeOK'
    BY <2>1
  <2>3. Pending(r)'
    BY <2>1 DEF Pending
  <2>4. ASSUME NEW s \in Request, s # r, Pending(s) PROVE Pending(s)'
    BY <2>1, <2>4 DEF Pending
  <2>5. NoneLost'
    BY <2>1, <2>3, <2>4 DEF NoneLost
  <2> QED
    BY <2>1, <2>2, <2>5 DEF Dealt
<1>2. CASE Save(c)
  <2>1. /\ at[c] = "save" /\ taken[c] \in Request
        /\ rows' = [rows EXCEPT ![taken[c]] = @ + 1]
        /\ at' = [at EXCEPT ![c] = "return"]
        /\ UNCHANGED <<pongVars, acked, taken, crashes, again, missed>>
    BY <1>2 DEF Save
  <2>2. DeliveryTypeOK'
    BY <2>1
  <2>3. rows'[taken[c]] > 0 /\ \A s \in Request : rows[s] > 0 => rows'[s] > 0
    BY <2>1
  <2>4. ASSUME NEW s \in Request, s # taken[c], Pending(s) PROVE Pending(s)'
    BY <2>1, <2>4 DEF Pending
  <2> QED
    BY <2>1, <2>2, <2>3, <2>4 DEF NoneLost, Dealt
<1>3. CASE SaveFails(c)
  <2>1. /\ at[c] = "save" /\ taken[c] \in Request
        /\ missed' = missed \cup {taken[c]}
        /\ at' = [at EXCEPT ![c] = "return"]
        /\ UNCHANGED <<pongVars, acked, taken, crashes, again>>
    BY <1>3 DEF SaveFails
  <2>2. rows' \in [Request -> Nat] /\ \A s \in Request : rows[s] > 0 => rows'[s] > 0
    BY <1>3, <2>1 DEF SaveFails
  <2>3. DeliveryTypeOK'
    BY <2>1, <2>2
  <2>4. ASSUME NEW s \in Request, s # taken[c], Pending(s) PROVE Pending(s)'
    BY <2>1, <2>4 DEF Pending
  <2> QED
    BY <2>1, <2>2, <2>3, <2>4 DEF NoneLost, Dealt
<1>4. CASE Return(c)
  <2>1. /\ at[c] = "return" /\ taken[c] \in Request
        /\ acked' = [acked EXCEPT ![taken[c]] = @ + 1]
        /\ taken' = [taken EXCEPT ![c] = NoRequest]
        /\ at' = [at EXCEPT ![c] = "idle"]
        /\ UNCHANGED <<pongVars, rows, crashes, again, missed>>
    BY <1>4 DEF Return
  <2>2. DeliveryTypeOK'
    BY <2>1
  <2>3. ASSUME NEW s \in Request, Pending(s) PROVE Pending(s)'
    BY <2>1, <2>3 DEF Pending
  <2> QED
    BY <2>1, <2>2, <2>3 DEF NoneLost, Dealt
<1> QED
  BY <1>1, <1>2, <1>3, <1>4 DEF OnMessage

(* When other's process ends, what its threads had waits in the topic. *)
LEMMA CrashKeeps ==
  ASSUME DeliveryIInv, CrashOther
  PROVE  DeliveryIInv'
<1> USE DEF DeliveryIInv, DeliveryTypeOK
<1>1. /\ queue' = [r \in Request |-> queue[r] + acked[r] + InHand(r)]
      /\ again' = [r \in Request |-> again[r] + acked[r] + InHand(r)]
      /\ acked' = [r \in Request |-> 0]
      /\ taken' = [c \in Consumer |-> NoRequest]
      /\ at' = [c \in Consumer |-> "idle"]
      /\ crashes' = crashes + 1
      /\ UNCHANGED <<pong, stored, rows, missed>>
  BY DEF CrashOther
<1>2. DeliveryTypeOK'
  BY <1>1, InHandIsNat
<1>3. ASSUME NEW r \in Request, Pending(r) PROVE Pending(r)'
  <2>1. queue'[r] = queue[r] + acked[r] + InHand(r)
    BY <1>1
  <2>2. queue[r] \in Nat /\ acked[r] \in Nat /\ InHand(r) \in Nat
    BY InHandIsNat
  <2>3. queue[r] > 0 \/ InHand(r) > 0
    BY <1>3, InHandIsNat DEF Pending
  <2> QED
    BY <2>1, <2>2, <2>3 DEF Pending
<1> QED
  BY <1>1, <1>2, <1>3 DEF NoneLost, Dealt

(* Every step of Delivery keeps the invariant. *)
LEMMA DeliveryStepKeeps ==
  ASSUME DeliveryIInv, [DeliveryNext]_deliveryVars
  PROVE  DeliveryIInv'
<1>1. CASE \E r \in Request : Pong(r)
  BY <1>1, PongKeeps
<1>2. CASE \E c \in Consumer : OnMessage(c)
  BY <1>2, OnMessageKeeps
<1>3. CASE Commit
  BY <1>3 DEF Commit, DeliveryIInv, DeliveryTypeOK, NoneLost, Dealt, Pending, pongVars
<1>4. CASE CrashOther
  BY <1>4, CrashKeeps
<1>5. CASE UNCHANGED deliveryVars
  BY <1>5 DEF deliveryVars, pongVars, otherVars, DeliveryIInv, DeliveryTypeOK, NoneLost,
              Dealt, Pending
<1> QED
  BY <1>1, <1>2, <1>3, <1>4, <1>5 DEF DeliveryNext

(* The invariant of the proof: it is inductive, which NoneLost alone is    *)
(* not, since a message that is acknowledged must have been dealt with.    *)
THEOREM DeliveryInvariant == DeliverySpec => []DeliveryIInv
<1>1. DeliveryIInv /\ [DeliveryNext]_deliveryVars => DeliveryIInv'
  BY DeliveryStepKeeps
<1> QED
  BY DeliveryInitIInv, <1>1, PTL DEF DeliverySpec

(* onMessage: a message that was stored has a row, or will be tried again, *)
(* or its save failed and was caught.                                      *)
THEOREM NoMessageLost == DeliverySpec => []NoneLost
<1>1. DeliveryIInv => NoneLost
  BY DEF DeliveryIInv
<1> QED
  BY DeliveryInvariant, <1>1, PTL

-----------------------------------------------------------------------------
(* The threads that have a request's message and did not save it yet. *)
Saving(r) == {c \in Consumer : taken[c] = r /\ at[c] = "save"}

(* Each copy that the broker stored or delivered again makes one row: it   *)
(* has made it, or it waits in the topic or in the hands of a thread.      *)
CopiesCounted == \A r \in Request :
  rows[r] + queue[r] + Cardinality(Saving(r)) <= stored[r] + again[r]

(* The threads that save are among those that have the message. *)
LEMMA SavingCounted ==
  ASSUME NEW r \in Request
  PROVE  /\ IsFiniteSet(Saving(r)) /\ Cardinality(Saving(r)) \in Nat
         /\ Cardinality(Saving(r)) <= InHand(r)
<1> DEFINE H == {c \in Consumer : taken[c] = r}
<1>1. IsFiniteSet(H) /\ Saving(r) \subseteq H
  BY DeliveryAssumption, FS_Subset DEF Saving
<1> QED
  BY <1>1, FS_Subset, FS_CardinalityType DEF InHand

(* Steps of pong add to both sides. *)
LEMMA PongCounts ==
  ASSUME DeliveryIInv, CopiesCounted, NEW s \in Request, Pong(s)
  PROVE  CopiesCounted'
<1> SUFFICES ASSUME NEW r \in Request
             PROVE  rows'[r] + queue'[r] + Cardinality(Saving(r)')
                      <= stored'[r] + again'[r]
  BY DEF CopiesCounted
<1>1. Saving(r)' = Saving(r) /\ UNCHANGED <<rows, again>>
  BY DEF Pong, Respond, Store, SendReturns, SendThrows, otherVars, Saving
<1>2. \/ UNCHANGED <<queue, stored>>
      \/ /\ queue' = [queue EXCEPT ![s] = @ + 1]
         /\ stored' = [stored EXCEPT ![s] = @ + 1]
  BY DEF Pong, Respond, Store, SendReturns, SendThrows
<1>3. rows[r] + queue[r] + Cardinality(Saving(r)) <= stored[r] + again[r]
  BY DEF CopiesCounted
<1>4. rows[r] \in Nat /\ queue[r] \in Nat /\ stored[r] \in Nat /\ again[r] \in Nat
  BY DEF DeliveryIInv, DeliveryTypeOK
<1>5. Cardinality(Saving(r)) \in Nat
  BY SavingCounted
<1>6. CASE UNCHANGED <<queue, stored>>
  BY <1>1, <1>3, <1>6
<1>7. CASE /\ queue' = [queue EXCEPT ![s] = @ + 1]
           /\ stored' = [stored EXCEPT ![s] = @ + 1]
  <2>1. queue \in [Request -> Nat] /\ stored \in [Request -> Nat]
    BY DEF DeliveryIInv, DeliveryTypeOK
  <2>2. CASE r = s
    <3>1. queue'[r] = queue[r] + 1 /\ stored'[r] = stored[r] + 1
      BY <1>7, <2>1, <2>2
    <3> QED
      BY <1>1, <1>3, <1>4, <1>5, <3>1
  <2>3. CASE r # s
    <3>1. queue'[r] = queue[r] /\ stored'[r] = stored[r]
      BY <1>7, <2>1, <2>3
    <3> QED
      BY <1>1, <1>3, <3>1
  <2> QED
    BY <2>2, <2>3
<1> QED
  BY <1>2, <1>6, <1>7

(* A copy goes from the topic to a thread, and from there into one row at  *)
(* most.                                                                   *)
LEMMA OnMessageCounts ==
  ASSUME DeliveryIInv, CopiesCounted, NEW c \in Consumer, OnMessage(c)
  PROVE  CopiesCounted'
<1> SUFFICES ASSUME NEW r \in Request
             PROVE  rows'[r] + queue'[r] + Cardinality(Saving(r)')
                      <= stored'[r] + again'[r]
  BY DEF CopiesCounted
<1> USE DEF DeliveryIInv, DeliveryTypeOK, pongVars
<1>1. rows[r] + queue[r] + Cardinality(Saving(r)) <= stored[r] + again[r]
  BY DEF CopiesCounted
<1>2. rows[r] \in Nat /\ queue[r] \in Nat /\ stored[r] \in Nat /\ again[r] \in Nat
  OBVIOUS
<1>3. IsFiniteSet(Saving(r)) /\ Cardinality(Saving(r)) \in Nat
  BY SavingCounted
<1>4. CASE \E s \in Request : Take(c, s)
  <2> PICK s \in Request : Take(c, s)
    BY <1>4
  <2>1. /\ queue' = [queue EXCEPT ![s] = @ - 1] /\ queue[s] > 0
        /\ taken' = [taken EXCEPT ![c] = s] /\ at' = [at EXCEPT ![c] = "save"]
        /\ at[c] = "idle"
        /\ UNCHANGED <<pong, stored, acked, rows, crashes, again, missed>>
    BY DEF Take
  <2>2. CASE r = s
    <3>1. Saving(r)' = Saving(r) \cup {c} /\ c \notin Saving(r)
      BY <2>1, <2>2 DEF Saving
    <3>2. Cardinality(Saving(r)') = Cardinality(Saving(r)) + 1
      BY <1>3, <3>1, FS_AddElement
    <3>3. queue'[r] = queue[r] - 1
      BY <2>1, <2>2
    <3> QED
      BY <1>1, <1>2, <1>3, <2>1, <3>2, <3>3
  <2>3. CASE r # s
    <3>1. Saving(r)' = Saving(r) /\ queue'[r] = queue[r]
      BY <2>1, <2>3 DEF Saving
    <3> QED
      BY <1>1, <2>1, <3>1
  <2> QED
    BY <2>2, <2>3
<1>5. CASE Save(c) \/ SaveFails(c)
  <2>1. /\ at[c] = "save" /\ taken[c] \in Request
        /\ rows' \in {rows, [rows EXCEPT ![taken[c]] = @ + 1]}
        /\ at' = [at EXCEPT ![c] = "return"]
        /\ UNCHANGED <<queue, stored, taken, again>>
    BY <1>5 DEF Save, SaveFails
  <2>2. CASE r = taken[c]
    <3>1. Saving(r)' = Saving(r) \ {c} /\ c \in Saving(r)
      BY <2>1, <2>2 DEF Saving
    <3>2. Cardinality(Saving(r)') = Cardinality(Saving(r)) - 1
      BY <1>3, <3>1, FS_RemoveElement
    <3>3. rows'[r] \in {rows[r], rows[r] + 1}
      BY <2>1, <2>2
    <3> QED
      BY <1>1, <1>2, <1>3, <2>1, <3>2, <3>3
  <2>3. CASE r # taken[c]
    <3>1. Saving(r)' = Saving(r) /\ rows'[r] = rows[r]
      BY <2>1, <2>3 DEF Saving
    <3> QED
      BY <1>1, <2>1, <3>1
  <2> QED
    BY <2>2, <2>3
<1>6. CASE Return(c)
  <2>1. Saving(r)' = Saving(r) /\ UNCHANGED <<rows, queue, stored, again>>
    BY <1>6 DEF Return, Saving
  <2> QED
    BY <1>1, <2>1
<1> QED
  BY <1>4, <1>5, <1>6 DEF OnMessage

(* What comes again after a crash is counted as such. *)
LEMMA CrashCounts ==
  ASSUME DeliveryIInv, CopiesCounted, CrashOther
  PROVE  CopiesCounted'
<1> SUFFICES ASSUME NEW r \in Request
             PROVE  rows'[r] + queue'[r] + Cardinality(Saving(r)')
                      <= stored'[r] + again'[r]
  BY DEF CopiesCounted
<1>1. /\ queue'[r] = queue[r] + acked[r] + InHand(r)
      /\ again'[r] = again[r] + acked[r] + InHand(r)
      /\ UNCHANGED <<rows, stored>>
  BY DEF CrashOther
<1>2. /\ rows[r] \in Nat /\ queue[r] \in Nat /\ stored[r] \in Nat
      /\ again[r] \in Nat /\ acked[r] \in Nat
  BY DEF DeliveryIInv, DeliveryTypeOK
<1>3. Cardinality(Saving(r)) \in Nat /\ InHand(r) \in Nat
  BY SavingCounted, InHandIsNat
<1>4. Cardinality(Saving(r)') = 0
  <2>1. Saving(r)' = {}
    BY DEF CrashOther, Saving
  <2> QED
    BY <2>1, FS_EmptySet
<1>5. rows[r] + queue[r] + Cardinality(Saving(r)) <= stored[r] + again[r]
  BY DEF CopiesCounted
<1> QED
  BY <1>1, <1>2, <1>3, <1>4, <1>5

(* Every step keeps count of the copies. *)
LEMMA CopiesCountedKept ==
  ASSUME DeliveryIInv, CopiesCounted, [DeliveryNext]_deliveryVars
  PROVE  CopiesCounted'
<1>1. CASE \E r \in Request : Pong(r)
  BY <1>1, PongCounts
<1>2. CASE \E c \in Consumer : OnMessage(c)
  BY <1>2, OnMessageCounts
<1>3. CASE CrashOther
  BY <1>3, CrashCounts
<1>4. CASE Commit \/ UNCHANGED deliveryVars
  <2>1. /\ UNCHANGED <<rows, queue, stored, again>>
        /\ \A r \in Request : Saving(r)' = Saving(r)
    BY <1>4 DEF Commit, deliveryVars, pongVars, otherVars, Saving
  <2> QED
    BY <2>1 DEF CopiesCounted
<1> QED
  BY <1>1, <1>2, <1>3, <1>4 DEF DeliveryNext

(* onMessage: however saves fail and other's process ends, a row comes     *)
(* from a copy that the broker stored or delivered again, and each copy    *)
(* makes one at most: other duplicates nothing by itself.                  *)
THEOREM DuplicatesFromBroker == DeliverySpec => []RowsBounded
<1>1. DeliveryInit => CopiesCounted
  <2> SUFFICES ASSUME DeliveryInit, NEW r \in Request
               PROVE  rows[r] + queue[r] + Cardinality(Saving(r)) <= stored[r] + again[r]
    BY DEF CopiesCounted
  <2>1. Saving(r) = {}
    BY DEF DeliveryInit, Saving
  <2>2. Cardinality(Saving(r)) = 0
    BY <2>1, FS_EmptySet
  <2> QED
    BY <2>2 DEF DeliveryInit
<1>2. DeliveryIInv /\ CopiesCounted /\ [DeliveryNext]_deliveryVars => CopiesCounted'
  BY CopiesCountedKept
<1>3. DeliveryIInv /\ CopiesCounted => RowsBounded
  <2> SUFFICES ASSUME DeliveryIInv, CopiesCounted, NEW r \in Request
               PROVE  rows[r] <= stored[r] + again[r]
    BY DEF RowsBounded
  <2>1. rows[r] + queue[r] + Cardinality(Saving(r)) <= stored[r] + again[r]
    BY DEF CopiesCounted
  <2>2. rows[r] \in Nat /\ queue[r] \in Nat /\ stored[r] \in Nat /\ again[r] \in Nat
    BY DEF DeliveryIInv, DeliveryTypeOK
  <2> QED
    BY <2>1, <2>2, SavingCounted
<1> QED
  BY <1>1, <1>2, <1>3, DeliveryInvariant, PTL DEF DeliverySpec

-----------------------------------------------------------------------------
(* TraceContext *)

TraceTypes ==
  /\ mdc \in [PingThread \cup PongThread -> Nat]
  /\ last \in Nat
  /\ run \in [PingThread -> {"idle", "run", "call"}]
  /\ caller \in [Request -> PingThread \cup {NoThread}]
  /\ header \in [Request -> Nat]
  /\ serving \in [PongThread -> Request \cup {NoRequest}]
  /\ mqId \in [Request -> Nat]
  /\ mqHead \in [Request -> Nat]
  /\ traceId \in [Request -> SUBSET Nat]
  /\ logged \in [Request -> Nat]
  /\ ended \subseteq Nat

Working == \A t \in PingThread : run[t] # "idle" => mdc[t] # Blank

(* Nothing of a request that respond has not begun is anywhere. *)
Unsent == \A r \in Request : pong[r] = "none" =>
  /\ queue[r] = 0 /\ acked[r] = 0
  /\ \A c \in Consumer : taken[c] # r
  /\ traceId[r] = {} /\ mqHead[r] = Blank

(* The message of one that it has begun has the id pong logged it under. *)
Sent == \A r \in Request : pong[r] # "none" => logged[r] # Blank /\ mqId[r] = logged[r]

(* A thread of pong keeps the id of the request that it serves. *)
Served == \A p \in PongThread : serving[p] # NoRequest =>
  mdc[p] = logged[serving[p]] /\ mdc[p] # Blank

(* A call of ping is logged in pong under the id of its header. *)
Called == \A r \in Request : caller[r] # NoThread =>
  header[r] # Blank /\ logged[r] \in {Blank, header[r]}

WayIInv == /\ TraceTypes /\ Working
           /\ Unsent /\ Sent /\ Served /\ RowsCarryPongId /\ Called

-----------------------------------------------------------------------------
(* What a step of the composition is for Delivery: one of its steps. *)
LEMMA StepOfDelivery ==
  ASSUME TraceTypes, [TraceNext]_allVars
  PROVE  [DeliveryNext]_deliveryVars
<1>1. CASE \E t \in PingThread : PingStep(t)
  BY <1>1 DEF PingStep, BeginRun, Invoke, EndRun, RunThrows
<1>2. CASE \E p \in PongThread : PongStep(p)
  <2> PICK p \in PongThread : PongStep(p)
    BY <1>2
  <2>1. CASE \E r \in Request : Filter(p, r)
    BY <2>1 DEF Filter
  <2>2. CASE Throttle(p) \/ PreSend(p)
    BY <2>2 DEF Throttle, PreSend
  <2>3. CASE Message(p) \/ Answers(p)
    <3>1. serving[p] \in Request
      BY <2>3 DEF Message, Answers, TraceTypes
    <3> QED
      BY <2>3, <3>1 DEF Message, Answers, DeliveryNext, Pong
  <2> QED
    BY <2>1, <2>2, <2>3 DEF PongStep
<1>3. CASE \E r \in Request : Broker(r)
  BY <1>3 DEF Broker, DeliveryNext, Pong
<1>4. CASE \E c \in Consumer : Saves(c)
  BY <1>4 DEF Saves, DeliveryNext, OnMessage
<1>5. CASE OtherStep
  BY <1>5 DEF OtherStep, DeliveryNext, OnMessage
<1>6. CASE UNCHANGED allVars
  BY <1>6 DEF allVars
<1> QED
  BY <1>1, <1>2, <1>3, <1>4, <1>5, <1>6 DEF TraceNext

(* The threads of ping: each keeps its id while it works. *)
LEMMA PingKeeps ==
  ASSUME WayIInv, DeliveryTypeOK, NEW t \in PingThread, PingStep(t)
  PROVE  WayIInv'
<1> USE TraceAssumption DEF WayIInv, Blank
<1>0. UNCHANGED deliveryVars /\ UNCHANGED <<serving, mqId, mqHead, traceId, logged>>
  BY DEF PingStep, BeginRun, Invoke, EndRun, RunThrows
<1>1. /\ mdc' \in [PingThread \cup PongThread -> Nat]
      /\ \A p \in PongThread : mdc'[p] = mdc[p]
  BY DEF PingStep, BeginRun, Invoke, EndRun, RunThrows, TraceTypes
<1>2. TraceTypes'
  <2>1. last' \in Nat /\ ended' \subseteq Nat
    <3>1. mdc[t] \in Nat /\ last \in Nat /\ ended \subseteq Nat
      BY DEF TraceTypes
    <3>2. last' \in {last, last + 1} /\ ended' \in {ended, ended \cup {mdc[t]}}
      BY DEF PingStep, BeginRun, Invoke, EndRun, RunThrows
    <3> QED
      BY <3>1, <3>2
  <2>2. run' \in [PingThread -> {"idle", "run", "call"}]
    BY DEF PingStep, BeginRun, Invoke, EndRun, RunThrows, TraceTypes
  <2>3. /\ caller' \in [Request -> PingThread \cup {NoThread}]
        /\ header' \in [Request -> Nat]
    BY DEF PingStep, BeginRun, Invoke, EndRun, RunThrows, TraceTypes
  <2> QED
    BY <1>0, <1>1, <2>1, <2>2, <2>3 DEF TraceTypes
<1>3. Working'
  BY DEF PingStep, BeginRun, Invoke, EndRun, RunThrows, TraceTypes, Working
<1>4. Unsent' /\ Sent'
  BY <1>0 DEF deliveryVars, pongVars, otherVars, Unsent, Sent
<1>5. Served' /\ RowsCarryPongId'
  BY <1>0, <1>1 DEF Served, RowsCarryPongId
<1>6. Called'
  <2>1. CASE Invoke(t)
    BY <1>0, <2>1 DEF Invoke, Called, Working, TraceTypes
  <2>2. CASE UNCHANGED <<caller, header>>
    BY <1>0, <2>2 DEF Called
  <2> QED
    BY <2>1, <2>2 DEF PingStep, BeginRun, EndRun, RunThrows
<1> QED
  BY <1>2, <1>3, <1>4, <1>5, <1>6

(* pong's filters: the request's id is chosen, and its thread has it. *)
LEMMA FilterKeeps ==
  ASSUME WayIInv, DeliveryTypeOK, NEW p \in PongThread, NEW r \in Request, Filter(p, r)
  PROVE  WayIInv'
<1> USE TraceAssumption DEF WayIInv, Blank
<1> DEFINE i == Filtered(p, r)
<1>1. i \in Nat /\ i # 0 /\ Made(p, r) \in Nat
  BY DEF Filtered, Made, TraceTypes
<1>2. /\ mdc' = [mdc EXCEPT ![p] = i] /\ last' = Made(p, r)
      /\ logged' = [logged EXCEPT ![r] = i]
      /\ serving' = [serving EXCEPT ![p] = r]
      /\ pong[r] = "none" /\ logged[r] = 0
      /\ UNCHANGED <<deliveryVars, run, caller, header, mqId, mqHead, traceId, ended>>
  BY DEF Filter, TraceTypes
<1> HIDE DEF i
<1>3. TraceTypes'
  BY <1>1, <1>2 DEF TraceTypes
<1>4. Working'
  BY <1>1, <1>2 DEF Working, TraceTypes
<1>5. Unsent' /\ Sent'
  BY <1>2 DEF deliveryVars, pongVars, otherVars, Unsent, Sent, TraceTypes
<1>6. Served'
  <2>1. \A q \in PongThread \ {p} : serving[q] # r
    BY <1>1, <1>2, DeliveryAssumption DEF Served
  <2> QED
    BY <1>1, <1>2, <2>1 DEF Served, TraceTypes
<1>7. RowsCarryPongId'
  <2>1. traceId[r] = {} /\ mqHead[r] = 0
    BY <1>2 DEF Unsent
  <2> QED
    BY <1>2, <2>1 DEF RowsCarryPongId, TraceTypes
<1>8. Called'
  <2>1. header[r] # 0 => i = header[r]
    BY DEF i, Filtered
  <2> QED
    BY <1>1, <1>2, <2>1 DEF Called, TraceTypes
<1> QED
  BY <1>3, <1>4, <1>5, <1>6, <1>7, <1>8

(* The rest of pong: the message takes the id of its request's thread. *)
LEMMA PongThreadKeeps ==
  ASSUME WayIInv, DeliveryTypeOK, NEW p \in PongThread,
         Throttle(p) \/ Message(p) \/ PreSend(p) \/ Answers(p)
  PROVE  WayIInv'
<1> USE TraceAssumption DEF WayIInv, Blank, pongVars, otherVars, deliveryVars
<1>0. serving[p] \in Request /\ serving[p] # NoRequest
  BY DEF Throttle, Message, PreSend, Answers, TraceTypes
<1>1. CASE Throttle(p)
  BY <1>1 DEF Throttle, TraceTypes, Working, Unsent, Sent, Served, RowsCarryPongId, Called
<1>2. CASE Message(p)
  <2>1. /\ pong' = [pong EXCEPT ![serving[p]] = IF HasBridge THEN "send" ELSE "answered"]
        /\ mqId' = [mqId EXCEPT ![serving[p]] = mdc[p]]
        /\ UNCHANGED <<queue, acked, taken, mdc, last, run, caller, header, serving, mqHead,
                       traceId, logged, ended>>
    BY <1>2 DEF Message, Respond
  <2>2. mdc[p] = logged[serving[p]] /\ mdc[p] # 0 /\ mdc[p] \in Nat
    BY <1>0 DEF Served, TraceTypes
  <2>3. TraceTypes'
    BY <2>1, <2>2 DEF TraceTypes
  <2>4. Unsent' /\ Sent'
    BY <1>0, <2>1, <2>2 DEF Unsent, Sent, TraceTypes, DeliveryTypeOK
  <2> QED
    BY <2>1, <2>3, <2>4 DEF Working, Served, RowsCarryPongId, Called
<1>3. CASE PreSend(p)
  <2>1. mdc[p] = logged[serving[p]] /\ mdc[p] # 0 /\ mdc[p] \in Nat
    BY <1>0 DEF Served, TraceTypes
  <2>2. /\ UNCHANGED <<deliveryVars, last, run, caller, header, serving, mqId, traceId,
                       logged, ended>>
        /\ pong[serving[p]] = "send"
        /\ mqHead' \in [Request -> Nat] /\ mdc' \in [PingThread \cup PongThread -> Nat]
    BY <1>0, <1>3, <2>1 DEF PreSend, TraceTypes
  <2>3. mdc' = mdc
    BY <1>0, <1>3, <2>1 DEF PreSend, TraceTypes, RowsCarryPongId
  <2>4. \A r \in Request : mqHead'[r] = mqHead[r] \/ (r = serving[p] /\ mqHead'[r] = logged[r])
    <3>1. \/ mqHead' = mqHead
          \/ mqHead' = [mqHead EXCEPT ![serving[p]] = mdc[p]]
      BY <1>3 DEF PreSend
    <3>2. mqHead \in [Request -> Nat]
      BY DEF TraceTypes
    <3>3. CASE mqHead' = mqHead
      BY <3>3
    <3>4. CASE mqHead' = [mqHead EXCEPT ![serving[p]] = mdc[p]]
      BY <1>0, <2>1, <3>2, <3>4
    <3> QED
      BY <3>1, <3>3, <3>4
  <2>5. Unsent' /\ Sent'
    BY <2>2, <2>4 DEF Unsent, Sent
  <2>6. RowsCarryPongId'
    BY <2>2, <2>4 DEF RowsCarryPongId
  <2> QED
    BY <2>2, <2>3, <2>5, <2>6 DEF TraceTypes, Working, Served, Called
<1>4. CASE Answers(p)
  <2>1. /\ serving' = [serving EXCEPT ![p] = NoRequest]
        /\ UNCHANGED <<queue, acked, taken, mdc, last, run, caller, header, mqId, mqHead,
                       traceId, logged, ended>>
    BY <1>4 DEF Answers, SendReturns, SendThrows
  <2>2. \A r \in Request : pong'[r] = "none" <=> pong[r] = "none"
    BY <1>0, <1>4 DEF Answers, SendReturns, SendThrows, DeliveryTypeOK
  <2>3. Unsent' /\ Sent'
    BY <2>1, <2>2 DEF Unsent, Sent
  <2> QED
    BY <2>1, <2>3 DEF TraceTypes, Working, Served, RowsCarryPongId, Called
<1> QED
  BY <1>1, <1>2, <1>3, <1>4

(* The broker and other: only messages that were sent move, and a row has  *)
(* its message's id.                                                       *)
LEMMA OtherKeeps ==
  ASSUME WayIInv, DeliveryTypeOK,
         \/ \E r \in Request : Broker(r)
         \/ \E c \in Consumer : Saves(c)
         \/ OtherStep
  PROVE  WayIInv'
<1> USE TraceAssumption DEF WayIInv, Blank, pongVars, otherVars, deliveryVars
<1>1. CASE \E r \in Request : Broker(r)
  <2> PICK r \in Request : Broker(r)
    BY <1>1
  <2>1. /\ pong[r] # "none" /\ queue' = [queue EXCEPT ![r] = @ + 1]
        /\ UNCHANGED <<pong, acked, taken, traceVars>>
    BY DEF Broker, Store
  <2>2. Unsent'
    BY <2>1 DEF Unsent, traceVars, DeliveryTypeOK
  <2> QED
    BY <2>1, <2>2 DEF traceVars, TraceTypes, Working, Sent, Served, RowsCarryPongId, Called
<1>2. CASE \E c \in Consumer : Saves(c)
  <2> PICK c \in Consumer : Saves(c)
    BY <1>2
  <2>1. /\ UNCHANGED <<pong, queue, acked, taken, mdc, last, run, caller, header, serving,
                       mqId, mqHead, logged, ended>>
        /\ \/ traceId' = traceId
           \/ traceId' = [traceId EXCEPT ![taken[c]] = @ \cup {mqId[taken[c]]}]
        /\ at[c] = "save"
    BY DEF Saves, Save, SaveFails
  <2>2. taken[c] \in Request /\ pong[taken[c]] # "none"
    BY <2>1 DEF Unsent, DeliveryTypeOK
  <2>3. mqId[taken[c]] = logged[taken[c]] /\ mqId[taken[c]] \in Nat
    BY <2>2 DEF Sent, TraceTypes
  <2>4. TraceTypes'
    BY <2>1, <2>3 DEF TraceTypes
  <2>5. Unsent'
    BY <2>1, <2>2 DEF Unsent, TraceTypes
  <2>6. RowsCarryPongId'
    BY <2>1, <2>2, <2>3 DEF RowsCarryPongId, TraceTypes
  <2> QED
    BY <2>1, <2>4, <2>5, <2>6 DEF Working, Sent, Served, Called
<1>3. CASE OtherStep
  <2>1. UNCHANGED <<pong, traceVars>>
    BY <1>3 DEF OtherStep, Take, Return, Commit, CrashOther
  <2>2. Unsent'
    <3> SUFFICES ASSUME NEW s \in Request, pong[s] = "none"
                 PROVE  /\ queue'[s] = 0 /\ acked'[s] = 0
                        /\ \A d \in Consumer : taken'[d] # s
      BY <2>1 DEF Unsent, traceVars
    <3>0. /\ queue[s] = 0 /\ acked[s] = 0 /\ \A d \in Consumer : taken[d] # s
      BY DEF Unsent
    <3>1. ASSUME NEW c \in Consumer, NEW r \in Request, Take(c, r)
          PROVE  /\ queue'[s] = 0 /\ acked'[s] = 0 /\ \A d \in Consumer : taken'[d] # s
      BY <3>0, <3>1 DEF Take, DeliveryTypeOK
    <3>2. ASSUME NEW c \in Consumer, Return(c)
          PROVE  /\ queue'[s] = 0 /\ acked'[s] = 0 /\ \A d \in Consumer : taken'[d] # s
      BY <3>0, <3>2, DeliveryAssumption DEF Return, DeliveryTypeOK
    <3>3. CASE Commit
      BY <3>0, <3>3 DEF Commit
    <3>4. CASE CrashOther
      <4>1. InHand(s) = 0
        <5>1. {c \in Consumer : taken[c] = s} = {}
          BY <3>0
        <5> QED
          BY <5>1, FS_EmptySet DEF InHand
      <4> QED
        BY <3>0, <3>4, <4>1, DeliveryAssumption DEF CrashOther
    <3> QED
      BY <1>3, <3>1, <3>2, <3>3, <3>4 DEF OtherStep
  <2> QED
    BY <2>1, <2>2 DEF traceVars, TraceTypes, Working, Sent, Served, RowsCarryPongId, Called
<1> QED
  BY <1>1, <1>2, <1>3

-----------------------------------------------------------------------------
(* The two invariants together: Delivery's says what is in the topic. *)
TraceIInv == WayIInv /\ DeliveryIInv

(* At the start no thread has an id and nothing was sent. *)
LEMMA TraceInitIInv == TraceInit => TraceIInv
<1> SUFFICES ASSUME TraceInit PROVE TraceIInv
  OBVIOUS
<1>1. DeliveryIInv
  BY DeliveryInitIInv DEF TraceInit
<1>2. WayIInv
  BY TraceAssumption, DeliveryAssumption DEF TraceInit, DeliveryInit, WayIInv, TraceTypes,
     Working, Unsent, Sent, Served, RowsCarryPongId, Called, Blank
<1> QED
  BY <1>1, <1>2 DEF TraceIInv

(* Every step keeps both. *)
LEMMA TraceStepKeeps == TraceIInv /\ [TraceNext]_allVars => TraceIInv'
<1> SUFFICES ASSUME TraceIInv, [TraceNext]_allVars PROVE TraceIInv'
  OBVIOUS
<1>1. TraceTypes /\ DeliveryTypeOK /\ WayIInv
  BY DEF TraceIInv, WayIInv, DeliveryIInv
<1>2. DeliveryIInv'
  BY <1>1, StepOfDelivery, DeliveryStepKeeps DEF TraceIInv
<1>3. CASE \E t \in PingThread : PingStep(t)
  BY <1>1, <1>2, <1>3, PingKeeps DEF TraceIInv
<1>4. CASE \E p \in PongThread : PongStep(p)
  BY <1>1, <1>2, <1>4, FilterKeeps, PongThreadKeeps DEF PongStep, TraceIInv
<1>5. CASE \/ \E r \in Request : Broker(r)
           \/ \E c \in Consumer : Saves(c)
           \/ OtherStep
  BY <1>1, <1>2, <1>5, OtherKeeps DEF TraceIInv
<1>6. CASE UNCHANGED allVars
  <2>1. WayIInv'
    BY <1>1, <1>6 DEF allVars, traceVars, deliveryVars, pongVars, otherVars, WayIInv, TraceTypes,
       Working, Unsent, Sent, Served, RowsCarryPongId, Called
  <2> QED
    BY <1>2, <2>1 DEF TraceIInv
<1> QED
  BY <1>3, <1>4, <1>5, <1>6 DEF TraceNext

(* The inductive invariant of the id's way holds in every state. *)
THEOREM TraceInvariant == TraceSpec => []TraceIInv
<1> QED
  BY TraceInitIInv, TraceStepKeeps, PTL DEF TraceSpec

(* What TraceContext adds to Delivery takes nothing away: each of its      *)
(* behaviours is one of Delivery, so that no message is lost here either.  *)
THEOREM TraceImplementsDelivery == TraceSpec => DeliverySpec
<1>1. TraceInit => DeliveryInit
  BY DEF TraceInit
<1>2. TraceIInv /\ [TraceNext]_allVars => [DeliveryNext]_deliveryVars
  BY StepOfDelivery DEF TraceIInv, WayIInv
<1> QED
  BY <1>1, <1>2, TraceInvariant, PTL DEF TraceSpec, DeliverySpec

(* PongService.message: a row and its message carry the id under which     *)
(* pong logged the request.                                                *)
THEOREM RowsHavePongsId == TraceSpec => []RowsCarryPongId
<1>1. TraceIInv => RowsCarryPongId
  BY DEF TraceIInv, WayIInv
<1> QED
  BY TraceInvariant, <1>1, PTL

(* One id from ping's attempt over pong to other's row. *)
THEOREM OneIdEndToEnd == TraceSpec => []EndToEnd
<1>1. TraceIInv => EndToEnd
  <2> SUFFICES ASSUME TraceIInv, NEW r \in Request, caller[r] # NoThread
               PROVE  header[r] # Blank /\ traceId[r] \subseteq {header[r]}
    BY DEF EndToEnd
  <2>1. header[r] # Blank /\ logged[r] \in {Blank, header[r]}
    BY DEF TraceIInv, WayIInv, Called
  <2>2. logged[r] = Blank => traceId[r] = {}
    BY DEF TraceIInv, WayIInv, Sent, Unsent
  <2>3. traceId[r] \subseteq {logged[r]}
    BY DEF TraceIInv, WayIInv, RowsCarryPongId
  <2> QED
    BY <2>1, <2>2, <2>3
<1> QED
  BY TraceInvariant, <1>1, PTL

-----------------------------------------------------------------------------
(* An id that a cron thread has is its own and not one of a run that       *)
(* returned, and every id that was made is at most the last.               *)
CronIds == /\ \A t \in CronThread : mdc[t] <= last /\ (mdc[t] # Blank => mdc[t] \notin ended)
           /\ \A t, u \in CronThread : t # u /\ mdc[t] # Blank => mdc[t] # mdc[u]
           /\ \A i \in ended : i <= last

PongIds == /\ \A r \in Request : header[r] = Blank => logged[r] <= last
           /\ PongIdsDistinct

(* ping's threads: a thread without an id gets one that is larger than all. *)
LEMMA PingKeepsIds ==
  ASSUME WayIInv, CronIds, PongIds, NEW t \in PingThread, PingStep(t)
  PROVE  CronIds' /\ PongIds'
<1> USE TraceAssumption DEF WayIInv, TraceTypes, Blank, PingThread
<1>1. CASE BeginRun(t)
  <2>1. CASE mdc[t] = 0
    <3>1. /\ last' = last + 1 /\ mdc' = [mdc EXCEPT ![t] = last + 1]
          /\ UNCHANGED <<header, logged, ended>>
      BY <1>1, <2>1 DEF BeginRun
    <3>2. CronIds'
      BY <3>1 DEF CronIds
    <3>3. PongIds'
      BY <3>1 DEF PongIds, PongIdsDistinct
    <3> QED
      BY <3>2, <3>3
  <2>2. CASE mdc[t] # 0
    BY <1>1, <2>2 DEF BeginRun, CronIds, PongIds, PongIdsDistinct
  <2> QED
    BY <2>1, <2>2
<1>2. CASE Invoke(t)
  <2>1. UNCHANGED <<mdc, last, ended, logged>>
    BY <1>2 DEF Invoke
  <2>2. \A r \in Request : header'[r] = 0 => header[r] = 0
    BY <1>2 DEF Invoke, Working
  <2> QED
    BY <2>1, <2>2 DEF CronIds, PongIds, PongIdsDistinct
<1>3. CASE EndRun(t)
  <2>1. UNCHANGED <<last, header, logged>>
    BY <1>3 DEF EndRun
  <2>2. CASE t \in CronThread
    <3>1. mdc' = [mdc EXCEPT ![t] = 0] /\ ended' = ended \cup {mdc[t]} /\ mdc[t] # 0
      BY <1>3, <2>2 DEF EndRun, Working
    <3> QED
      BY <2>1, <2>2, <3>1 DEF CronIds, PongIds, PongIdsDistinct
  <2>3. CASE t \notin CronThread
    <3>1. UNCHANGED <<mdc, ended>>
      BY <1>3, <2>3 DEF EndRun
    <3> QED
      BY <2>1, <3>1 DEF CronIds, PongIds, PongIdsDistinct
  <2> QED
    BY <2>2, <2>3
<1>4. CASE RunThrows(t)
  BY <1>4 DEF RunThrows, CronIds, PongIds, PongIdsDistinct
<1> QED
  BY <1>1, <1>2, <1>3, <1>4 DEF PingStep

(* pong's threads: the filters make an id that is larger than all, and     *)
(* none of them touches a thread of ping.                                  *)
LEMMA PongKeepsIds ==
  ASSUME WayIInv, CronIds, PongIds, NEW p \in PongThread, PongStep(p)
  PROVE  CronIds' /\ PongIds'
<1> USE TraceAssumption DEF WayIInv, TraceTypes, Blank, PingThread
<1>1. CASE \E r \in Request : Filter(p, r)
  <2> PICK r \in Request : Filter(p, r)
    BY <1>1
  <2>1. /\ mdc' = [mdc EXCEPT ![p] = Filtered(p, r)]
        /\ last' = Made(p, r)
        /\ logged' = [logged EXCEPT ![r] = Filtered(p, r)]
        /\ UNCHANGED <<header, ended>>
    BY DEF Filter, Filtered
  <2>2. last' >= last /\ last' \in Nat
    BY <2>1 DEF Made
  <2>3. header[r] = 0 => logged'[r] = last + 1 /\ last' = last + 1
    BY <2>1 DEF Filtered, Made
  <2>4. \A t \in CronThread : mdc'[t] = mdc[t]
    BY <2>1
  <2>5. CronIds'
    BY <2>1, <2>2, <2>4 DEF CronIds
  <2>6. \A s \in Request \ {r} : logged'[s] = logged[s]
    BY <2>1
  <2>7. logged'[r] \in Nat /\ last \in Nat /\ \A s \in Request : logged[s] \in Nat
    BY <2>1, <2>2 DEF Filtered
  <2>8. \A s \in Request : header'[s] = 0 => logged'[s] <= last'
    BY <2>1, <2>2, <2>3, <2>6, <2>7 DEF PongIds
  <2>9. ASSUME NEW s \in Request, NEW u \in Request, s # u, header'[s] = 0, header'[u] = 0,
               logged'[s] # 0
        PROVE  logged'[s] # logged'[u]
    <3>1. header[s] = 0 /\ header[u] = 0
      BY <2>1, <2>9
    <3>2. CASE s = r
      BY <2>3, <2>6, <2>7, <2>9, <3>1, <3>2 DEF PongIds
    <3>3. CASE u = r
      BY <2>3, <2>6, <2>7, <2>9, <3>1, <3>3 DEF PongIds
    <3>4. CASE s # r /\ u # r
      BY <2>6, <2>9, <3>1, <3>4 DEF PongIds, PongIdsDistinct
    <3> QED
      BY <3>2, <3>3, <3>4
  <2>10. PongIds'
    BY <2>8, <2>9 DEF PongIds, PongIdsDistinct
  <2> QED
    BY <2>5, <2>10
<1>2. CASE Throttle(p) \/ Message(p) \/ PreSend(p) \/ Answers(p)
  <2>1. UNCHANGED <<last, header, logged, ended>>
    BY <1>2 DEF Throttle, Message, PreSend, Answers
  <2>2. \A t \in CronThread : mdc'[t] = mdc[t]
    BY <1>2 DEF Throttle, Message, PreSend, Answers
  <2> QED
    BY <2>1, <2>2 DEF CronIds, PongIds, PongIdsDistinct
<1> QED
  BY <1>1, <1>2 DEF PongStep

(* The ids that are made stay apart from each other. *)
THEOREM IdsInvariant == TraceSpec => [](CronIds /\ PongIds)
<1>1. TraceInit => CronIds /\ PongIds
  BY TraceAssumption DEF TraceInit, CronIds, PongIds, PongIdsDistinct, Blank, PingThread
<1>2. TraceIInv /\ CronIds /\ PongIds /\ [TraceNext]_allVars => CronIds' /\ PongIds'
  <2> SUFFICES ASSUME TraceIInv, CronIds, PongIds, [TraceNext]_allVars
               PROVE  CronIds' /\ PongIds'
    OBVIOUS
  <2>1. CASE \E t \in PingThread : PingStep(t)
    BY <2>1, PingKeepsIds DEF TraceIInv
  <2>2. CASE \E p \in PongThread : PongStep(p)
    BY <2>2, PongKeepsIds DEF TraceIInv
  <2>3. CASE \/ \E r \in Request : Broker(r)
             \/ \E c \in Consumer : Saves(c)
             \/ OtherStep
             \/ UNCHANGED allVars
    <3>1. UNCHANGED <<mdc, last, header, logged, ended>>
      BY <2>3 DEF Broker, Saves, OtherStep, allVars, traceVars
    <3> QED
      BY <3>1 DEF CronIds, PongIds, PongIdsDistinct
  <2> QED
    BY <2>1, <2>2, <2>3 DEF TraceNext
<1> QED
  BY <1>1, <1>2, TraceInvariant, PTL DEF TraceSpec

(* TaskRunnable.run: a cron run does not use the id of a run that returned. *)
THEOREM CronRunsHaveFreshIds == TraceSpec => []CronRunsFresh
<1>1. TraceIInv /\ CronIds => CronRunsFresh
  BY DEF TraceIInv, WayIInv, Working, CronIds, CronRunsFresh, PingThread
<1> QED
  BY TraceInvariant, IdsInvariant, <1>1, PTL

(* WebFluxTraceFilter: requests without a header get ids of their own. *)
THEOREM PongMakesDistinctIds == TraceSpec => []PongIdsDistinct
<1>1. PongIds => PongIdsDistinct
  BY DEF PongIds
<1> QED
  BY IdsInvariant, <1>1, PTL

=============================================================================
