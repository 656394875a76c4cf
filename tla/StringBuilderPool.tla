------------------------- MODULE StringBuilderPool -------------------------
(***************************************************************************)
(* module/trace-base: StringBuilderPool and its only user,                 *)
(* TraceIdUtil.generateTraceId, which makes the trace ids of all threads   *)
(* of a process.  The pool is a GenericObjectPool of commons-pool2         *)
(* (external): it hands out an idle builder, creates one while it has      *)
(* fewer than MaxTotal, or else lets the caller wait five seconds and      *)
(* throws.  getObject then falls back on a builder of its own, which       *)
(* returnObject later offers to a pool that has never seen it.             *)
(*                                                                         *)
(* Each call on a builder is a step.  A builder's text is the sequence of  *)
(* the parts appended to it: the host name, or a thread, which stands for  *)
(* the number that thread drew.                                            *)
(***************************************************************************)
EXTENDS Integers, Sequences, FiniteSets

CONSTANTS Thread,     \* the threads of the process
          Builder,    \* identities of builders
          NoBuilder,  \* a thread that has none
          Host,       \* TraceIdUtil.hostname
          MaxTotal,   \* conf.setMaxTotal
          MaxIdle     \* conf.setMaxIdle

ASSUME PoolAssumption == /\ NoBuilder \notin Builder
                         /\ Host \notin Thread
                         /\ MaxTotal \in Nat
                         /\ MaxIdle \in Nat

VARIABLES idle,       \* the builders in the pool that are free
          allocated,  \* the builders in the pool that are lent
          text,       \* [Builder -> Seq(...)], what was appended
          pc,         \* [Thread -> ...], where the thread is in generateTraceId
          sb,         \* [Thread -> Builder \cup {NoBuilder}], the local variable
          id          \* [Thread -> Seq(...)], the id it made last

poolVars == <<idle, allocated, text, pc, sb, id>>

Busy == {"host", "number", "string", "clear", "return"}

PoolInit == /\ idle = {}
            /\ allocated = {}
            /\ text = [b \in Builder |-> <<>>]
            /\ pc = [t \in Thread |-> "idle"]
            /\ sb = [t \in Thread |-> NoBuilder]
            /\ id = [t \in Thread |-> <<>>]

-----------------------------------------------------------------------------
(* new StrBuilder(): an object that nothing refers to, and empty. *)
IsNew(b) == /\ b \in Builder \ (idle \cup allocated)
            /\ \A u \in Thread : sb[u] # b

Takes(t, b) == /\ sb' = [sb EXCEPT ![t] = b]
               /\ pc' = [pc EXCEPT ![t] = "host"]
               /\ UNCHANGED id

Generate(t) == /\ pc[t] = "idle"
               /\ pc' = [pc EXCEPT ![t] = "get"]
               /\ UNCHANGED <<idle, allocated, text, sb, id>>

(* getObject, borrowObject: a free builder. *)
GetIdle(t) == /\ pc[t] = "get"
              /\ \E b \in idle : /\ idle' = idle \ {b}
                                 /\ allocated' = allocated \cup {b}
                                 /\ Takes(t, b)
              /\ UNCHANGED text

(* getObject, borrowObject: none is free, the factory creates one. *)
GetCreated(t) == /\ pc[t] = "get"
                 /\ idle = {}
                 /\ Cardinality(allocated) < MaxTotal
                 /\ \E b \in Builder : /\ IsNew(b)
                                       /\ allocated' = allocated \cup {b}
                                       /\ text' = [text EXCEPT ![b] = <<>>]
                                       /\ Takes(t, b)
                 /\ UNCHANGED idle

(* Mutant: the fallback is one builder for all. *)
GetShared(t) == /\ pc[t] = "get"
                /\ idle = {}
                /\ Cardinality(allocated) >= MaxTotal
                /\ \E b \in allocated : Takes(t, b)
                /\ UNCHANGED <<idle, allocated, text>>

(* Mutant: there is no fallback, borrowObject waits without limit. *)
GetNever(t) == FALSE /\ UNCHANGED poolVars

(* getObject, catch: the wait for a builder timed out. *)
GetFallback(t) == /\ pc[t] = "get"
                  /\ idle = {}
                  /\ Cardinality(allocated) >= MaxTotal
                  /\ \E b \in Builder : /\ IsNew(b)
                                        /\ text' = [text EXCEPT ![b] = <<>>]
                                        /\ Takes(t, b)
                  /\ UNCHANGED <<idle, allocated>>

AppendPart(t, part) == /\ text' = [text EXCEPT ![sb[t]] = Append(@, part)]
                       /\ UNCHANGED <<idle, allocated, sb, id>>

AppendHost(t) == /\ pc[t] = "host"
                 /\ AppendPart(t, Host)
                 /\ pc' = [pc EXCEPT ![t] = "number"]

AppendNumber(t) == /\ pc[t] = "number"
                   /\ AppendPart(t, t)
                   /\ pc' = [pc EXCEPT ![t] = "string"]

ToString(t) == /\ pc[t] = "string"
               /\ id' = [id EXCEPT ![t] = text[sb[t]]]
               /\ pc' = [pc EXCEPT ![t] = "clear"]
               /\ UNCHANGED <<idle, allocated, text, sb>>

(* Mutant: the builder goes back as it is. *)
ClearNothing(t) == /\ pc[t] = "clear"
                   /\ pc' = [pc EXCEPT ![t] = "return"]
                   /\ UNCHANGED <<idle, allocated, text, sb, id>>

(* returnObject: sb.clear() *)
Clear(t) == /\ pc[t] = "clear"
            /\ text' = [text EXCEPT ![sb[t]] = <<>>]
            /\ pc' = [pc EXCEPT ![t] = "return"]
            /\ UNCHANGED <<idle, allocated, sb, id>>

Lets(t) == /\ sb' = [sb EXCEPT ![t] = NoBuilder]
           /\ pc' = [pc EXCEPT ![t] = "idle"]
           /\ UNCHANGED <<text, id>>

(* Mutant: the pool takes what it is given. *)
ReturnAny(t) == /\ pc[t] = "return"
                /\ allocated' = allocated \ {sb[t]}
                /\ idle' = IF Cardinality(idle) < MaxIdle THEN idle \cup {sb[t]} ELSE idle
                /\ Lets(t)

(* returnObject: the builder is free again, or dropped when MaxIdle are;   *)
(* a foreign one is refused with an exception, which is ignored.           *)
Return(t) == /\ pc[t] = "return"
             /\ allocated' = allocated \ {sb[t]}
             /\ idle' = IF sb[t] \in allocated /\ Cardinality(idle) < MaxIdle
                        THEN idle \cup {sb[t]} ELSE idle
             /\ Lets(t)

GetObject(t) == GetIdle(t) \/ GetCreated(t) \/ GetFallback(t)

Generating(t) == \/ GetObject(t)
                 \/ AppendHost(t) \/ AppendNumber(t) \/ ToString(t)
                 \/ Clear(t) \/ Return(t)

PoolNext == \E t \in Thread : Generate(t) \/ Generating(t)

PoolSpec == PoolInit /\ [][PoolNext]_poolVars

(* Threads are scheduled, and borrowObject's wait is bounded (maxWait). *)
PoolFairSpec == PoolSpec /\ \A t \in Thread : WF_poolVars(Generating(t))

-----------------------------------------------------------------------------
(* Each variable has its type, and a busy thread has a builder. *)
PoolTypeOK == /\ idle \subseteq Builder
              /\ allocated \subseteq Builder
              /\ text \in [Builder -> Seq(Thread \cup {Host})]
              /\ pc \in [Thread -> Busy \cup {"idle", "get"}]
              /\ sb \in [Thread -> Builder \cup {NoBuilder}]
              /\ id \in [Thread -> Seq(Thread \cup {Host})]
              /\ \A t \in Thread : sb[t] = NoBuilder <=> pc[t] \notin Busy

(* getObject: a builder is used by one thread at a time, and not free      *)
(* meanwhile, though fallback builders come and go outside of the pool.    *)
BuilderExclusive ==
  \A t \in Thread : pc[t] \in Busy =>
    /\ sb[t] \in Builder \ idle
    /\ \A u \in Thread \ {t} : sb[u] # sb[t]

(* generateTraceId: an id is this process's host name and the number this  *)
(* thread drew, with nothing left over from another use of the builder.    *)
IdWellFormed == \A t \in Thread : id[t] \in {<<>>, <<Host, t>>}

(* returnObject: every builder that is lent has a thread that will return  *)
(* it, so the pool does not shrink.                                        *)
NoPoolLeak == \A b \in allocated : \E t \in Thread : sb[t] = b /\ pc[t] \in Busy

(* getConf: the pool never has more builders than it is configured for,    *)
(* whatever is returned to it.                                             *)
PoolBounded == /\ Cardinality(idle \cup allocated) <= MaxTotal
               /\ Cardinality(idle) <= MaxIdle

(* getObject: no thread waits for ever for a builder. *)
GenerationEnds == \A t \in Thread : pc[t] = "get" ~> pc[t] = "idle"

=============================================================================
