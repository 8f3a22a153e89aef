---------------------------- MODULE RedisStreams ----------------------------
(***************************************************************************)
(* The Redis Streams transport (packages/transport-redis): several worker  *)
(* processes share a stream, its consumer group and a sorted set of        *)
(* delayed messages.  Every Redis command is one step, and so is a Lua     *)
(* script; what happens between two commands of a process is not atomic.   *)
(*                                                                         *)
(* A process runs one get() loop whose consumer settles each envelope      *)
(* before it asks for the next (worker.ts).  While it settles, the loop is *)
(* suspended: pc says which of the two is running, and where.  An operator *)
(* runs no loop: it settles an entry it found with list() or find().       *)
(***************************************************************************)
EXTENDS Naturals, FiniteSets

CONSTANTS
  Worker,             \* the worker processes, each with its own transport
  Operator,           \* processes that only locate an entry and remove it
  Message,            \* the messages; each is sent once
  NoEntry,            \* "nothing in hand"
  Setups              \* the deployments that are looked at

ASSUME ProcessAssumption == Worker \intersect Operator = {}

ASSUME NoEntryAssumption == NoEntry \notin [id : Nat, msg : Message]

(* A deployment: the processes that run, the messages sent, those of them  *)
(* that carry a DelayStamp and those the processes cannot decode,          *)
(* readBatchSize, and the bounds: on reject(), on crashes, and on entries  *)
(* that go idle under a live consumer.                                     *)
ASSUME SetupsAssumption ==
  \A s \in Setups :
    /\ s.processes \subseteq Worker \union Operator
    /\ s.messages \subseteq Message
    /\ s.delayed \subseteq s.messages /\ s.foreign \subseteq s.messages
    /\ s.batchSize \in Nat \ {0}
    /\ s.maxRejects \in Nat /\ s.maxCrashes \in Nat /\ s.maxSlow \in Nat

Process == Worker \union Operator

VARIABLES
  setup,              \* the deployment: chosen once
  delayed,            \* the sorted set
  stream,             \* the stream
  lastRead,           \* the group's last delivered id
  pending,            \* the group's pending list: ids
  idle,               \* those idle for claimIdleMs
  nextId,             \* ids are handed out in order
  pc,                 \* [Process -> where its loop or its worker is]
  due,                \* [Process -> members popped and not yet appended]
  batch,              \* [Process -> entries pulled and not yet yielded]
  hand,               \* [Process -> entry the worker has]
  closing,            \* [Process -> how far close() is]
  left,               \* [Process -> loop commands that precede QUIT]
  aborted,            \* [Process -> its AbortSignal]
  used,               \* how much of each bound is used
  sent,               \* history: messages whose send() resolved
  done,               \* history: messages acked, discarded or removed
  stranded            \* history: messages that left Redis in a process that stopped

redisVars   == <<delayed, stream, lastRead, pending, idle, nextId>>
localVars   == <<pc, due, batch, hand>>
closeVars   == <<closing, left, aborted>>
historyVars == <<sent, done, stranded>>
vars == <<setup, redisVars, localVars, closeVars, used, historyVars>>

Delayed   == setup.delayed
Foreign   == setup.foreign
BatchSize == setup.batchSize

Entry  == [id : Nat, msg : Message]
Member == [id : Nat, msg : Message, due : BOOLEAN]

LoopCommands   == {"drain", "append", "reclaim", "read", "discard"}
SettleCommands == {"xack", "xdel"}

(* Type invariant: what is in Redis, where each process is, the history.   *)
TypeOK ==
  /\ setup \in Setups
  /\ delayed \subseteq Member
  /\ stream \subseteq Entry
  /\ lastRead \in Nat /\ nextId \in Nat
  /\ pending \subseteq Nat /\ idle \subseteq pending
  /\ pc \in [Process -> {"absent", "loop", "handle", "returned", "crashed", "locate"}
                          \union LoopCommands \union SettleCommands]
  /\ due \in [Process -> SUBSET Member]
  /\ batch \in [Process -> SUBSET Entry]
  /\ hand \in [Process -> Entry \union {NoEntry}]
  /\ closing \in [Process -> {"open", "draining", "flushing", "closed"}]
  /\ left \in [Process -> 0 .. 2]
  /\ aborted \in [Process -> BOOLEAN]
  /\ used \in [{"rejects", "crashes", "slow"} -> Nat]
  /\ sent \subseteq Message /\ done \subseteq Message /\ stranded \subseteq Message

Start(p) == IF p \in Worker THEN "loop" ELSE "locate"

Init ==
  /\ setup \in Setups
  /\ delayed = {} /\ stream = {} /\ pending = {} /\ idle = {}
  /\ lastRead = 0 /\ nextId = 1
  /\ pc = [p \in Process |-> IF p \in setup.processes THEN Start(p) ELSE "absent"]
  /\ due = [p \in Process |-> {}]
  /\ batch = [p \in Process |-> {}]
  /\ hand = [p \in Process |-> NoEntry]
  /\ closing = [p \in Process |-> "open"]
  /\ left = [p \in Process |-> 0]
  /\ aborted = [p \in Process |-> FALSE]
  /\ used = [b \in {"rejects", "crashes", "slow"} |-> 0]
  /\ sent = {} /\ done = {} /\ stranded = {}

Alive(p) == pc[p] \notin {"absent", "crashed"}

Goto(p, label) == pc' = [pc EXCEPT ![p] = label]

Oldest(e, S) == e \in S /\ \A o \in S : e.id <= o.id

(* The first BatchSize of S in id order.                                   *)
FirstOf(S) == {e \in S : Cardinality({o \in S : o.id < e.id}) < BatchSize}

-----------------------------------------------------------------------------
(* Publishing                                                              *)

(* enqueue(): the sorted set for a delayed message, else the stream.       *)
Enqueue(m) ==
  /\ IF m \in Delayed
       THEN /\ delayed' = delayed \union {[id |-> nextId, msg |-> m, due |-> FALSE]}
            /\ UNCHANGED stream
       ELSE /\ stream' = stream \union {[id |-> nextId, msg |-> m]}
            /\ UNCHANGED delayed
  /\ nextId' = nextId + 1

(* send(), by any process whose transport is open.                         *)
Send(m) ==
  /\ \E p \in Process : closing[p] = "open" /\ Alive(p)
  /\ m \in setup.messages \ sent
  /\ Enqueue(m)
  /\ sent' = sent \union {m}
  /\ UNCHANGED <<setup, lastRead, pending, idle, localVars, closeVars, used, done, stranded>>

(* The due time of a delayed message is reached.                           *)
BecomeDue(d) ==
  /\ ~d.due
  /\ delayed' = (delayed \ {d}) \union {[d EXCEPT !.due = TRUE]}
  /\ UNCHANGED <<setup, stream, lastRead, pending, idle, nextId,
                 localVars, closeVars, used, historyVars>>

-----------------------------------------------------------------------------
(* The get() loop: drainDueDelayed, reclaimStalled, readBatch, then yield  *)

ShouldStop(p) == aborted[p] \/ closing[p] # "open"

(* The batch is finished: the next poll, after a pause if it was empty.    *)
Poll(p) ==
  /\ pc[p] = "loop" /\ batch[p] = {}
  /\ ~ShouldStop(p)
  /\ Goto(p, "drain")
  /\ UNCHANGED <<setup, redisVars, due, batch, hand, closeVars, used, historyVars>>

(* Redis still takes the command the loop is at.  Once nothing is in       *)
(* flight, close() waits for the command it finds pending (left = 2); the  *)
(* XADD that follows a Lua script or another XADD is issued before the     *)
(* QUIT, and everything later is refused.                                  *)
Accepted(p) ==
  \/ closing[p] = "open"
  \/ closing[p] = "flushing" /\ (left[p] = 2 \/ (left[p] = 1 /\ pc[p] = "append"))

(* Mutant of Command: QUIT is not the last command of a process.           *)
CommandAfterQuit(p, label) ==
  /\ pc[p] = label
  /\ left' = [left EXCEPT ![p] = IF closing[p] = "flushing" THEN @ - 1 ELSE @]
  /\ UNCHANGED <<closing, aborted>>

(* A command of the loop is carried out.                                   *)
Command(p, label) ==
  /\ pc[p] = label
  /\ Accepted(p)
  /\ left' = [left EXCEPT ![p] = IF closing[p] = "flushing" THEN @ - 1 ELSE @]
  /\ UNCHANGED <<closing, aborted>>

(* The Lua script pops all due members at once ...                         *)
Drain(p) ==
  /\ Command(p, "drain")
  /\ LET popped == {d \in delayed : d.due} IN
       /\ delayed' = delayed \ popped
       /\ due' = [due EXCEPT ![p] = popped]
       /\ Goto(p, IF popped = {} THEN "reclaim" ELSE "append")
  /\ UNCHANGED <<setup, stream, lastRead, pending, idle, nextId, batch, hand, used, historyVars>>

(* ... and each is then appended by a command of its own.                  *)
Append(p) ==
  /\ Command(p, "append")
  /\ \E d \in due[p] :
       /\ stream' = stream \union {[id |-> nextId, msg |-> d.msg]}
       /\ due' = [due EXCEPT ![p] = @ \ {d}]
       /\ Goto(p, IF due[p] = {d} THEN "reclaim" ELSE "append")
  /\ nextId' = nextId + 1
  /\ UNCHANGED <<setup, delayed, lastRead, pending, idle, batch, hand, used, historyVars>>

(* Mutant of Reclaim: the idle time is not given to XAUTOCLAIM.            *)
ReclaimAtOnce(p) ==
  /\ Command(p, "reclaim")
  /\ LET claimed == FirstOf({e \in stream : e.id \in pending}) IN
       /\ batch' = [batch EXCEPT ![p] = claimed]
       /\ idle' = idle \ {e.id : e \in claimed}
  /\ Goto(p, "read")
  /\ UNCHANGED <<setup, delayed, stream, lastRead, pending, nextId, due, hand, used, historyVars>>

(* Mutant of Reclaim: pull() returns only what it read itself.             *)
ReclaimForgetting(p) ==
  /\ Command(p, "reclaim")
  /\ LET claimed == FirstOf({e \in stream : e.id \in idle}) IN
       idle' = idle \ {e.id : e \in claimed}
  /\ Goto(p, "read")
  /\ UNCHANGED <<setup, delayed, stream, lastRead, pending, nextId, due, batch, hand, used, historyVars>>

(* XAUTOCLAIM: whoever holds the idle entries, they are now this process'. *)
Reclaim(p) ==
  /\ Command(p, "reclaim")
  /\ LET claimed == FirstOf({e \in stream : e.id \in idle}) IN
       /\ batch' = [batch EXCEPT ![p] = claimed]
       /\ idle' = idle \ {e.id : e \in claimed}
  /\ Goto(p, "read")
  /\ UNCHANGED <<setup, delayed, stream, lastRead, pending, nextId, due, hand, used, historyVars>>

(* Mutant of Read: the entries are read with NOACK.                        *)
ReadNoAck(p) ==
  /\ Command(p, "read")
  /\ LET fresh == FirstOf({e \in stream : e.id > lastRead}) IN
       /\ batch' = [batch EXCEPT ![p] = @ \union fresh]
       /\ lastRead' = IF fresh = {} THEN lastRead
                      ELSE (CHOOSE e \in fresh : \A o \in fresh : o.id <= e.id).id
  /\ Goto(p, "loop")
  /\ UNCHANGED <<setup, delayed, stream, pending, idle, nextId, due, hand, used, historyVars>>

(* XREADGROUP '>': the next entries never delivered to the group.          *)
Read(p) ==
  /\ Command(p, "read")
  /\ LET fresh == FirstOf({e \in stream : e.id > lastRead}) IN
       /\ batch' = [batch EXCEPT ![p] = @ \union fresh]
       /\ pending' = pending \union {e.id : e \in fresh}
       /\ lastRead' = IF fresh = {} THEN lastRead
                      ELSE (CHOOSE e \in fresh : \A o \in fresh : o.id <= e.id).id
  /\ Goto(p, "loop")
  /\ UNCHANGED <<setup, delayed, stream, idle, nextId, due, hand, used, historyVars>>

(* Mutant of Yield: close() and abort are looked at once per batch.        *)
YieldWholeBatch(p) ==
  /\ pc[p] = "loop"
  /\ \E e \in batch[p] :
       /\ Oldest(e, batch[p])
       /\ hand' = [hand EXCEPT ![p] = e]
       /\ batch' = [batch EXCEPT ![p] = @ \ {e}]
       /\ Goto(p, IF e.msg \in Foreign THEN "discard" ELSE "handle")
  /\ UNCHANGED <<setup, redisVars, due, closeVars, used, historyVars>>

(* The next entry of the batch is registered in flight and yielded, or,    *)
(* when it cannot be decoded, to be discarded.                             *)
Yield(p) ==
  /\ pc[p] = "loop"
  /\ ~ShouldStop(p)
  /\ \E e \in batch[p] :
       /\ Oldest(e, batch[p])
       /\ hand' = [hand EXCEPT ![p] = e]
       /\ batch' = [batch EXCEPT ![p] = @ \ {e}]
       /\ Goto(p, IF e.msg \in Foreign THEN "discard" ELSE "handle")
  /\ UNCHANGED <<setup, redisVars, due, closeVars, used, historyVars>>

(* A poison entry is only acknowledged: it stays in the stream.            *)
Discard(p) ==
  /\ Command(p, "discard")
  /\ pending' = pending \ {hand[p].id}
  /\ idle' = idle \ {hand[p].id}
  /\ done' = done \union {hand[p].msg}
  /\ hand' = [hand EXCEPT ![p] = NoEntry]
  /\ Goto(p, "loop")
  /\ UNCHANGED <<setup, delayed, stream, lastRead, nextId, due, batch, used, sent, stranded>>

(* The loop ends: what is left of the batch stays in the pending list.     *)
Return(p) ==
  /\ pc[p] = "loop"
  /\ ShouldStop(p)
  /\ Goto(p, "returned")
  /\ batch' = [batch EXCEPT ![p] = {}]
  /\ UNCHANGED <<setup, redisVars, due, hand, closeVars, used, historyVars>>

(* The connection is closed: get() throws, what it had popped is gone.     *)
Refused(p) ==
  /\ pc[p] \in LoopCommands
  /\ closing[p] # "open" /\ ~Accepted(p)
  /\ Goto(p, "returned")
  /\ stranded' = stranded \union {d.msg : d \in due[p]}
  /\ due' = [due EXCEPT ![p] = {}]
  /\ batch' = [batch EXCEPT ![p] = {}]
  /\ hand' = [hand EXCEPT ![p] = NoEntry]
  /\ UNCHANGED <<setup, redisVars, closeVars, used, sent, done>>

-----------------------------------------------------------------------------
(* Settlement                                                              *)

InFlight(p) == IF pc[p] = "handle" THEN {hand[p].id} ELSE {}

(* releaseInFlight(): close() goes on once the registry is empty.          *)
Release(p) ==
  /\ closing' = [closing EXCEPT ![p] = IF @ = "draining" THEN "flushing" ELSE @]
  /\ UNCHANGED <<left, aborted>>

(* ack(): released, then XACK ...                                          *)
Ack(p) ==
  /\ pc[p] = "handle"
  /\ Release(p)
  /\ done' = done \union {hand[p].msg}
  /\ Goto(p, "xack")
  /\ UNCHANGED <<setup, redisVars, due, batch, hand, used, sent, stranded>>

(* reject(): released, then a copy is enqueued, delayed again if it was,   *)
(* and only then the original is acknowledged.                             *)
Reject(p) ==
  /\ pc[p] = "handle"
  /\ used.rejects < setup.maxRejects
  /\ used' = [used EXCEPT !.rejects = @ + 1]
  /\ Release(p)
  /\ Enqueue(hand[p].msg)
  /\ Goto(p, "xack")
  /\ UNCHANGED <<setup, lastRead, pending, idle, due, batch, hand, historyVars>>

(* acknowledge(): XACK, a no-op for an entry that is settled already ...   *)
Xack(p) ==
  /\ pc[p] = "xack"
  /\ pending' = pending \ {hand[p].id}
  /\ idle' = idle \ {hand[p].id}
  /\ Goto(p, "xdel")
  /\ UNCHANGED <<setup, delayed, stream, lastRead, nextId, due, batch, hand,
                 closeVars, used, historyVars>>

(* ... and then XDEL.                                                      *)
Xdel(p) ==
  /\ pc[p] = "xdel"
  /\ stream' = {e \in stream : e.id # hand[p].id}
  /\ hand' = [hand EXCEPT ![p] = NoEntry]
  /\ Goto(p, IF p \in Worker THEN "loop" ELSE "locate")
  /\ UNCHANGED <<setup, delayed, lastRead, pending, idle, nextId, due, batch,
                 closeVars, used, historyVars>>

(* An operator locates an entry, one that can be decoded, and removes it:  *)
(* ack() of a transport that never delivered it.                           *)
Locate(p) ==
  /\ pc[p] = "locate" /\ closing[p] = "open"
  /\ \E e \in stream :
       /\ e.msg \notin Foreign
       /\ hand' = [hand EXCEPT ![p] = e]
       /\ done' = done \union {e.msg}
  /\ Goto(p, "xack")
  /\ UNCHANGED <<setup, redisVars, due, batch, closeVars, used, sent, stranded>>

-----------------------------------------------------------------------------
(* Shutdown, crashes, time                                                 *)

Abort(p) ==
  /\ Alive(p) /\ ~ShouldStop(p)
  /\ aborted' = [aborted EXCEPT ![p] = TRUE]
  /\ UNCHANGED <<setup, redisVars, localVars, closing, left, used, historyVars>>

(* close(): waits for the delivery in flight, then for what is pending at  *)
(* that moment, then quits.                                                *)
Close(p) ==
  /\ closing[p] = "open" /\ Alive(p)
  /\ closing' = [closing EXCEPT ![p] = IF InFlight(p) = {} THEN "flushing" ELSE "draining"]
  /\ left' = [left EXCEPT ![p] = IF pc[p] \in LoopCommands THEN 2 ELSE 0]
  /\ UNCHANGED <<setup, redisVars, localVars, aborted, used, historyVars>>

Quit(p) ==
  /\ closing[p] = "flushing"
  /\ pc[p] \notin SettleCommands \union {"crashed"}
  /\ pc[p] \in LoopCommands => ~Accepted(p)
  /\ closing' = [closing EXCEPT ![p] = "closed"]
  /\ left' = [left EXCEPT ![p] = 0]
  /\ UNCHANGED <<setup, redisVars, localVars, aborted, used, historyVars>>

Holds(p, id) ==
  \/ \E e \in batch[p] : e.id = id
  \/ hand[p] # NoEntry /\ hand[p].id = id

(* claimIdleMs passes for a pending entry: its consumer is gone, or is     *)
(* alive and has not come to it, or is still at it.                        *)
GoIdle(id) ==
  /\ id \in pending \ idle
  /\ IF \E p \in Process : Holds(p, id)
       THEN used.slow < setup.maxSlow /\ used' = [used EXCEPT !.slow = @ + 1]
       ELSE UNCHANGED used
  /\ idle' = idle \union {id}
  /\ UNCHANGED <<setup, delayed, stream, lastRead, pending, nextId, localVars, closeVars, historyVars>>

Crash(p) ==
  /\ Alive(p) /\ closing[p] # "closed"
  /\ used.crashes < setup.maxCrashes
  /\ used' = [used EXCEPT !.crashes = @ + 1]
  /\ Goto(p, "crashed")
  /\ stranded' = stranded \union {d.msg : d \in due[p]}
  /\ due' = [due EXCEPT ![p] = {}]
  /\ batch' = [batch EXCEPT ![p] = {}]
  /\ hand' = [hand EXCEPT ![p] = NoEntry]
  /\ UNCHANGED <<setup, redisVars, closeVars, sent, done>>

(* A new process takes its place, under a new consumer name.               *)
Restart(p) ==
  /\ pc[p] = "crashed"
  /\ Goto(p, Start(p))
  /\ closing' = [closing EXCEPT ![p] = "open"]
  /\ left' = [left EXCEPT ![p] = 0]
  /\ aborted' = [aborted EXCEPT ![p] = FALSE]
  /\ UNCHANGED <<setup, redisVars, due, batch, hand, used, historyVars>>

Looping(p) == \/ Poll(p) \/ Drain(p) \/ Append(p) \/ Reclaim(p) \/ Read(p)
              \/ Yield(p) \/ Discard(p) \/ Return(p) \/ Refused(p)

Settling(p) == Ack(p) \/ Reject(p) \/ Xack(p) \/ Xdel(p)

Next ==
  \/ \E m \in Message : Send(m)
  \/ \E d \in delayed : BecomeDue(d)
  \/ \E p \in Process : Looping(p) \/ Settling(p)
  \/ \E p \in Operator : Locate(p)
  \/ \E p \in Worker : Abort(p) \/ Close(p)
  \/ \E p \in Process : Quit(p) \/ Crash(p) \/ Restart(p)
  \/ \E id \in pending : GoIdle(id)

Spec == Init /\ [][Next]_vars

(* Fairness: each process runs on, settles what it holds and is restarted  *)
(* after a crash; due times come, and entries nobody settles become idle.  *)
Fairness ==
  /\ \A p \in Process : WF_vars(Looping(p)) /\ WF_vars(Settling(p))
                          /\ WF_vars(Quit(p)) /\ WF_vars(Restart(p))
  /\ WF_vars(\E d \in delayed : BecomeDue(d))
  /\ WF_vars(\E id \in pending : GoIdle(id))

FairSpec == Spec /\ Fairness

-----------------------------------------------------------------------------
(* Safety                                                                  *)

(* An entry the group will still deliver: not read yet, or pending.        *)
Deliverable(e) == e.id > lastRead \/ e.id \in pending

(* A message that was sent and is not done is in Redis where the group     *)
(* will find it, or between the sorted set and the stream in a process; it *)
(* can only get lost in that gap, whatever crashes, closes and is claimed. *)
NoLoss ==
  \A m \in sent \ (done \union stranded) :
    \/ \E d \in delayed : d.msg = m
    \/ \E e \in stream : e.msg = m /\ Deliverable(e)
    \/ \E p \in Process : \E d \in due[p] : d.msg = m

(* As long as no live consumer lets an entry go idle, no entry is with two *)
(* processes, crashed ones and closed ones included.                       *)
ExclusiveWhilePrompt ==
  used.slow = 0 =>
    \A p, q \in Worker : \A id \in pending : Holds(p, id) /\ Holds(q, id) => p = q

(* Once close() resolved, the process has no delivery: neither one it has  *)
(* not settled nor, later, a new one whose settlement would find the       *)
(* connection closed.                                                      *)
ClosedHoldsNothing ==
  \A p \in Process :
    closing[p] = "closed" => pc[p] \notin {"handle"} \union SettleCommands

-----------------------------------------------------------------------------
(* What the documentation says and the code does not do                    *)

(* README: delayed messages are atomically promoted to the stream.  A      *)
(* graceful close() must not lose one.                                     *)
PromotedAtomically == stranded = {}

-----------------------------------------------------------------------------
(* Liveness                                                                *)

(* From some point on, every message that was sent is settled or lost in   *)
(* the gap, unless every process stops consuming.                          *)
Settles ==
  <>[](sent \subseteq done \union stranded \/ \A p \in setup.processes \intersect Worker : ShouldStop(p))
=============================================================================
