---------------------------- MODULE SqlTransport ----------------------------
(***************************************************************************)
(* The SQL transport (packages/transport-sql) below the level of Messenger:*)
(* its get() loops, the driver they wait in, close().  Every process has   *)
(* one transport instance with one or more get() loops; the table is       *)
(* shared.  A statement or a transaction is one step of the database, and  *)
(* what the process makes of the reply is another: in between, other       *)
(* statements, notifications, aborts and close() run.                      *)
(*                                                                         *)
(* With Notify the driver is PostgreSQL's, whose idle loops wait for a     *)
(* NOTIFY on a connection of its own; without, it sleeps and polls, as     *)
(* MySQL's does.  The worker of a loop settles each message before it asks *)
(* for the next (worker.ts); when it stops with an error the application   *)
(* may start it again, on the same instance.                               *)
(***************************************************************************)
EXTENDS Naturals

CONSTANTS
  Process,            \* the processes, each with its own transport instance
  Consumer,           \* the get() loops, each settled by its own worker
  Message,            \* the messages; each is sent once
  NoRow,              \* "nothing in hand"
  Setups              \* the deployments that are looked at

(* A deployment: the loops there are and the process each runs in;         *)
(* useNotify; the messages                                                 *)
(* sent, those of them that carry a DelayStamp and those that cannot be    *)
(* decoded; and the bounds: on reject(), on troubles, which are crashes,   *)
(* statements and connections that fail, and on rows whose redeliver       *)
(* timeout passes under a live consumer.                                   *)
ASSUME SetupsAssumption ==
  \A s \in Setups :
    /\ s.loops \subseteq Consumer /\ s.home \in [Consumer -> Process]
    /\ s.notify \in BOOLEAN
    /\ s.messages \subseteq Message
    /\ s.delayed \subseteq s.messages /\ s.foreign \subseteq s.messages
    /\ s.maxRejects \in Nat /\ s.maxTroubles \in Nat /\ s.maxSlow \in Nat

VARIABLES
  setup,              \* the deployment: chosen once
  rows,               \* the table
  nextId,             \* its identity column
  incoming,           \* [Process -> notifications on their way to it]
  schema,             \* [Process -> its memo of CREATE TABLE]
  listener,           \* [Process -> its LISTEN connection]
  notified,           \* [Process -> a notification was remembered]
  closing,            \* [Process -> how far close() is]
  awaited,            \* [Process -> loops whose statement close() waits for]
  pc,                 \* [Consumer -> where its loop or its worker is]
  hand,               \* [Consumer -> the row it has]
  aborted,            \* [Consumer -> its AbortSignal]
  used,               \* how much of each bound is used
  sent,               \* history: messages that were stored
  done,               \* history: messages acked, or discarded
  late                \* history: loops that were given a row after close()
                      \* had stopped waiting for deliveries

tableVars   == <<rows, nextId>>
driverVars  == <<schema, listener, notified, incoming>>
historyVars == <<sent, done, late>>
vars == <<setup, tableVars, driverVars, closing, awaited, pc, hand, aborted, used, historyVars>>

home    == setup.home
Delayed == setup.delayed
Foreign == setup.foreign

Row == [id : Nat, msg : Message, due : BOOLEAN, held : BOOLEAN]

(* A statement of the loop or of its worker that was given to the pool.    *)
Statements == {"claim", "claimed", "delete", "redeliver", "discard"}

(* What close() finds in its set of pending promises.                      *)
Pending == Statements \union {"schema"}

(* A waiter of the driver: napping when a row is expected soon.            *)
Waiting == {"waiting", "napping"}

(* Type invariant.                                                         *)
TypeOK ==
  /\ setup \in Setups
  /\ rows \subseteq Row /\ nextId \in Nat
  /\ incoming \in [Process -> Nat]
  /\ schema \in [Process -> {"none", "running", "done"}]
  /\ listener \in [Process -> {"none", "connecting", "listening", "broken", "ended"}]
  /\ notified \in [Process -> BOOLEAN]
  /\ closing \in [Process -> {"open", "draining", "flushing", "listener", "pool", "closed"}]
  /\ awaited \in [Process -> SUBSET Consumer]
  /\ pc \in [Consumer -> {"loop", "handle", "listen", "peek", "sawSome", "sawNone",
                          "polling", "returned", "threw", "crashed"}
                            \union Pending \union Waiting]
  /\ hand \in [Consumer -> [id : Nat, msg : Message] \union {NoRow}]
  /\ aborted \in [Consumer -> BOOLEAN]
  /\ used \in [{"rejects", "troubles", "slow"} -> Nat]
  /\ sent \subseteq Message /\ done \subseteq Message /\ late \subseteq Consumer
  /\ \A c \in Consumer : hand[c] # NoRow => pc[c] \in Statements \union {"handle"}

Init ==
  /\ setup \in Setups
  /\ rows = {} /\ nextId = 1
  /\ incoming = [p \in Process |-> 0]
  /\ schema = [p \in Process |-> "none"]
  /\ listener = [p \in Process |-> "none"]
  /\ notified = [p \in Process |-> FALSE]
  /\ closing = [p \in Process |-> "open"]
  /\ awaited = [p \in Process |-> {}]
  /\ pc = [c \in Consumer |-> IF c \in setup.loops THEN "loop" ELSE "returned"]
  /\ hand = [c \in Consumer |-> NoRow]
  /\ aborted = [c \in Consumer |-> FALSE]
  /\ used = [b \in {"rejects", "troubles", "slow"} |-> 0]
  /\ sent = {} /\ done = {} /\ late = {}

At(p)    == {c \in setup.loops : home[c] = p}
Alive(p) == At(p) # {} /\ \A c \in At(p) : pc[c] # "crashed"

Spend(bound, limit) == used[bound] < limit /\ used' = [used EXCEPT ![bound] = @ + 1]
Trouble == Spend("troubles", setup.maxTroubles)

(* pool.end() was called: the pool takes no more statements.               *)
PoolEnded(p) == closing[p] \in {"pool", "closed"}

ShouldStop(c) == aborted[c] \/ closing[home[c]] # "open"

(* c goes on at the label, with row e in hand.                             *)
GoWith(c, label, e) ==
  /\ pc' = [pc EXCEPT ![c] = label]
  /\ hand' = [hand EXCEPT ![c] = e]

Goto(c, label) == GoWith(c, label, hand[c])

(* The loops of S go on at the label.                                      *)
SendTo(S, label) == pc' = [c \in Consumer |-> IF c \in S THEN label ELSE pc[c]]

(* The promise close() may be waiting for is settled.                      *)
Resolved(c) == awaited' = [awaited EXCEPT ![home[c]] = @ \ {c}]

-----------------------------------------------------------------------------
(* The table                                                               *)

(* A new row; whoever listens is notified when it is committed.            *)
Insert(m, others) ==
  /\ rows' = others \union {[id |-> nextId, msg |-> m, due |-> m \notin Delayed, held |-> FALSE]}
  /\ nextId' = nextId + 1
  /\ incoming' = [p \in Process |->
                    IF listener[p] = "listening" THEN incoming[p] + 1 ELSE incoming[p]]

(* send(), by a process whose transport is open and whose schema is set up.*)
Send(m) ==
  /\ m \in setup.messages \ sent
  /\ \E p \in Process : closing[p] = "open" /\ Alive(p)
  /\ Insert(m, rows)
  /\ sent' = sent \union {m}
  /\ UNCHANGED <<setup, schema, listener, notified, closing, awaited, pc, hand, aborted,
                 used, done, late>>

Claimable(r) == r.due /\ ~r.held

(* available_at is reached.                                                *)
BecomeDue(r) ==
  /\ ~r.due
  /\ rows' = (rows \ {r}) \union {[r EXCEPT !.due = TRUE]}
  /\ UNCHANGED <<setup, nextId, driverVars, closing, awaited, pc, hand, aborted, used,
                 historyVars>>

Holds(c, id) == hand[c] # NoRow /\ hand[c].id = id

(* The redeliver timeout of a claimed row passes.                          *)
Expire(r) ==
  /\ r.held
  /\ IF \E c \in Consumer : Holds(c, r.id) THEN Spend("slow", setup.maxSlow) ELSE UNCHANGED used
  /\ rows' = (rows \ {r}) \union {[r EXCEPT !.held = FALSE]}
  /\ UNCHANGED <<setup, nextId, driverVars, closing, awaited, pc, hand, aborted, historyVars>>

-----------------------------------------------------------------------------
(* The get() loop: setup, claim, then yield, discard or wait               *)

(* The schema is set up once per instance, and then a row is claimed.      *)
Poll(c) ==
  LET p == home[c] IN
  /\ pc[c] = "loop" /\ ~ShouldStop(c)
  /\ Goto(c, IF schema[p] = "done" THEN "claim" ELSE "schema")
  /\ schema' = [schema EXCEPT ![p] = IF @ = "none" THEN "running" ELSE @]
  /\ UNCHANGED <<setup, tableVars, listener, notified, incoming, closing, awaited, aborted,
                 used, historyVars>>

SettingUp(p) == {c \in At(p) : pc[c] = "schema"}

(* CREATE TABLE IF NOT EXISTS succeeds: the loops that wait for it claim,  *)
(* without another look at the closing flag.                               *)
SchemaDone(p) ==
  /\ schema[p] = "running"
  /\ schema' = [schema EXCEPT ![p] = "done"]
  /\ SendTo(SettingUp(p), "claim")
  /\ awaited' = [awaited EXCEPT ![p] = @ \ SettingUp(p)]
  /\ UNCHANGED <<setup, tableVars, listener, notified, incoming, closing, hand, aborted,
                 used, historyVars>>

(* It fails: get() throws, and the memo is cleared for the next one.       *)
SchemaFails(p) ==
  /\ schema[p] = "running"
  /\ Trouble
  /\ schema' = [schema EXCEPT ![p] = "none"]
  /\ SendTo(SettingUp(p), "threw")
  /\ awaited' = [awaited EXCEPT ![p] = @ \ SettingUp(p)]
  /\ UNCHANGED <<setup, tableVars, listener, notified, incoming, closing, hand, aborted,
                 historyVars>>

(* Mutant of MayClaim: a claimed row is claimed again.                     *)
MayClaimHeld(r) == r.due /\ \A o \in rows : o.due => r.id <= o.id

(* ORDER BY available_at, id; how the due times of delayed messages        *)
(* compare with those of others is left open.                              *)
MayClaim(r) ==
  /\ Claimable(r)
  /\ \A o \in rows : Claimable(o) /\ {o.msg, r.msg} \intersect Delayed = {} => r.id <= o.id

(* The database executes the claim ...                                     *)
Claim(c) ==
  /\ pc[c] = "claim"
  /\ \/ \E r \in rows :
          /\ MayClaim(r)
          /\ rows' = (rows \ {r}) \union {[r EXCEPT !.held = TRUE]}
          /\ GoWith(c, "claimed", [id |-> r.id, msg |-> r.msg])
     \/ /\ \A r \in rows : ~Claimable(r)
        /\ GoWith(c, "claimed", NoRow)
        /\ UNCHANGED rows
  /\ UNCHANGED <<setup, nextId, driverVars, closing, awaited, aborted, used, historyVars>>

(* ... and the row it returned is registered in flight and yielded, or     *)
(* deleted when it cannot be decoded; again the closing flag is not looked *)
(* at.                                                                     *)
Yield(c) ==
  /\ pc[c] = "claimed" /\ hand[c] # NoRow
  /\ Resolved(c)
  /\ Goto(c, IF hand[c].msg \in Foreign THEN "discard" ELSE "handle")
  /\ late' = IF closing[home[c]] \in {"open", "draining"} THEN late ELSE late \union {c}
  /\ UNCHANGED <<setup, tableVars, driverVars, closing, aborted, used, sent, done>>

(* The claim or the deletion of a poison row fails: get() throws.  A claim *)
(* may have had its effect.                                                *)
LoopFails(c) ==
  /\ pc[c] \in {"claimed", "discard"}
  /\ Trouble
  /\ Resolved(c)
  /\ GoWith(c, "threw", NoRow)
  /\ UNCHANGED <<setup, tableVars, driverVars, closing, aborted, historyVars>>

Without(id) == {r \in rows : r.id # id}

(* Mutant of Discard: the poison row stays registered.                     *)
DiscardHeld(c) ==
  /\ pc[c] = "discard"
  /\ rows' = Without(hand[c].id)
  /\ Resolved(c)
  /\ done' = done \union {hand[c].msg}
  /\ Goto(c, "loop")
  /\ UNCHANGED <<setup, nextId, driverVars, closing, aborted, used, sent, late>>

Discard(c) ==
  /\ pc[c] = "discard"
  /\ rows' = Without(hand[c].id)
  /\ Resolved(c)
  /\ done' = done \union {hand[c].msg}
  /\ GoWith(c, "loop", NoRow)
  /\ UNCHANGED <<setup, nextId, driverVars, closing, aborted, used, sent, late>>

Return(c) ==
  /\ pc[c] = "loop" /\ ShouldStop(c)
  /\ Goto(c, "returned")
  /\ UNCHANGED <<setup, tableVars, driverVars, closing, awaited, aborted, used, historyVars>>

(* The application starts its worker again.                                *)
Rerun(c) ==
  /\ pc[c] = "threw" /\ closing[home[c]] = "open"
  /\ Goto(c, "loop")
  /\ UNCHANGED <<setup, tableVars, driverVars, closing, awaited, aborted, used, historyVars>>

-----------------------------------------------------------------------------
(* waitForMessage()                                                        *)

(* Nothing to claim.  A notification that was remembered is used up by the *)
(* next poll; where there is no LISTEN connection the loop sleeps.         *)
Wait(c) ==
  LET p == home[c] IN
  /\ pc[c] = "claimed" /\ hand[c] = NoRow
  /\ Resolved(c)
  /\ notified' = [notified EXCEPT ![p] = FALSE]
  /\ \/ /\ notified[p]
        /\ Goto(c, "loop")
        /\ UNCHANGED listener
     \/ /\ ~notified[p] /\ (~setup.notify \/ listener[p] = "broken")
        /\ Goto(c, "polling")
        /\ UNCHANGED listener
     \/ /\ ~notified[p] /\ setup.notify /\ listener[p] \in {"none", "connecting"}
        /\ Goto(c, "listen")
        /\ listener' = [listener EXCEPT ![p] = "connecting"]
     \/ /\ ~notified[p] /\ setup.notify /\ listener[p] \in {"listening", "ended"}
        /\ Goto(c, IF PoolEnded(p) THEN "waiting" ELSE "peek")
        /\ UNCHANGED listener
  /\ UNCHANGED <<setup, tableVars, schema, incoming, closing, aborted, used, historyVars>>

Listening(p) == {c \in At(p) : pc[c] = "listen"}

(* LISTEN: from here on insertions are notified.                           *)
ListenerUp(p) ==
  /\ listener[p] = "connecting"
  /\ listener' = [listener EXCEPT ![p] = "listening"]
  /\ SendTo(Listening(p), IF PoolEnded(p) THEN "waiting" ELSE "peek")
  /\ UNCHANGED <<setup, tableVars, schema, notified, incoming, closing, awaited, hand,
                 aborted, used, historyVars>>

ListenerFails(p) ==
  /\ listener[p] = "connecting"
  /\ Trouble
  /\ listener' = [listener EXCEPT ![p] = "broken"]
  /\ SendTo(Listening(p), "polling")
  /\ UNCHANGED <<setup, tableVars, schema, notified, incoming, closing, awaited, hand,
                 aborted, historyVars>>

Waiters(p) == {c \in At(p) : pc[c] \in Waiting}

(* abandonListener(): all are woken, and sleep from now on.                *)
ListenerDies(p) ==
  /\ listener[p] = "listening"
  /\ Trouble
  /\ listener' = [listener EXCEPT ![p] = "broken"]
  /\ incoming' = [incoming EXCEPT ![p] = 0]
  /\ SendTo(Waiters(p), "loop")
  /\ UNCHANGED <<setup, tableVars, schema, notified, closing, awaited, hand, aborted,
                 historyVars>>

(* onNotification(): remembered, and all waiters are woken.                *)
Notification(p) ==
  /\ listener[p] = "listening" /\ incoming[p] > 0
  /\ incoming' = [incoming EXCEPT ![p] = @ - 1]
  /\ notified' = [notified EXCEPT ![p] = TRUE]
  /\ SendTo(Waiters(p), "loop")
  /\ UNCHANGED <<setup, tableVars, schema, listener, closing, awaited, hand, aborted, used,
                 historyVars>>

(* nextAvailableInMs(): the database looks for a row that is not claimed,  *)
(* due or not; a failure is taken for none ...                             *)
Peek(c) ==
  /\ pc[c] = "peek"
  /\ Goto(c, IF \E r \in rows : ~r.held THEN "sawSome" ELSE "sawNone")
  /\ UNCHANGED <<setup, tableVars, driverVars, closing, awaited, aborted, used, historyVars>>

(* ... and the waiter is registered, with a timer until the row is due or  *)
(* else of getNotifyTimeoutMs; unless the signal was aborted meanwhile.    *)
Register(c) ==
  /\ pc[c] \in {"sawSome", "sawNone"}
  /\ Goto(c, IF aborted[c] THEN "loop" ELSE IF pc[c] = "sawSome" THEN "napping" ELSE "waiting")
  /\ UNCHANGED <<setup, tableVars, driverVars, closing, awaited, aborted, used, historyVars>>

(* Mutant of Timer: a waiter has no timer.                                 *)
TimerOfPollsOnly(c) ==
  /\ pc[c] = "polling"
  /\ Goto(c, "loop")
  /\ UNCHANGED <<setup, tableVars, driverVars, closing, awaited, aborted, used, historyVars>>

(* The timer of a wait fires.                                              *)
Timer(c) ==
  /\ pc[c] \in Waiting \union {"polling"}
  /\ Goto(c, "loop")
  /\ UNCHANGED <<setup, tableVars, driverVars, closing, awaited, aborted, used, historyVars>>

Abort(c) ==
  /\ ~ShouldStop(c) /\ pc[c] \notin {"crashed", "returned"}
  /\ aborted' = [aborted EXCEPT ![c] = TRUE]
  /\ pc' = [pc EXCEPT ![c] = IF @ \in Waiting \union {"polling"} THEN "loop" ELSE @]
  /\ UNCHANGED <<setup, tableVars, driverVars, closing, awaited, hand, used, historyVars>>

-----------------------------------------------------------------------------
(* Settlement                                                              *)

InFlight(p) == {c \in At(p) : pc[c] = "handle"}
Calling(p)  == {c \in At(p) : pc[c] \in Pending}

(* Mutant of Release: whether it was the last is asked before it is gone.  *)
ReleaseTooEarly(c) ==
  LET drained == closing[home[c]] = "draining" /\ InFlight(home[c]) = {} IN
  /\ closing' = [closing EXCEPT ![home[c]] = IF drained THEN "flushing" ELSE @]
  /\ awaited' = [awaited EXCEPT ![home[c]] = IF drained THEN Calling(home[c]) \union {c} ELSE @]

(* releaseInFlight(), and the statement that settles c becomes pending:    *)
(* close() goes on once the registry is empty, and waits for what is       *)
(* pending then.                                                           *)
Release(c) ==
  LET drained == closing[home[c]] = "draining" /\ InFlight(home[c]) = {c} IN
  /\ closing' = [closing EXCEPT ![home[c]] = IF drained THEN "flushing" ELSE @]
  /\ awaited' = [awaited EXCEPT ![home[c]] = IF drained THEN Calling(home[c]) \union {c} ELSE @]

(* ack() and reject(): the statement is issued, or refused by a pool that  *)
(* has ended; the row is then left to its redeliver timeout.               *)
Settle(c, label) ==
  /\ pc[c] = "handle"
  /\ IF PoolEnded(home[c]) THEN GoWith(c, "threw", NoRow) ELSE Goto(c, label)
  /\ Release(c)
  /\ UNCHANGED <<setup, tableVars, driverVars, aborted, sent, late>>

Ack(c) ==
  /\ Settle(c, "delete")
  /\ done' = done \union {hand[c].msg}
  /\ UNCHANGED used

Reject(c) ==
  /\ Settle(c, "redeliver")
  /\ Spend("rejects", setup.maxRejects)
  /\ UNCHANGED done

(* The database deletes the row.                                           *)
Delete(c) ==
  /\ pc[c] = "delete"
  /\ rows' = Without(hand[c].id)
  /\ Resolved(c)
  /\ GoWith(c, "loop", NoRow)
  /\ UNCHANGED <<setup, nextId, driverVars, closing, aborted, used, historyVars>>

(* Mutant of Redeliver: the original is deleted, its copy not inserted.    *)
RedeliverDeletes(c) ==
  /\ pc[c] = "redeliver"
  /\ rows' = Without(hand[c].id)
  /\ Resolved(c)
  /\ GoWith(c, "loop", NoRow)
  /\ UNCHANGED <<setup, nextId, driverVars, closing, aborted, used, historyVars>>

(* It inserts the copy and deletes the original, in one transaction.       *)
Redeliver(c) ==
  /\ pc[c] = "redeliver"
  /\ Insert(hand[c].msg, Without(hand[c].id))
  /\ Resolved(c)
  /\ GoWith(c, "loop", NoRow)
  /\ UNCHANGED <<setup, schema, listener, notified, closing, aborted, used, historyVars>>

(* The settlement fails, after the transient retries; it may have had its  *)
(* effect.  The worker stops.                                              *)
SettlementFails(c) ==
  /\ pc[c] \in {"delete", "redeliver"}
  /\ Trouble
  /\ \/ UNCHANGED <<rows, nextId, incoming>>
     \/ /\ pc[c] = "delete"
        /\ rows' = Without(hand[c].id) /\ UNCHANGED <<nextId, incoming>>
     \/ /\ pc[c] = "redeliver"
        /\ Insert(hand[c].msg, Without(hand[c].id))
  /\ Resolved(c)
  /\ GoWith(c, "threw", NoRow)
  /\ UNCHANGED <<setup, schema, listener, notified, closing, aborted, historyVars>>

-----------------------------------------------------------------------------
(* close(), crashes                                                        *)

(* Mutant of Close: the registry is not waited for.                        *)
CloseAtOnce(p) ==
  /\ closing[p] = "open" /\ Alive(p)
  /\ closing' = [closing EXCEPT ![p] = "flushing"]
  /\ awaited' = [awaited EXCEPT ![p] = Calling(p)]
  /\ UNCHANGED <<setup, tableVars, driverVars, pc, hand, aborted, used, historyVars>>

(* The deliveries in flight are waited for, then what is pending at that   *)
(* moment.                                                                 *)
Close(p) ==
  /\ closing[p] = "open" /\ Alive(p)
  /\ IF InFlight(p) = {}
       THEN /\ closing' = [closing EXCEPT ![p] = "flushing"]
            /\ awaited' = [awaited EXCEPT ![p] = Calling(p)]
       ELSE /\ closing' = [closing EXCEPT ![p] = "draining"]
            /\ UNCHANGED awaited
  /\ UNCHANGED <<setup, tableVars, driverVars, pc, hand, aborted, used, historyVars>>

(* driver.close(): the waiters are woken, the LISTEN connection is ended   *)
(* if there is one, and then the pool.                                     *)
CloseDriver(p) ==
  /\ closing[p] = "flushing" /\ Alive(p)
  /\ awaited[p] = {}
  /\ closing' = [closing EXCEPT ![p] = IF listener[p] = "none" THEN "pool" ELSE "listener"]
  /\ SendTo(Waiters(p), "loop")
  /\ UNCHANGED <<setup, tableVars, driverVars, awaited, hand, aborted, used, historyVars>>

EndListener(p) ==
  /\ closing[p] = "listener" /\ Alive(p)
  /\ listener[p] # "connecting"
  /\ closing' = [closing EXCEPT ![p] = "pool"]
  /\ listener' = [listener EXCEPT ![p] = IF @ = "listening" THEN "ended" ELSE @]
  /\ incoming' = [incoming EXCEPT ![p] = 0]
  /\ UNCHANGED <<setup, tableVars, schema, notified, awaited, pc, hand, aborted, used,
                 historyVars>>

(* pool.end() resolves when every statement it was given has returned.     *)
PoolCloses(p) ==
  /\ closing[p] = "pool" /\ Alive(p)
  /\ \A c \in At(p) : pc[c] \notin Pending \union {"peek"}
  /\ closing' = [closing EXCEPT ![p] = "closed"]
  /\ UNCHANGED <<setup, tableVars, driverVars, awaited, pc, hand, aborted, used, historyVars>>

Crash(p) ==
  /\ Alive(p) /\ closing[p] # "closed"
  /\ Trouble
  /\ SendTo(At(p), "crashed")
  /\ hand' = [c \in Consumer |-> IF c \in At(p) THEN NoRow ELSE hand[c]]
  /\ schema' = [schema EXCEPT ![p] = "none"]
  /\ listener' = [listener EXCEPT ![p] = "none"]
  /\ notified' = [notified EXCEPT ![p] = FALSE]
  /\ incoming' = [incoming EXCEPT ![p] = 0]
  /\ awaited' = [awaited EXCEPT ![p] = {}]
  /\ UNCHANGED <<setup, tableVars, closing, aborted, historyVars>>

(* A new process with a new instance.                                      *)
Restart(p) ==
  /\ \E c \in At(p) : pc[c] = "crashed"
  /\ SendTo(At(p), "loop")
  /\ closing' = [closing EXCEPT ![p] = "open"]
  /\ aborted' = [c \in Consumer |-> IF c \in At(p) THEN FALSE ELSE aborted[c]]
  /\ late' = late \ At(p)
  /\ UNCHANGED <<setup, tableVars, driverVars, awaited, hand, used, sent, done>>

-----------------------------------------------------------------------------
Looping(c) ==
  \/ Poll(c) \/ Claim(c) \/ Yield(c) \/ Discard(c) \/ Return(c) \/ Rerun(c)
  \/ Wait(c) \/ Peek(c) \/ Register(c) \/ Timer(c)

Settling(c) == Ack(c) \/ Reject(c) \/ Delete(c) \/ Redeliver(c)

Connecting(p) == SchemaDone(p) \/ ListenerUp(p) \/ Notification(p)
Closing(p)    == CloseDriver(p) \/ EndListener(p) \/ PoolCloses(p)

Next ==
  \/ \E m \in Message : Send(m)
  \/ \E r \in rows : BecomeDue(r) \/ Expire(r)
  \/ \E c \in Consumer : Looping(c) \/ Settling(c) \/ Abort(c)
  \/ \E c \in Consumer : LoopFails(c) \/ SettlementFails(c)
  \/ \E p \in Process : Connecting(p) \/ Closing(p) \/ Close(p)
  \/ \E p \in Process : SchemaFails(p) \/ ListenerFails(p) \/ ListenerDies(p)
  \/ \E p \in Process : Crash(p) \/ Restart(p)

Spec == Init /\ [][Next]_vars

(* Fairness: statements and connections that do not fail are answered,     *)
(* timers fire, due times and redeliver timeouts come, workers settle what *)
(* they hold and are started again; close() goes on when it can.           *)
Fairness ==
  /\ \A c \in Consumer : WF_vars(Looping(c)) /\ WF_vars(Settling(c))
  /\ \A p \in Process : /\ WF_vars(SchemaDone(p)) /\ WF_vars(ListenerUp(p))
                        /\ WF_vars(Closing(p)) /\ WF_vars(Restart(p))
  /\ WF_vars(\E r \in rows : BecomeDue(r))
  /\ WF_vars(\E r \in rows : Expire(r))

FairSpec == Spec /\ Fairness

-----------------------------------------------------------------------------
(* Safety                                                                  *)

(* At least once: a message that was stored and not acknowledged is in the *)
(* table, through failed statements, crashes, close() and expired rows.    *)
NoLoss == \A m \in sent \ done : \E r \in rows : r.msg = m

(* SKIP LOCKED and delivered_at: unless a row expires under the consumer   *)
(* that has it, no row is with two consumers, of one instance or of two.   *)
NotClaimedTwice ==
  used.slow = 0 =>
    \A c, d \in Consumer : hand[c] # NoRow /\ hand[d] = hand[c] => c = d

(* Once close() resolved no delivery is unsettled and no settlement under  *)
(* way, but for loops whose claim returned a row when close() had already  *)
(* stopped waiting for deliveries.                                         *)
ClosedIsDrainedButLate ==
  \A c \in Consumer :
    closing[home[c]] = "closed" /\ pc[c] \in {"handle", "delete", "redeliver"} => c \in late

-----------------------------------------------------------------------------
(* What the documentation says and the code does not do                    *)

(* transport.interface.ts: close() MUST wait for in-flight ack/reject to   *)
(* settle before resolving; it also releases the connection they need.     *)
ClosedIsDrained ==
  \A c \in Consumer :
    closing[home[c]] = "closed" => pc[c] \notin {"handle", "delete", "redeliver"}

(* postgres.driver.ts: a notification that arrives while the consumer is   *)
(* busy must not be lost.  A waiter for up to getNotifyTimeoutMs is only   *)
(* registered where none is remembered, unless its message is gone.        *)
NotificationNotLost ==
  \A c \in Consumer :
    pc[c] = "waiting" /\ notified[home[c]] => \A r \in rows : ~Claimable(r)

(* driver.ts: waitForMessage MUST resolve promptly on close.               *)
NoWaitAfterClose ==
  \A c \in Consumer : closing[home[c]] = "closed" => pc[c] \notin Waiting

-----------------------------------------------------------------------------
(* Liveness                                                                *)

(* close() resolves and the loops end, whatever is in flight or waited for *)
(* when it is called.                                                      *)
CloseResolves ==
  <>[](\A p \in Process :
         closing[p] # "open" =>
           closing[p] = "closed" /\ \A c \in At(p) : pc[c] \in {"returned", "threw"})

(* From some point on, every message that was stored is settled, unless    *)
(* every loop stops: lost notifications, a dead LISTEN connection, a       *)
(* database that is not there yet and crashed consumers only delay it.     *)
Settles ==
  <>[](sent \subseteq done \/ \A c \in setup.loops : ShouldStop(c))
=============================================================================
