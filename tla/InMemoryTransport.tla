------------------------- MODULE InMemoryTransport -------------------------
(***************************************************************************)
(* The reference transport (packages/messenger/src/transport/in-memory.ts),*)
(* the one ADR-007 makes normative for ack, reject and close.              *)
(*                                                                         *)
(* Everything between two awaits of the code is one action: JavaScript     *)
(* runs it without interruption.  The callers are free: several get()      *)
(* loops at once, any envelope ever handed out acked or rejected again,    *)
(* messages located with find() or list() acked, close() called twice.     *)
(*                                                                         *)
(* The queue array only grows at its end, with ever larger ids, and is     *)
(* otherwise filtered: its order is the order of the ids, so it is modelled*)
(* as a set of entries.  The clock is modelled by what each entry still    *)
(* has to wait (availableAt - now, never below 0).                         *)
(***************************************************************************)
EXTENDS Naturals

CONSTANTS
  Consumer,           \* the get() loops
  Closer,             \* the callers of close()
  MaxDelay,           \* bound on a DelayStamp, in clock ticks
  MaxIds              \* bound on the ids handed out (sends and rejects)

ASSUME BoundsAssumption == MaxDelay \in Nat /\ MaxIds \in Nat

VARIABLES
  queue,              \* set of entries
  inFlight,           \* set of entries delivered and not settled
  nextId,             \* the next transport id
  closing,            \* close() was called
  closer,             \* [Closer -> "idle", "waiting" (a drainWaiter), "resolved"]
  gen,                \* [Consumer -> where its generator stands]
  aborted,            \* [Consumer -> its AbortSignal]
  known,              \* ids of the envelopes that callers hold
  sent,               \* history: roots of the messages send() accepted
  gone                \* history: roots of the messages an ack removed

vars == <<queue, inFlight, nextId, closing, closer, gen, aborted, known, sent, gone>>

(* root is a history field: the id the message had when it was first sent. *)
Entry == [id : Nat, root : Nat, count : Nat, wait : Nat]

Entries == queue \union inFlight

(* Type invariant.  An entry has an id that was handed out, the one of its *)
(* message as long as it was not rejected and a later one ever after.      *)
TypeOK ==
  /\ queue \subseteq Entry
  /\ inFlight \subseteq Entry
  /\ nextId \in Nat
  /\ closing \in BOOLEAN
  /\ closer \in [Closer -> {"idle", "waiting", "resolved"}]
  /\ gen \in [Consumer -> {"looping", "yielded", "returned"}]
  /\ aborted \in [Consumer -> BOOLEAN]
  /\ known \subseteq Nat
  /\ sent \subseteq Nat
  /\ gone \subseteq Nat
  /\ \A e \in Entries :
       /\ e.root <= e.id /\ e.id < nextId
       /\ e.count = 0 <=> e.id = e.root

Init ==
  /\ queue = {}
  /\ inFlight = {}
  /\ nextId = 0
  /\ closing = FALSE
  /\ closer = [k \in Closer |-> "idle"]
  /\ gen = [c \in Consumer |-> "looping"]
  /\ aborted = [c \in Consumer |-> FALSE]
  /\ known = {}
  /\ sent = {}
  /\ gone = {}

Available(e) == e.wait = 0

(* send(): refused while closing, before anything changes.                 *)
Send(delay) ==
  /\ ~closing
  /\ nextId < MaxIds
  /\ queue' = queue \union
       {[id |-> nextId, root |-> nextId, count |-> 0, wait |-> delay]}
  /\ nextId' = nextId + 1
  /\ sent' = sent \union {nextId}
  /\ UNCHANGED <<inFlight, closing, closer, gen, aborted, known, gone>>

(* Mutant of Take: the closing flag is not looked at.                      *)
TakeWhileClosing(c) ==
  /\ gen[c] = "looping"
  /\ ~aborted[c]
  /\ \E e \in queue :
       /\ Available(e)
       /\ \A o \in queue : Available(o) => e.id <= o.id
       /\ queue' = queue \ {e}
       /\ inFlight' = inFlight \union {e}
       /\ known' = known \union {e.id}
  /\ gen' = [gen EXCEPT ![c] = "yielded"]
  /\ UNCHANGED <<nextId, closing, closer, aborted, sent, gone>>

(* Mutant of Take: the queue is served from its end.                       *)
TakeLatest(c) ==
  /\ gen[c] = "looping"
  /\ ~aborted[c]
  /\ ~closing
  /\ \E e \in queue :
       /\ Available(e)
       /\ \A o \in queue : Available(o) => o.id <= e.id
       /\ queue' = queue \ {e}
       /\ inFlight' = inFlight \union {e}
       /\ known' = known \union {e.id}
  /\ gen' = [gen EXCEPT ![c] = "yielded"]
  /\ UNCHANGED <<nextId, closing, closer, aborted, sent, gone>>

(* One turn of the get() loop that finds a message: the first available    *)
(* entry leaves the queue, is registered in flight and is yielded.         *)
Take(c) ==
  /\ gen[c] = "looping"
  /\ ~aborted[c]
  /\ ~closing
  /\ \E e \in queue :
       /\ Available(e)
       /\ \A o \in queue : Available(o) => e.id <= o.id
       /\ queue' = queue \ {e}
       /\ inFlight' = inFlight \union {e}
       /\ known' = known \union {e.id}
  /\ gen' = [gen EXCEPT ![c] = "yielded"]
  /\ UNCHANGED <<nextId, closing, closer, aborted, sent, gone>>

(* The consumer asks its generator for the next envelope.                  *)
Resume(c) ==
  /\ gen[c] = "yielded"
  /\ gen' = [gen EXCEPT ![c] = "looping"]
  /\ UNCHANGED <<queue, inFlight, nextId, closing, closer, aborted, known, sent, gone>>

(* The loop condition of get() fails: the generator returns.               *)
Return(c) ==
  /\ gen[c] = "looping"
  /\ aborted[c] \/ closing
  /\ gen' = [gen EXCEPT ![c] = "returned"]
  /\ UNCHANGED <<queue, inFlight, nextId, closing, closer, aborted, known, sent, gone>>

(* Mutant of Settle: the drain waiters are not woken.                      *)
SettleSilently(id) ==
  /\ inFlight' = {e \in inFlight : e.id # id}
  /\ UNCHANGED closer

(* settle(): forget the delivery, and wake close() once none is left.      *)
Settle(id) ==
  /\ inFlight' = {e \in inFlight : e.id # id}
  /\ closer' = IF inFlight' = {}
                 THEN [k \in Closer |->
                         IF closer[k] = "waiting" THEN "resolved" ELSE closer[k]]
                 ELSE closer

(* Mutant of Ack: only the in-flight registry is cleaned.                  *)
AckInFlightOnly(id) ==
  /\ id \in known
  /\ gone' = gone \union {e.root : e \in {f \in queue \union inFlight : f.id = id}}
  /\ Settle(id)
  /\ UNCHANGED <<queue, nextId, closing, gen, aborted, known, sent>>

(* ack(): never refused; removes the message from the queue as well, which *)
(* is how a message located with find() is deleted.                        *)
Ack(id) ==
  /\ id \in known
  /\ queue' = {e \in queue : e.id # id}
  /\ gone' = gone \union {e.root : e \in {f \in queue \union inFlight : f.id = id}}
  /\ Settle(id)
  /\ UNCHANGED <<nextId, closing, gen, aborted, known, sent>>

(* Mutant of Reject: the copy keeps the id of the delivery.                *)
RejectSameId(id) ==
  /\ id \in known
  /\ nextId < MaxIds
  /\ \E e \in inFlight :
       /\ e.id = id
       /\ queue' = queue \union {[e EXCEPT !.count = @ + 1, !.wait = 0]}
  /\ nextId' = nextId + 1
  /\ Settle(id)
  /\ UNCHANGED <<closing, gen, aborted, known, sent, gone>>

(* reject(): a no-op unless the delivery is in flight; otherwise a copy is *)
(* queued under a fresh id with one more retry, also while closing.        *)
Reject(id) ==
  /\ id \in known
  /\ nextId < MaxIds
  /\ \E e \in inFlight :
       /\ e.id = id
       /\ queue' = queue \union
            {[id |-> nextId, root |-> e.root, count |-> e.count + 1, wait |-> 0]}
  /\ nextId' = nextId + 1
  /\ Settle(id)
  /\ UNCHANGED <<closing, gen, aborted, known, sent, gone>>

(* find() or list(): the caller now holds an envelope of a queued message. *)
Locate(id) ==
  /\ \E e \in queue : e.id = id
  /\ known' = known \union {id}
  /\ UNCHANGED <<queue, inFlight, nextId, closing, closer, gen, aborted, sent, gone>>

(* Mutant of Close: resolves without waiting for the in-flight messages.   *)
CloseAtOnce(k) ==
  /\ closer[k] = "idle"
  /\ closing' = TRUE
  /\ closer' = [closer EXCEPT ![k] = "resolved"]
  /\ UNCHANGED <<queue, inFlight, nextId, gen, aborted, known, sent, gone>>

(* close(): waits for the last settlement unless nothing is in flight.     *)
Close(k) ==
  /\ closer[k] = "idle"
  /\ closing' = TRUE
  /\ closer' = [closer EXCEPT ![k] = IF inFlight = {} THEN "resolved" ELSE "waiting"]
  /\ UNCHANGED <<queue, inFlight, nextId, gen, aborted, known, sent, gone>>

Abort(c) ==
  /\ ~aborted[c]
  /\ aborted' = [aborted EXCEPT ![c] = TRUE]
  /\ UNCHANGED <<queue, inFlight, nextId, closing, closer, gen, known, sent, gone>>

(* The clock moves.                                                        *)
Tick ==
  /\ \E e \in queue : e.wait > 0
  /\ queue' = {[e EXCEPT !.wait = IF @ > 0 THEN @ - 1 ELSE 0] : e \in queue}
  /\ UNCHANGED <<inFlight, nextId, closing, closer, gen, aborted, known, sent, gone>>

Ids == 0 .. (MaxIds - 1)

Next ==
  \/ \E delay \in 0 .. MaxDelay : Send(delay)
  \/ \E c \in Consumer : Take(c) \/ Resume(c) \/ Return(c) \/ Abort(c)
  \/ \E id \in Ids : Ack(id) \/ Reject(id) \/ Locate(id)
  \/ \E k \in Closer : Close(k)
  \/ Tick

Spec == Init /\ [][Next]_vars

InFlightId(id) == \E e \in inFlight : e.id = id

(* Fairness: the worker settles each envelope it was given (worker.ts,     *)
(* handleOne).                                                             *)
Fairness == \A id \in Ids : WF_vars(InFlightId(id) /\ (Ack(id) \/ Reject(id)))

FairSpec == Spec /\ Fairness

-----------------------------------------------------------------------------
(* Safety                                                                  *)

(* No transport id is ever in two places: not twice in the queue, not      *)
(* twice in flight, not queued and in flight.                              *)
IdsUnique ==
  /\ \A e \in queue, f \in inFlight : e.id # f.id
  /\ \A e, f \in queue : e.id = f.id => e = f
  /\ \A e, f \in inFlight : e.id = f.id => e = f

(* Neither lost nor duplicated: a message accepted by send() and not       *)
(* removed by an ack has exactly one copy, queued or in flight, whatever   *)
(* callers settle twice, settle late or settle in the wrong order; and an  *)
(* acked message has none, so it can never be delivered again.             *)
OneCopy ==
  /\ \A e \in queue, f \in inFlight : e.root # f.root
  /\ \A e, f \in queue : e.root = f.root => e = f
  /\ \A e, f \in inFlight : e.root = f.root => e = f
  /\ {e.root : e \in Entries} = sent \ gone

(* Once a call of close() resolved, nothing is in flight, and no get()     *)
(* that was still running ever puts anything in flight again.              *)
ClosedIsDrained ==
  \A k \in Closer : closer[k] = "resolved" => closing /\ inFlight = {}

(* A close() that is still waiting has something to wait for: a waiter     *)
(* whose last delivery was already settled would wait for ever.            *)
WaitersHaveWork ==
  \A k \in Closer : closer[k] = "waiting" => closing /\ inFlight # {}

(* The ids of the messages queued before e.                                *)
Before(e) == {f.id : f \in {g \in queue : g.id < e.id}}

(* No message is overtaken for ever: while a message that is due waits,    *)
(* only messages queued before it are handed out, and none is ever queued  *)
(* before it, so that rejected messages, however often they come back,     *)
(* pass it at most once.                                                   *)
InOrder ==
  [][\A e \in queue \intersect queue' : Available(e) =>
       /\ {f.id : f \in inFlight' \ inFlight} \subseteq Before(e)
       /\ Before(e)' \subseteq Before(e)]_vars

-----------------------------------------------------------------------------
(* Refinement: the transport keeps the promises of Delivery.               *)

statusBar ==
  [m \in Ids |->
     IF m \notin sent THEN "unsent"
     ELSE IF m \in gone THEN "gone"
     ELSE IF \E e \in queue : e.root = m THEN "waiting" ELSE "delivered"]

redeliveriesBar ==
  [m \in Ids |->
     IF \E e \in Entries : e.root = m
       THEN (CHOOSE e \in Entries : e.root = m).count ELSE 0]

phaseBar ==
  IF ~closing THEN "open"
  ELSE IF \E k \in Closer : closer[k] = "resolved" THEN "closed" ELSE "closing"

Promised == INSTANCE Delivery WITH
  Message <- Ids, status <- statusBar, redeliveries <- redeliveriesBar, phase <- phaseBar

(* The in-memory transport implements the contract of a transport: one     *)
(* place per message, redelivery counted once per effective reject, no     *)
(* delivery after close() was called, close() resolving exactly with the   *)
(* settlement that empties the in-flight registry.                         *)
KeepsDeliveryContract == Promised!Spec

-----------------------------------------------------------------------------
(* Liveness                                                                *)

(* close() always resolves: the worker settles what it holds, and the last *)
(* settlement wakes every waiter.                                          *)
CloseResolves == \A k \in Closer : closer[k] = "waiting" ~> closer[k] = "resolved"
=============================================================================
