-------------------------- MODULE PubSubTransport --------------------------
(***************************************************************************)
(* The Google Pub/Sub transport (packages/transport-google-pubsub).  Every *)
(* process has one transport instance: its get() loops share one streaming *)
(* pull, whose messages arrive in a buffer as events and are leased by the *)
(* service until they are acknowledged.  Acknowledgements are queued by    *)
(* the client library and sent later; reject() publishes a copy and then   *)
(* acknowledges the original.                                              *)
(*                                                                         *)
(* A process runs to completion: between two awaits a loop is one step, and*)
(* a loop that was woken runs before the process sees its next signal.     *)
(* Message events come in batches, so several may precede the loop that the*)
(* first of them woke.  The service and the client library (leases, flow   *)
(* control, the queue of acknowledgements) are modelled from how the       *)
(* transport uses them.                                                    *)
(***************************************************************************)
EXTENDS Naturals, FiniteSets, Sequences

CONSTANTS
  Process,            \* the processes, each with its own transport instance
  Consumer,           \* the get() loops, each settled by its own worker
  Message,            \* the messages; each is sent once
  NoOne,              \* "not leased"
  Nothing,            \* "nothing in hand"
  Setups              \* the deployments that are looked at

(* A deployment: the loops there are and the process each runs in; the     *)
(* messages sent and those of them that cannot be decoded; maxMessages, the*)
(* leases a process may have; and the bounds: on reject(), on troubles,    *)
(* which are crashes and calls or streams that fail, and on leases that    *)
(* expire although the process still has the message.                      *)
ASSUME SetupsAssumption ==
  \A s \in Setups :
    /\ s.loops \subseteq Consumer /\ IsFiniteSet(s.loops)
    /\ s.home \in [Consumer -> Process]
    /\ s.messages \subseteq Message /\ s.foreign \subseteq s.messages
    /\ s.maxMessages \in Nat \ {0}
    /\ s.maxRejects \in Nat /\ s.maxTroubles \in Nat /\ s.maxSlow \in Nat

ASSUME NamesAssumption ==
  NoOne \notin Process /\ Nothing \notin [id : Nat, msg : Message, n : Nat]

VARIABLES
  setup,              \* the deployment: chosen once
  created,            \* the subscription exists
  backlog,            \* what the service has not seen acknowledged
  nextId,             \* the service's next message id
  stream,             \* [Process -> its streaming pull]
  buffer,             \* [Process -> messages that arrived]
  inFlight,           \* [Process -> the deliveries it may settle, one per id]
  acking,             \* [Process -> acknowledgements not sent yet]
  closing,            \* [Process -> how far close() is]
  pc,                 \* [Consumer -> where its loop or its worker is]
  hand,               \* [Consumer -> the delivery it has]
  aborted,            \* [Consumer -> its AbortSignal]
  used,               \* how much of each bound is used
  sent,               \* history: messages whose send() resolved
  done                \* history: messages handled, or discarded

serviceVars == <<created, backlog, nextId>>
clientVars  == <<stream, buffer, inFlight, acking>>
loopVars    == <<pc, hand>>
vars == <<setup, serviceVars, clientVars, closing, loopVars, aborted, used, sent, done>>

home    == setup.home
Foreign == setup.foreign

(* A delivery is the n-th one of a message of the subscription.            *)
Delivery == [id : Nat, msg : Message, n : Nat]
Outstanding == [id : Nat, msg : Message, n : Nat, owner : Process \union {NoOne}]

(* Type invariant.                                                         *)
TypeOK ==
  /\ setup \in Setups
  /\ created \in BOOLEAN /\ backlog \subseteq Outstanding /\ nextId \in Nat
  /\ stream \in [Process -> {"none", "starting", "open", "broken", "failed"}]
  /\ buffer \in [Process -> Seq(Delivery)]
  /\ inFlight \in [Process -> SUBSET Delivery]
  /\ acking \in [Process -> SUBSET Delivery]
  /\ closing \in [Process -> {"open", "draining", "flushing", "closed"}]
  /\ pc \in [Consumer -> {"idle", "starting", "loop", "waiting", "handle", "publishing",
                          "returned", "threw", "crashed"}]
  /\ hand \in [Consumer -> Delivery \union {Nothing}]
  /\ aborted \in [Consumer -> BOOLEAN]
  /\ used \in [{"rejects", "troubles", "slow"} -> Nat]
  /\ sent \subseteq Message /\ done \subseteq Message
  /\ \A c \in Consumer : hand[c] # Nothing <=> pc[c] \in {"handle", "publishing"}
  /\ \A p \in Process : \A d, e \in inFlight[p] : d.id = e.id => d = e

Init ==
  /\ setup \in Setups
  /\ created = FALSE /\ backlog = {} /\ nextId = 1
  /\ stream = [p \in Process |-> "none"]
  /\ buffer = [p \in Process |-> <<>>]
  /\ inFlight = [p \in Process |-> {}]
  /\ acking = [p \in Process |-> {}]
  /\ closing = [p \in Process |-> "open"]
  /\ pc = [c \in Consumer |-> IF c \in setup.loops THEN "idle" ELSE "returned"]
  /\ hand = [c \in Consumer |-> Nothing]
  /\ aborted = [c \in Consumer |-> FALSE]
  /\ used = [b \in {"rejects", "troubles", "slow"} |-> 0]
  /\ sent = {} /\ done = {}

At(p)    == {c \in setup.loops : home[c] = p}
Alive(p) == At(p) # {} /\ \A c \in At(p) : pc[c] # "crashed"

Spend(bound, limit) == used[bound] < limit /\ used' = [used EXCEPT ![bound] = @ + 1]
Trouble == Spend("troubles", setup.maxTroubles)

ShouldStop(c) == aborted[c] \/ closing[home[c]] # "open"

Goto(c, label) == pc' = [pc EXCEPT ![c] = label]

(* The loops of S go on at the label.                                      *)
SendTo(S, label) == pc' = [c \in Consumer |-> IF c \in S THEN label ELSE pc[c]]

In(p, label) == {c \in At(p) : pc[c] = label}

-----------------------------------------------------------------------------
(* The service: backlog, leases, acknowledgements                          *)

(* A message is retained for the subscriptions that exist.                 *)
Publish(m, others) ==
  /\ backlog' = others \union {[id |-> nextId, msg |-> m, n |-> 0, owner |-> NoOne]}
  /\ nextId' = nextId + 1

(* Mutant of Send: only the topic is ensured.                              *)
SendToTopic(m) ==
  /\ m \in setup.messages \ sent
  /\ \E p \in Process : closing[p] = "open" /\ Alive(p)
  /\ IF created THEN Publish(m, backlog) ELSE UNCHANGED <<backlog, nextId>>
  /\ sent' = sent \union {m}
  /\ UNCHANGED <<setup, created, clientVars, closing, loopVars, aborted, used, done>>

(* send(): the subscription is created before the message is published.    *)
Send(m) ==
  /\ m \in setup.messages \ sent
  /\ \E p \in Process : closing[p] = "open" /\ Alive(p)
  /\ created' = TRUE
  /\ Publish(m, backlog)
  /\ sent' = sent \union {m}
  /\ UNCHANGED <<setup, clientVars, closing, loopVars, aborted, used, done>>

Of(d, r) == r.id = d.id

(* The lease d was delivered under is still held.                          *)
Leases(p, d, r) == Of(d, r) /\ r.n = d.n /\ r.owner = p

(* Deliveries a process has and has not acknowledged.                      *)
Had(p) ==
  {buffer[p][i] : i \in 1..Len(buffer[p])} \union inFlight[p]
    \union {hand[c] : c \in {d \in At(p) : hand[d] # Nothing}}

(* maxMessages, allowExcessMessages: false.  The library counts what it    *)
(* delivered and what was not acknowledged since.                          *)
Leased(p) == {r \in backlog : r.owner = p /\ \A d \in acking[p] : ~Leases(p, d, r)}

(* wakeOne()                                                               *)
WakeOne(p) ==
  IF In(p, "waiting") = {}
    THEN UNCHANGED pc
    ELSE \E c \in In(p, "waiting") : Goto(c, "loop")

(* Mutant of Arrive: a loop is woken for the first message of a batch only.*)
ArriveWakingFirst(p, d) ==
  /\ buffer' = [buffer EXCEPT ![p] = Append(@, d)]
  /\ IF buffer[p] = <<>> THEN WakeOne(p) ELSE UNCHANGED pc

(* on('message')                                                           *)
Arrive(p, d) ==
  /\ buffer' = [buffer EXCEPT ![p] = Append(@, d)]
  /\ WakeOne(p)

(* The service leases a message to a process, and it arrives there; also   *)
(* while close() runs.                                                     *)
Deliver(p, r) ==
  /\ stream[p] = "open" /\ closing[p] # "closed" /\ Alive(p)
  /\ r.owner = NoOne /\ Cardinality(Leased(p)) < setup.maxMessages
  /\ backlog' = (backlog \ {r}) \union {[r EXCEPT !.n = @ + 1, !.owner = p]}
  /\ Arrive(p, [id |-> r.id, msg |-> r.msg, n |-> r.n + 1])
  /\ UNCHANGED <<setup, created, nextId, stream, inFlight, acking, closing, hand, aborted,
                 used, sent, done>>

(* A lease expires.  The library extends the leases of what the process    *)
(* still has, for an hour; one that it does not have, or not have any more,*)
(* expires without further ado.                                            *)
Expire(r) ==
  LET p == r.owner
      extended == /\ stream[p] = "open" /\ closing[p] # "closed"
                  /\ \E d \in Had(p) : Leases(p, d, r)
  IN
  /\ p # NoOne
  /\ \A d \in acking[p] : ~Leases(p, d, r)
  /\ IF extended THEN Spend("slow", setup.maxSlow) ELSE UNCHANGED used
  /\ backlog' = (backlog \ {r}) \union {[r EXCEPT !.owner = NoOne]}
  /\ UNCHANGED <<setup, created, nextId, clientVars, closing, loopVars, aborted, sent, done>>

(* A queued acknowledgement is sent.  Under a lease that has expired it may*)
(* or may not count; one that gets lost lets the lease expire.             *)
SendAck(p, d) ==
  /\ d \in acking[p]
  /\ acking' = [acking EXCEPT ![p] = @ \ {d}]
  /\ \/ backlog' = {r \in backlog : ~Of(d, r)} /\ UNCHANGED used
     \/ (\A r \in backlog : ~Leases(p, d, r)) /\ UNCHANGED <<backlog, used>>
     \/ (\E r \in backlog : Leases(p, d, r)) /\ Trouble /\ UNCHANGED backlog
  /\ UNCHANGED <<setup, created, nextId, stream, buffer, inFlight, closing, loopVars,
                 aborted, sent, done>>

-----------------------------------------------------------------------------
(* The stream                                                              *)

(* get(): the stream of the instance is started by its first caller; the   *)
(* attempt is memoized, also one that fails.                               *)
Start(c) ==
  LET p == home[c] IN
  /\ pc[c] = "idle"
  /\ stream' = [stream EXCEPT ![p] = IF @ = "none" THEN "starting" ELSE @]
  /\ Goto(c, CASE stream[p] \in {"none", "starting"} -> "starting"
               [] stream[p] = "failed"               -> "threw"
               [] OTHER                              -> "loop")
  /\ UNCHANGED <<setup, serviceVars, buffer, inFlight, acking, closing, hand, aborted, used,
                 sent, done>>

(* The topic and the subscription exist, and the stream is opened.  close()*)
(* may be over by then: it only waits for the call it found under way.     *)
StreamOpens(p) ==
  /\ stream[p] = "starting" /\ Alive(p)
  /\ created' = TRUE
  /\ stream' = [stream EXCEPT ![p] = "open"]
  /\ SendTo(In(p, "starting"), "loop")
  /\ UNCHANGED <<setup, backlog, nextId, buffer, inFlight, acking, closing, hand, aborted,
                 used, sent, done>>

StreamFails(p) ==
  /\ stream[p] = "starting" /\ Alive(p)
  /\ Trouble
  /\ stream' = [stream EXCEPT ![p] = "failed"]
  /\ SendTo(In(p, "starting"), "threw")
  /\ UNCHANGED <<setup, serviceVars, buffer, inFlight, acking, closing, hand, aborted, sent,
                 done>>

(* Mutant of StreamError: the loops that wait are not woken.               *)
StreamErrorUnnoticed(p) ==
  /\ stream[p] = "open" /\ closing[p] # "closed" /\ Alive(p)
  /\ Trouble
  /\ stream' = [stream EXCEPT ![p] = "broken"]
  /\ UNCHANGED <<setup, serviceVars, buffer, inFlight, acking, closing, loopVars, aborted,
                 sent, done>>

(* on('error'): for good; every loop gets to see it.                       *)
StreamError(p) ==
  /\ stream[p] = "open" /\ closing[p] # "closed" /\ Alive(p)
  /\ Trouble
  /\ stream' = [stream EXCEPT ![p] = "broken"]
  /\ SendTo(In(p, "waiting"), "loop")
  /\ UNCHANGED <<setup, serviceVars, buffer, inFlight, acking, closing, hand, aborted, sent,
                 done>>

-----------------------------------------------------------------------------
(* get()                                                                   *)

Return(c) ==
  /\ pc[c] = "loop" /\ ShouldStop(c)
  /\ Goto(c, "returned")
  /\ UNCHANGED <<setup, serviceVars, clientVars, closing, hand, aborted, used, sent, done>>

Throw(c) ==
  /\ pc[c] = "loop" /\ ~ShouldStop(c)
  /\ stream[home[c]] = "broken"
  /\ Goto(c, "threw")
  /\ UNCHANGED <<setup, serviceVars, clientVars, closing, hand, aborted, used, sent, done>>

MayTake(c) == pc[c] = "loop" /\ ~ShouldStop(c) /\ stream[home[c]] = "open"

Wait(c) ==
  /\ MayTake(c) /\ buffer[home[c]] = <<>>
  /\ Goto(c, "waiting")
  /\ UNCHANGED <<setup, serviceVars, clientVars, closing, hand, aborted, used, sent, done>>

(* Mutant of Yield: an earlier delivery of the same id stays in flight.    *)
YieldBeside(c) ==
  LET p == home[c]  d == Head(buffer[p]) IN
  /\ MayTake(c) /\ buffer[p] # <<>> /\ d.msg \notin Foreign
  /\ buffer' = [buffer EXCEPT ![p] = Tail(@)]
  /\ inFlight' = [inFlight EXCEPT ![p] = @ \union {d}]
  /\ hand' = [hand EXCEPT ![c] = d]
  /\ Goto(c, "handle")
  /\ UNCHANGED <<setup, serviceVars, stream, acking, closing, aborted, used, sent, done>>

(* The first message of the buffer becomes in flight; an earlier delivery  *)
(* of the same id makes room for it.                                       *)
Yield(c) ==
  LET p == home[c]  d == Head(buffer[p]) IN
  /\ MayTake(c) /\ buffer[p] # <<>> /\ d.msg \notin Foreign
  /\ buffer' = [buffer EXCEPT ![p] = Tail(@)]
  /\ inFlight' = [inFlight EXCEPT ![p] = {e \in @ : e.id # d.id} \union {d}]
  /\ hand' = [hand EXCEPT ![c] = d]
  /\ Goto(c, "handle")
  /\ UNCHANGED <<setup, serviceVars, stream, acking, closing, aborted, used, sent, done>>

(* A message that cannot be decoded is acknowledged.                       *)
Discard(c) ==
  LET p == home[c]  d == Head(buffer[p]) IN
  /\ MayTake(c) /\ buffer[p] # <<>> /\ d.msg \in Foreign
  /\ buffer' = [buffer EXCEPT ![p] = Tail(@)]
  /\ acking' = [acking EXCEPT ![p] = @ \union {d}]
  /\ done' = done \union {d.msg}
  /\ UNCHANGED <<setup, serviceVars, stream, inFlight, closing, loopVars, aborted, used, sent>>

(* A signal; not between the wake-up of a loop and what it does then.      *)
Abort(c) ==
  /\ ~ShouldStop(c) /\ pc[c] \notin {"loop", "returned", "threw", "crashed"}
  /\ aborted' = [aborted EXCEPT ![c] = TRUE]
  /\ Goto(c, IF pc[c] = "waiting" THEN "loop" ELSE pc[c])
  /\ UNCHANGED <<setup, serviceVars, clientVars, closing, hand, used, sent, done>>

-----------------------------------------------------------------------------
(* Settlement                                                              *)

(* The deliveries of the process that settling c's message settles: the    *)
(* one in flight under its id, if another loop has not settled that.       *)
Settled(c) == {d \in inFlight[home[c]] : d.id = hand[c].id}

(* c asks for the next message.                                            *)
AskNext(c) == Goto(c, "loop") /\ hand' = [hand EXCEPT ![c] = Nothing]

Ack(c) ==
  LET p == home[c] IN
  /\ pc[c] = "handle"
  /\ inFlight' = [inFlight EXCEPT ![p] = @ \ Settled(c)]
  /\ acking' = [acking EXCEPT ![p] = @ \union Settled(c)]
  /\ done' = done \union {hand[c].msg}
  /\ AskNext(c)
  /\ UNCHANGED <<setup, serviceVars, stream, buffer, closing, aborted, used, sent>>

(* reject(): no longer in flight; the copy is being published.             *)
Reject(c) ==
  LET p == home[c] IN
  /\ pc[c] = "handle"
  /\ Spend("rejects", setup.maxRejects)
  /\ inFlight' = [inFlight EXCEPT ![p] = @ \ Settled(c)]
  /\ IF Settled(c) = {}
       THEN AskNext(c)
       ELSE /\ Goto(c, "publishing")
            /\ \E d \in Settled(c) : hand' = [hand EXCEPT ![c] = d]
  /\ UNCHANGED <<setup, serviceVars, stream, buffer, acking, closing, aborted, sent, done>>

(* The copy is published, then the original is acknowledged.               *)
Published(c) ==
  LET p == home[c] IN
  /\ pc[c] = "publishing"
  /\ Publish(hand[c].msg, backlog)
  /\ acking' = [acking EXCEPT ![p] = @ \union {hand[c]}]
  /\ AskNext(c)
  /\ UNCHANGED <<setup, created, stream, buffer, inFlight, closing, aborted, used, sent, done>>

(* publish fails, though the copy may have been published.  The worker     *)
(* stops.                                                                  *)
PublishFails(c) ==
  /\ pc[c] = "publishing"
  /\ Trouble
  /\ Publish(hand[c].msg, backlog) \/ UNCHANGED <<backlog, nextId>>
  /\ Goto(c, "threw") /\ hand' = [hand EXCEPT ![c] = Nothing]
  /\ UNCHANGED <<setup, created, clientVars, closing, aborted, sent, done>>

-----------------------------------------------------------------------------
(* close(), crashes                                                        *)

(* Mutant of Close: the loops that wait are left alone.                    *)
CloseUnnoticed(p) ==
  /\ closing[p] = "open" /\ Alive(p)
  /\ closing' = [closing EXCEPT ![p] = "draining"]
  /\ UNCHANGED <<setup, serviceVars, clientVars, loopVars, aborted, used, sent, done>>

(* Called by the application, and by the consume command when its worker   *)
(* ended.  The loops that wait are woken.                                  *)
Close(p) ==
  /\ closing[p] = "open" /\ Alive(p)
  /\ closing' = [closing EXCEPT ![p] = "draining"]
  /\ SendTo(In(p, "waiting"), "loop")
  /\ UNCHANGED <<setup, serviceVars, clientVars, hand, aborted, used, sent, done>>

(* Mutant of Drained: a rejection is not among what close() waits for.     *)
DrainedOfAcks(p) == inFlight[p] = {}

(* Nothing is in flight, and no rejection is under way.                    *)
Drained(p) == inFlight[p] = {} /\ In(p, "publishing") = {}

CloseSubscription(p) ==
  /\ closing[p] = "draining" /\ Alive(p)
  /\ Drained(p)
  /\ closing' = [closing EXCEPT ![p] = "flushing"]
  /\ UNCHANGED <<setup, serviceVars, clientVars, loopVars, aborted, used, sent, done>>

(* subscription.close() sends the queued acknowledgements first; then the  *)
(* client is closed.                                                       *)
CloseClient(p) ==
  /\ closing[p] = "flushing" /\ Alive(p)
  /\ acking[p] = {}
  /\ closing' = [closing EXCEPT ![p] = "closed"]
  /\ UNCHANGED <<setup, serviceVars, clientVars, loopVars, aborted, used, sent, done>>

(* The process is gone, and with it all that its instance remembers.       *)
Gone(p) ==
  /\ stream' = [stream EXCEPT ![p] = "none"]
  /\ buffer' = [buffer EXCEPT ![p] = <<>>]
  /\ inFlight' = [inFlight EXCEPT ![p] = {}]
  /\ acking' = [acking EXCEPT ![p] = {}]
  /\ SendTo(At(p), "crashed")
  /\ hand' = [c \in Consumer |-> IF c \in At(p) THEN Nothing ELSE hand[c]]
  /\ UNCHANGED <<setup, serviceVars, closing, aborted, sent, done>>

Crash(p) ==
  /\ Alive(p) /\ closing[p] # "closed"
  /\ Trouble
  /\ Gone(p)

(* A worker threw: its process ends when close() has resolved.             *)
Exit(p) ==
  /\ Alive(p) /\ closing[p] = "closed"
  /\ In(p, "threw") # {} /\ \A c \in At(p) : pc[c] \in {"returned", "threw"}
  /\ Gone(p)
  /\ UNCHANGED used

(* A new process with a new instance.                                      *)
Restart(p) ==
  /\ In(p, "crashed") # {}
  /\ SendTo(At(p), "idle")
  /\ closing' = [closing EXCEPT ![p] = "open"]
  /\ aborted' = [c \in Consumer |-> IF c \in At(p) THEN FALSE ELSE aborted[c]]
  /\ UNCHANGED <<setup, serviceVars, clientVars, hand, used, sent, done>>

-----------------------------------------------------------------------------
Looping(c)  == Start(c) \/ Return(c) \/ Throw(c) \/ Wait(c) \/ Yield(c) \/ Discard(c)
Settling(c) == Ack(c) \/ Reject(c) \/ Published(c)
Closing(p)  == CloseSubscription(p) \/ CloseClient(p)

(* The consume command closes its transport when its worker has ended.     *)
Ended(p) == \E c \in At(p) : pc[c] \in {"returned", "threw"}

Next ==
  \/ \E m \in Message : Send(m)
  \/ \E r \in backlog : Expire(r) \/ \E p \in Process : Deliver(p, r)
  \/ \E c \in Consumer : Looping(c) \/ Settling(c) \/ Abort(c) \/ PublishFails(c)
  \/ \E p \in Process : \E d \in acking[p] : SendAck(p, d)
  \/ \E p \in Process : StreamOpens(p) \/ StreamFails(p) \/ StreamError(p)
  \/ \E p \in Process : Close(p) \/ Closing(p) \/ Crash(p) \/ Exit(p) \/ Restart(p)

Spec == Init /\ [][Next]_vars

(* Fairness: loops run, workers settle what they hold, calls that do not   *)
(* fail are answered, the service delivers and its leases expire, a        *)
(* transport whose worker ended is closed, a process that died is replaced.*)
Fairness ==
  /\ \A c \in Consumer : WF_vars(Looping(c)) /\ WF_vars(Settling(c))
  /\ \A p \in Process :
       /\ WF_vars(StreamOpens(p)) /\ WF_vars(Closing(p))
       /\ WF_vars(Ended(p) /\ Close(p)) /\ WF_vars(Exit(p)) /\ WF_vars(Restart(p))
       /\ WF_vars(\E r \in backlog : Deliver(p, r))
       /\ WF_vars(\E d \in acking[p] : SendAck(p, d))
  /\ WF_vars(\E r \in backlog : Expire(r))

FairSpec == Spec /\ Fairness

-----------------------------------------------------------------------------
(* Safety                                                                  *)

(* At least once: a message whose send() resolved is outstanding at the    *)
(* service until it was handled, through rejections that fail half-way,    *)
(* crashes, close() with a full buffer, and acknowledgements of a lease    *)
(* that is no longer held.                                                 *)
NoLoss == \A m \in sent \ done : \E r \in backlog : r.msg = m

(* No wake-up is lost: where no loop is about to run, no loop sleeps while *)
(* the buffer has messages.                                                *)
NobodySleepsOnWork ==
  \A p \in Process :
    stream[p] = "open" /\ In(p, "loop") = {} /\ In(p, "waiting") # {} => buffer[p] = <<>>

(* When close() has resolved nothing is being redelivered, no handler runs *)
(* but for a message that was delivered twice, and no acknowledgement is   *)
(* left behind in the client's queue.                                      *)
ClosedIsFlushed ==
  \A p \in Process :
    closing[p] = "closed" =>
      /\ acking[p] = {} /\ In(p, "publishing") = {}
      /\ used.slow = 0 => In(p, "handle") = {}

-----------------------------------------------------------------------------
(* Liveness                                                                *)

(* close() resolves and the loops end, also when the stream breaks or is   *)
(* still starting when it is called.                                       *)
CloseResolves ==
  <>[](\A p \in Process :
         closing[p] # "open" =>
           closing[p] = "closed" /\ \A c \in At(p) : pc[c] \in {"returned", "threw"})

(* From some point on, every message that was sent is handled, unless every*)
(* loop stops: broken streams, failed starts, crashes, lost                *)
(* acknowledgements and buffers of closed transports only delay it.        *)
Settles ==
  <>[](sent \subseteq done \/ \A c \in setup.loops : ShouldStop(c))
=============================================================================
