--------------------------- MODULE KafkaTransport ---------------------------
(***************************************************************************)
(* The Kafka transport (packages/transport-kafka).  Every process has one  *)
(* transport instance: one member of the consumer group, whose messages    *)
(* are pushed into a buffer, and one or more get() loops that share the    *)
(* buffer.  What a loop settles is recorded in Kafka as one number per     *)
(* partition, the committed offset; nothing else says what is done.        *)
(*                                                                         *)
(* Kafka itself (the log, the committed offsets, the group that assigns    *)
(* partitions to its members) is modelled from how the transport uses it.  *)
(* A step is what runs between two awaits of the code.  The worker of a    *)
(* loop settles each message before it asks for the next (worker.ts), and  *)
(* when a settlement fails its process ends.                               *)
(***************************************************************************)
EXTENDS Naturals, Sequences

CONSTANTS
  Process,            \* the processes, each with its own transport instance
  Consumer,           \* the get() loops, each settled by its own worker
  Partition,          \* the partitions of the topic
  Message,            \* the messages; each is sent once
  Foreign,            \* those the transport cannot decode
  Nobody,             \* "no process"
  NoRecord,           \* "nothing in hand"
  Setups              \* the deployments that are looked at

(* A deployment: in which process each loop runs, the messages sent, and   *)
(* the bounds: on reject(), and on troubles, which are crashes, broker     *)
(* calls that fail and partitions taken from a live member.                *)
ASSUME SetupsAssumption ==
  \A s \in Setups :
    /\ s.home \in [Consumer -> Process]
    /\ s.messages \subseteq Message
    /\ s.maxRejects \in Nat /\ s.maxTroubles \in Nat

ASSUME NamesAssumption == Nobody \notin Process /\ Foreign \subseteq Message

VARIABLES
  setup,              \* the deployment: chosen once
  log,                \* [Partition -> the records, in offset order]
  committed,          \* [Partition -> how many records the group is past]
  owner,              \* [Partition -> the member it is assigned to]
  position,           \* [Partition -> how many records its owner was pushed]
  member,             \* [Process -> how far its consumer is]
  buffer,             \* [Process -> records pushed and not yet taken]
  inFlight,           \* [Process -> records that can be settled]
  closing,            \* [Process -> how far close() is]
  pc,                 \* [Consumer -> where its loop or its worker is]
  hand,               \* [Consumer -> the record it has]
  aborted,            \* [Consumer -> its AbortSignal]
  used,               \* how much of each bound is used
  acked,              \* history: records that were acknowledged
  copied              \* history: records a redelivered copy was published for

brokerVars  == <<log, committed, owner, position>>
loopVars    == <<pc, hand>>
historyVars == <<acked, copied>>
vars == <<setup, brokerVars, member, buffer, inFlight, closing, loopVars, aborted, used,
          historyVars>>

home == setup.home

(* A record is its partition and its offset, the first being 1.            *)
Record == Partition \X (Nat \ {0})

ASSUME NoRecordAssumption == NoRecord \notin Record

Partit(r)  == r[1]
Offset(r)  == r[2]
Content(r) == log[Partit(r)][Offset(r)]

Records == UNION {{<<t, i>> : i \in DOMAIN log[t]} : t \in Partition}

(* Type invariant.                                                         *)
TypeOK ==
  /\ setup \in Setups
  /\ log \in [Partition -> Seq(Message)]
  /\ committed \in [Partition -> Nat] /\ position \in [Partition -> Nat]
  /\ \A t \in Partition : committed[t] <= Len(log[t]) /\ position[t] <= Len(log[t])
  /\ owner \in [Partition -> Process \union {Nobody}]
  /\ member \in [Process -> {"none", "connect", "subscribe", "joined", "left"}]
  /\ buffer \in [Process -> Seq(Record)]
  /\ inFlight \in [Process -> SUBSET Record]
  /\ closing \in [Process -> {"open", "draining", "flushing", "closed"}]
  /\ pc \in [Consumer -> {"start", "loop", "asleep", "discard", "handle", "publish",
                          "commit", "returned", "crashed"}]
  /\ hand \in [Consumer -> Records \union {NoRecord}]
  /\ aborted \in [Consumer -> BOOLEAN]
  /\ used \in [{"rejects", "troubles"} -> Nat]
  /\ acked \subseteq Records /\ copied \subseteq Records

Init ==
  /\ setup \in Setups
  /\ log = [t \in Partition |-> <<>>]
  /\ committed = [t \in Partition |-> 0]
  /\ owner = [t \in Partition |-> Nobody]
  /\ position = [t \in Partition |-> 0]
  /\ member = [p \in Process |-> "none"]
  /\ buffer = [p \in Process |-> <<>>]
  /\ inFlight = [p \in Process |-> {}]
  /\ closing = [p \in Process |-> "open"]
  /\ pc = [c \in Consumer |-> "start"]
  /\ hand = [c \in Consumer |-> NoRecord]
  /\ aborted = [c \in Consumer |-> FALSE]
  /\ used = [b \in {"rejects", "troubles"} |-> 0]
  /\ acked = {} /\ copied = {}

Goto(c, label) == pc' = [pc EXCEPT ![c] = label]

Spend(bound, limit) == used[bound] < limit /\ used' = [used EXCEPT ![bound] = @ + 1]

At(p)    == {c \in Consumer : home[c] = p}
Alive(p) == At(p) # {} /\ \A c \in At(p) : pc[c] # "crashed"

(* The process is gone: its buffer and its place in the group with it.     *)
Die(p) ==
  /\ pc' = [c \in Consumer |-> IF c \in At(p) THEN "crashed" ELSE pc[c]]
  /\ hand' = [c \in Consumer |-> IF c \in At(p) THEN NoRecord ELSE hand[c]]
  /\ buffer' = [buffer EXCEPT ![p] = <<>>]
  /\ inFlight' = [inFlight EXCEPT ![p] = {}]
  /\ member' = [member EXCEPT ![p] = "none"]
  /\ owner' = [t \in Partition |-> IF owner[t] = p THEN Nobody ELSE owner[t]]

-----------------------------------------------------------------------------
(* The broker                                                              *)

Append1(t, m) == log' = [log EXCEPT ![t] = Append(@, m)]

(* send(), by a process whose transport is open, or somebody else's        *)
(* message on the topic.                                                   *)
Send(m) ==
  /\ m \in setup.messages /\ \A r \in Records : Content(r) # m
  /\ m \in Foreign \/ \E p \in Process : closing[p] = "open" /\ Alive(p)
  /\ \E t \in Partition : Append1(t, m)
  /\ UNCHANGED <<setup, committed, owner, position, member, buffer, inFlight, closing,
                 loopVars, aborted, used, historyVars>>

(* The group gives t to p, which goes on from the committed offset.        *)
GiveTo(t, p) ==
  /\ member[p] = "joined"
  /\ owner' = [owner EXCEPT ![t] = p]
  /\ position' = [position EXCEPT ![t] = committed[t]]
  /\ UNCHANGED <<setup, log, committed, member, buffer, inFlight, closing, loopVars,
                 aborted, historyVars>>

Assign(t) ==
  /\ owner[t] = Nobody
  /\ \E p \in Process : GiveTo(t, p)
  /\ UNCHANGED used

(* A rebalance: a member joined, left, or was slow to send its heartbeat.  *)
(* The partition may also come back to the member that had it.             *)
Rebalance(t) ==
  /\ owner[t] # Nobody
  /\ Spend("troubles", setup.maxTroubles)
  /\ \E p \in Process : GiveTo(t, p)

Asleep(p) == {c \in At(p) : pc[c] = "asleep"}

(* Mutant of Wake: who sleeps stays asleep.                                *)
WakeNobody(p) == UNCHANGED pc

(* wakeOne()                                                               *)
Wake(p) ==
  IF Asleep(p) = {} THEN UNCHANGED pc
    ELSE \E c \in Asleep(p) : Goto(c, "loop")

(* eachMessage: the next record goes into the buffer.                      *)
Push(t) ==
  /\ owner[t] # Nobody
  /\ position[t] < Len(log[t])
  /\ position' = [position EXCEPT ![t] = @ + 1]
  /\ buffer' = [buffer EXCEPT ![owner[t]] = Append(@, <<t, position[t] + 1>>)]
  /\ Wake(owner[t])
  /\ UNCHANGED <<setup, log, committed, owner, member, inFlight, closing, hand, aborted, used,
                 historyVars>>

-----------------------------------------------------------------------------
(* Starting the consumer                                                   *)

MemberStep(p, from, to) ==
  /\ member[p] = from
  /\ member' = [member EXCEPT ![p] = to]
  /\ UNCHANGED <<setup, brokerVars, buffer, inFlight, closing, loopVars, aborted, used,
                 historyVars>>

(* The first get() of the instance starts its consumer, close() or not.    *)
StartConsumer(p) ==
  /\ \E c \in At(p) : pc[c] = "start"
  /\ MemberStep(p, "none", "connect")

(* The topic exists, the consumer is connected; now it subscribes ...      *)
Connected(p) == MemberStep(p, "connect", "subscribe")

(* ... and only now the instance knows of it; it runs.                     *)
Subscribed(p) == MemberStep(p, "subscribe", "joined")

(* A step of the start fails; get() throws and the worker's process ends.  *)
StartFails(p) ==
  /\ member[p] \in {"connect", "subscribe"}
  /\ Spend("troubles", setup.maxTroubles)
  /\ Die(p)
  /\ UNCHANGED <<setup, log, committed, position, closing, aborted, historyVars>>

Enter(c) ==
  /\ pc[c] = "start"
  /\ member[home[c]] \in {"joined", "left"}
  /\ Goto(c, "loop")
  /\ UNCHANGED <<setup, brokerVars, member, buffer, inFlight, closing, hand, aborted,
                 used, historyVars>>

-----------------------------------------------------------------------------
(* The get() loop                                                          *)

ShouldStop(c) == aborted[c] \/ closing[home[c]] # "open"

Hold(c, r, label) == hand' = [hand EXCEPT ![c] = r] /\ Goto(c, label)

(* Mutant of Take: the newest record of the buffer comes first.            *)
TakeNewest(c) ==
  /\ pc[c] = "loop" /\ ~ShouldStop(c)
  /\ buffer[home[c]] # <<>>
  /\ LET r == buffer[home[c]][Len(buffer[home[c]])] IN
       IF Content(r) \in Foreign
         THEN Hold(c, r, "discard") /\ UNCHANGED inFlight
         ELSE Hold(c, r, "handle") /\ inFlight' = [inFlight EXCEPT ![home[c]] = @ \union {r}]
  /\ buffer' = [buffer EXCEPT ![home[c]] = SubSeq(@, 1, Len(@) - 1)]
  /\ UNCHANGED <<setup, brokerVars, member, closing, aborted, used, historyVars>>

(* The next record of the buffer is registered in flight and yielded, or   *)
(* when it cannot be decoded, to be discarded.                             *)
Take(c) ==
  /\ pc[c] = "loop" /\ ~ShouldStop(c)
  /\ buffer[home[c]] # <<>>
  /\ LET r == Head(buffer[home[c]]) IN
       IF Content(r) \in Foreign
         THEN Hold(c, r, "discard") /\ UNCHANGED inFlight
         ELSE Hold(c, r, "handle") /\ inFlight' = [inFlight EXCEPT ![home[c]] = @ \union {r}]
  /\ buffer' = [buffer EXCEPT ![home[c]] = Tail(@)]
  /\ UNCHANGED <<setup, brokerVars, member, closing, aborted, used, historyVars>>

Sleep(c) ==
  /\ pc[c] = "loop" /\ ~ShouldStop(c)
  /\ buffer[home[c]] = <<>>
  /\ Goto(c, "asleep")
  /\ UNCHANGED <<setup, brokerVars, member, buffer, inFlight, closing, hand, aborted,
                 used, historyVars>>

Return(c) ==
  /\ pc[c] = "loop" /\ ShouldStop(c)
  /\ Goto(c, "returned")
  /\ UNCHANGED <<setup, brokerVars, member, buffer, inFlight, closing, hand, aborted,
                 used, historyVars>>

(* The abort wakes the loop if it sleeps; one that stops anyway is not     *)
(* concerned.                                                              *)
Abort(c) ==
  /\ ~ShouldStop(c) /\ pc[c] # "crashed"
  /\ aborted' = [aborted EXCEPT ![c] = TRUE]
  /\ pc' = [pc EXCEPT ![c] = IF @ = "asleep" THEN "loop" ELSE @]
  /\ UNCHANGED <<setup, brokerVars, member, buffer, inFlight, closing, hand, used,
                 historyVars>>

-----------------------------------------------------------------------------
(* Settlement                                                              *)

Settleable(c) == hand[c] \in inFlight[home[c]]

(* releaseInFlight(): close() goes on once the registry is empty.          *)
Release(c) ==
  /\ inFlight' = [inFlight EXCEPT ![home[c]] = @ \ {hand[c]}]
  /\ closing' = [closing EXCEPT ![home[c]] =
                   IF @ = "draining" /\ inFlight[home[c]] = {hand[c]} THEN "flushing" ELSE @]

(* ack(): released, then committed.                                        *)
Ack(c) ==
  /\ pc[c] = "handle" /\ Settleable(c)
  /\ Release(c)
  /\ acked' = acked \union {hand[c]}
  /\ Goto(c, "commit")
  /\ UNCHANGED <<setup, brokerVars, member, buffer, hand, aborted, used, copied>>

(* A rebalance may give two loops of an instance the same record.  The     *)
(* settlement of one has released it; that of the other does nothing.      *)
SettleAgain(c) ==
  /\ pc[c] = "handle" /\ ~Settleable(c)
  /\ Hold(c, NoRecord, "loop")
  /\ UNCHANGED <<setup, brokerVars, member, buffer, inFlight, closing, aborted, used,
                 historyVars>>

(* reject(): released, then a copy is published ...                        *)
Reject(c) ==
  /\ pc[c] = "handle" /\ Settleable(c)
  /\ Spend("rejects", setup.maxRejects)
  /\ Release(c)
  /\ Goto(c, "publish")
  /\ UNCHANGED <<setup, brokerVars, member, buffer, hand, aborted, historyVars>>

(* ... and then the original is committed past.  When the publish fails,   *)
(* or only its reply, the worker stops.                                    *)
Publish(c) ==
  /\ pc[c] = "publish"
  /\ \/ /\ \E t \in Partition : Append1(t, Content(hand[c]))
        /\ copied' = copied \union {hand[c]}
        /\ Goto(c, "commit")
        /\ UNCHANGED <<owner, member, buffer, inFlight, hand, used>>
     \/ /\ Spend("troubles", setup.maxTroubles)
        /\ UNCHANGED log \/ \E t \in Partition : Append1(t, Content(hand[c]))
        /\ Die(home[c])
        /\ UNCHANGED copied
  /\ UNCHANGED <<setup, committed, position, closing, aborted, acked>>

(* Mutant of CommitPast: one offset too far.                               *)
CommitTooFar(r) == committed' = [committed EXCEPT ![Partit(r)] = Offset(r) + 1]

CommitPast(r) == committed' = [committed EXCEPT ![Partit(r)] = Offset(r)]

(* commit(): whatever was committed before, the group is now just past     *)
(* this record.  The broker may refuse the commit of a member that lost    *)
(* the partition, and a call may fail with or without its effect; the      *)
(* worker then stops.                                                      *)
Commit(c) ==
  /\ pc[c] \in {"commit", "discard"}
  /\ \/ /\ CommitPast(hand[c])
        /\ Goto(c, "loop")
        /\ hand' = [hand EXCEPT ![c] = NoRecord]
        /\ UNCHANGED <<owner, member, buffer, inFlight, used>>
     \/ /\ owner[Partit(hand[c])] # home[c]
        /\ Die(home[c])
        /\ UNCHANGED <<committed, used>>
     \/ /\ Spend("troubles", setup.maxTroubles)
        /\ CommitPast(hand[c]) \/ UNCHANGED committed
        /\ Die(home[c])
  /\ UNCHANGED <<setup, log, position, closing, aborted, historyVars>>

-----------------------------------------------------------------------------
(* close(), crashes                                                        *)

(* Mutant of Close: the registry is not waited for.                        *)
CloseAtOnce(p) ==
  /\ closing[p] = "open" /\ Alive(p)
  /\ closing' = [closing EXCEPT ![p] = "flushing"]
  /\ pc' = [c \in Consumer |-> IF c \in Asleep(p) THEN "loop" ELSE pc[c]]
  /\ UNCHANGED <<setup, brokerVars, member, buffer, inFlight, hand, aborted, used,
                 historyVars>>

(* close(): the loops are woken, then the deliveries in flight are waited  *)
(* for, then the calls that are pending.                                   *)
Close(p) ==
  /\ closing[p] = "open" /\ Alive(p)
  /\ closing' = [closing EXCEPT ![p] = IF inFlight[p] = {} THEN "flushing" ELSE "draining"]
  /\ pc' = [c \in Consumer |-> IF c \in Asleep(p) THEN "loop" ELSE pc[c]]
  /\ UNCHANGED <<setup, brokerVars, member, buffer, inFlight, hand, aborted, used,
                 historyVars>>

Calling(p) == \E c \in At(p) : pc[c] \in {"discard", "publish", "commit"}

(* The consumer leaves the group, when there is one: a consumer that is    *)
(* still connecting is not known yet and goes on to subscribe and join.    *)
(* One that is subscribing is waited for.                                  *)
Disconnect(p) ==
  /\ closing[p] = "flushing" /\ Alive(p)
  /\ ~Calling(p)
  /\ member[p] # "subscribe"
  /\ closing' = [closing EXCEPT ![p] = "closed"]
  /\ IF member[p] = "joined"
       THEN /\ member' = [member EXCEPT ![p] = "left"]
            /\ owner' = [t \in Partition |-> IF owner[t] = p THEN Nobody ELSE owner[t]]
       ELSE UNCHANGED <<member, owner>>
  /\ UNCHANGED <<setup, log, committed, position, buffer, inFlight, loopVars, aborted,
                 used, historyVars>>

Crash(p) ==
  /\ Alive(p) /\ closing[p] # "closed"
  /\ Spend("troubles", setup.maxTroubles)
  /\ Die(p)
  /\ UNCHANGED <<setup, log, committed, position, closing, aborted, historyVars>>

(* A new process with a new instance.                                      *)
Restart(p) ==
  /\ \E c \in At(p) : pc[c] = "crashed"
  /\ closing' = [closing EXCEPT ![p] = "open"]
  /\ pc' = [c \in Consumer |-> IF c \in At(p) THEN "start" ELSE pc[c]]
  /\ aborted' = [c \in Consumer |-> IF c \in At(p) THEN FALSE ELSE aborted[c]]
  /\ UNCHANGED <<setup, brokerVars, member, buffer, inFlight, hand, used, historyVars>>

-----------------------------------------------------------------------------
Starting(p) == StartConsumer(p) \/ Connected(p) \/ Subscribed(p)
Looping(c)  == Enter(c) \/ Take(c) \/ Sleep(c) \/ Return(c)
Settling(c) == Ack(c) \/ Reject(c) \/ SettleAgain(c) \/ Publish(c) \/ Commit(c)

Next ==
  \/ \E m \in Message : Send(m)
  \/ \E t \in Partition : Assign(t) \/ Rebalance(t) \/ Push(t)
  \/ \E p \in Process : Starting(p) \/ StartFails(p)
  \/ \E c \in Consumer : Looping(c) \/ Settling(c) \/ Abort(c)
  \/ \E p \in Process : Close(p) \/ Disconnect(p) \/ Crash(p) \/ Restart(p)

Spec == Init /\ [][Next]_vars

(* A process whose loops have all returned (messenger:consume closes its   *)
(* transport then).                                                        *)
Finished(p) == \A c \in At(p) : pc[c] = "returned"

(* Fairness: Kafka assigns and pushes, processes run on, settle what they  *)
(* hold, close when their loops are over, and are restarted when they died.*)
Fairness ==
  /\ \A t \in Partition : WF_vars(Assign(t)) /\ WF_vars(Push(t))
  /\ \A c \in Consumer : WF_vars(Looping(c)) /\ WF_vars(Settling(c))
  /\ \A p \in Process : /\ WF_vars(Starting(p)) /\ WF_vars(Disconnect(p))
                        /\ WF_vars(Restart(p)) /\ WF_vars(Finished(p) /\ Close(p))

FairSpec == Spec /\ Fairness

-----------------------------------------------------------------------------
(* Safety                                                                  *)

Sent  == {Content(r) : r \in Records} \ Foreign
Done  == {Content(r) : r \in acked}

Ahead(r) == Offset(r) > committed[Partit(r)]

(* Every process runs one loop, as messenger:consume does.                 *)
OneLoopEach == \A c, d \in Consumer : home[c] = home[d] => c = d

(* At least once: a message that is on the topic and was not acknowledged  *)
(* has a record the committed offset has not passed, so whoever gets the   *)
(* partition next gets the message: through crashes, rebalances that leave *)
(* a buffer behind, commits of members that lost the partition, which may  *)
(* go backwards, and publishes and commits that fail.  Where loops share   *)
(* an instance this is not so, and a message may only be in their hands.   *)
NoLoss ==
  OneLoopEach \/ used.troubles = 0 =>
    \A m \in Sent \ Done :
      \/ \E r \in Records : Content(r) = m /\ Ahead(r)
      \/ ~OneLoopEach /\ \E c \in Consumer : hand[c] # NoRecord /\ Content(hand[c]) = m

(* While no member loses a partition but by close(), no record is handled  *)
(* by two consumers, nor again after it was settled.  Where loops share an *)
(* instance, and so commit out of order, a later offset may be taken back, *)
(* and the next member starts there: the latter holds until one leaves.    *)
NobodyLeft == \A p \in Process : member[p] # "left"

NotHandledTwice ==
  used.troubles = 0 =>
    \A c \in Consumer :
      pc[c] = "handle" =>
        /\ OneLoopEach \/ NobodyLeft => hand[c] \notin acked \union copied
        /\ \A d \in Consumer : pc[d] = "handle" /\ hand[d] = hand[c] => c = d

-----------------------------------------------------------------------------
(* Liveness                                                                *)

(* A member of the group that nobody will disconnect: it was closed while  *)
(* it was still connecting, and joined after that.                         *)
Lingers(p) == closing[p] = "closed" /\ member[p] \in {"connect", "subscribe", "joined"}

(* From some point on, every message on the topic is acknowledged, unless  *)
(* every loop stops or a closed instance keeps its partition.  Where loops *)
(* share an instance a message may be lost.                                *)
Settles ==
  <>[](OneLoopEach =>
         \/ Sent \subseteq Done
         \/ \A c \in Consumer : ShouldStop(c)
         \/ \E p \in Process : Lingers(p))
=============================================================================
