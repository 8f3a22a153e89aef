----------------------------- MODULE Messenger -----------------------------
(***************************************************************************)
(* The life of a message across the whole library: dispatched through the  *)
(* bus, stored by a transport, pulled by workers, handled, retried,        *)
(* dead-lettered, and brought back by the messenger:failed:* commands.     *)
(*                                                                         *)
(* Every actor that runs the middleware pipeline (pipeline.factory.ts) is  *)
(* the same state machine: a worker per messenger:consume process, and one *)
(* dispatching caller per message.  The transports are queues of one SQL   *)
(* table (transport-sql), the transport whose every operation is one       *)
(* statement or one transaction; what is below an operation (connections,  *)
(* LISTEN/NOTIFY, close()) is not here.  An operation on a transport is    *)
(* one step, and in a fault it may fail with or without its effect: the    *)
(* reply can be lost after the commit.                                     *)
(***************************************************************************)
EXTENDS Naturals, Sequences, FiniteSets

CONSTANTS
  Message,            \* the messages dispatched; each is dispatched once
  Worker,             \* the worker processes
  Transport,          \* the transport aliases
  NoTransport,        \* "no alias"
  NoEnvelope,         \* "nothing being dispatched"
  Setups              \* the deployments that are looked at

AllFaultKinds == {"middleware", "send", "settle", "crash", "slow"}

(* A deployment: the messages dispatched, the alias of the failure         *)
(* transport (or NoTransport), the sequence of aliases each message is     *)
(* routed to, the alias each worker consumes, the names of the handlers of *)
(* every message in order, whether a retry policy is configured and its    *)
(* maxRetries; and the bounds: the faults that may happen, how many of     *)
(* them, of handler failures and of messenger:failed:* commands.           *)
ASSUME SetupsAssumption ==
  \A s \in Setups :
    /\ s.messages \subseteq Message
    /\ s.failure \in Transport \union {NoTransport}
    /\ s.routes \in [Message -> Seq(Transport \ {s.failure})]
    /\ s.consumes \in [Worker -> Transport]
    /\ Len(s.handlers) > 0
    /\ s.retry \in BOOLEAN
    /\ s.maxRetries \in Nat
    /\ s.faultKinds \subseteq AllFaultKinds
    /\ s.maxFaults \in Nat /\ s.maxFailures \in Nat /\ s.maxCommands \in Nat

ASSUME NamesAssumption == NoTransport \notin Transport /\ Message \intersect Worker = {}

VARIABLES
  setup,              \* the deployment: chosen once
  rows,               \* the table: every stored message
  nextId,             \* its identity column
  pc,                 \* [Actor -> where it is in the pipeline]
  env,                \* [Actor -> the envelope it dispatches]
  ran,                \* [Actor -> names of the HandledStamps so far]
  routed,             \* [Message -> how many of its routes were sent]
  inFlight,           \* [Worker -> ids in its transport's in-flight registry]
  command,            \* the messenger:failed:* command being run
  used,               \* how much of each bound is used
  accepted,           \* history: duties a transport stored at dispatch
  completed,          \* history: duties a whole pass of the handlers finished
  discarded,          \* history: duties dropped or removed on purpose
  ranOk,              \* history: <<duty, handler>> that succeeded
  attempts            \* history: [duty -> deliveries that reached the handlers]

pipelineVars == <<pc, env, ran, routed, inFlight>>
historyVars  == <<accepted, completed, discarded, ranOk, attempts>>
vars == <<setup, rows, nextId, pipelineVars, command, used, historyVars>>

Failure      == setup.failure
Routes       == setup.routes
Consumes     == setup.consumes
HandlerNames == setup.handlers
RetryEnabled == setup.retry
MaxRetries   == setup.maxRetries

Actor   == Worker \union Message
Handler == 1 .. Len(HandlerNames)
Aliases == Transport \union {NoTransport}

(* A duty is what a transport owes: one message on one of its routes.      *)
Duty == Message \X Aliases

(* The part of an envelope that crosses the wire.  home is a history field:*)
(* the route the message was first stored on.                              *)
Wire == [msg : Message, home : Aliases, count : Nat, delayed : BOOLEAN,
         handled : SUBSET {HandlerNames[h] : h \in Handler}, failedFrom : Aliases]

Row == [id : Nat, at : Transport, wire : Wire, due : BOOLEAN, held : BOOLEAN]

Envelope == [wire : Wire, id : Nat, receivedFrom : Aliases]

DutyOf(wire) == <<wire.msg, wire.home>>

NewEnvelope(m) ==
  [wire |-> [msg |-> m, home |-> NoTransport, count |-> 0, delayed |-> FALSE,
             handled |-> {}, failedFrom |-> NoTransport],
   id |-> 0, receivedFrom |-> NoTransport]

Idle == [stage |-> "none", todo |-> {}]

TypeOK ==
  /\ setup \in Setups
  /\ rows \subseteq Row
  /\ nextId \in Nat
  /\ pc \in [Actor -> {"start", "route", "handle", "resend", "deadletter",
                       "returned", "threw", "idle", "stopped"}]
  /\ env \in [Actor -> Envelope \union {NoEnvelope}]
  /\ ran \in [Actor -> SUBSET {HandlerNames[h] : h \in Handler}]
  /\ routed \in [Message -> Nat]
  /\ inFlight \in [Worker -> SUBSET Nat]
  /\ command \in [stage : {"none", "retry", "remove", "retried"},
                  todo : SUBSET [id : Nat, wire : Wire]]
  /\ used \in [{"faults", "failures", "commands"} -> Nat]
  /\ accepted \subseteq Duty /\ completed \subseteq Duty /\ discarded \subseteq Duty
  /\ ranOk \subseteq Duty \X Handler
  /\ attempts \in [Duty -> Nat]

Init ==
  /\ setup \in Setups
  /\ rows = {}
  /\ nextId = 0
  /\ pc = [a \in Actor |-> IF a \in Worker THEN "idle"
                          ELSE IF a \in setup.messages THEN "start" ELSE "stopped"]
  /\ env = [a \in Actor |-> IF a \in Worker THEN NoEnvelope ELSE NewEnvelope(a)]
  /\ ran = [a \in Actor |-> {}]
  /\ routed = [m \in Message |-> 0]
  /\ inFlight = [w \in Worker |-> {}]
  /\ command = Idle
  /\ used = [b \in {"faults", "failures", "commands"} |-> 0]
  /\ accepted = {} /\ completed = {} /\ discarded = {} /\ ranOk = {}
  /\ attempts = [d \in Duty |-> 0]

Goto(a, label) == pc' = [pc EXCEPT ![a] = label]

(* One fault of the given kind happens.                                    *)
Fault(kind) ==
  /\ kind \in setup.faultKinds
  /\ used.faults < setup.maxFaults
  /\ used' = [used EXCEPT !.faults = @ + 1]

-----------------------------------------------------------------------------
(* The table                                                               *)

NewRow(alias, wire) ==
  [id |-> nextId, at |-> alias, wire |-> wire, due |-> ~wire.delayed, held |-> FALSE]

Insert(alias, wire) ==
  /\ rows' = rows \union {NewRow(alias, wire)}
  /\ nextId' = nextId + 1

Without(id) == {r \in rows : r.id # id}

(* Mutant of Delete: the row stays.                                        *)
DeleteNothing(id) == rows' = rows /\ UNCHANGED nextId

Delete(id) == rows' = Without(id) /\ UNCHANGED nextId

Unchanged == UNCHANGED <<rows, nextId>>

Claimable(r, alias) == r.at = alias /\ r.due /\ ~r.held

(* Oldest first.  When a delayed message becomes due relative to the       *)
(* others is not tracked, so one may be claimed in any order.              *)
MayClaim(r, alias) ==
  /\ Claimable(r, alias)
  /\ \A o \in rows :
       Claimable(o, alias) /\ ~o.wire.delayed /\ ~r.wire.delayed => r.id <= o.id

(* Mutant of Redeliver: the count goes the wrong way.                      *)
RedeliverUncounted(alias, id, wire) ==
  /\ rows' = Without(id) \union {NewRow(alias, [wire EXCEPT !.count = @ - 1])}
  /\ nextId' = nextId + 1

(* The redelivered copy and the removal of the original: one transaction.  *)
Redeliver(alias, id, wire) ==
  /\ rows' = Without(id) \union {NewRow(alias, [wire EXCEPT !.count = @ + 1])}
  /\ nextId' = nextId + 1

(* Mutant of SendTo: a failed send is swallowed.                           *)
SendSwallowed(a, alias, wire, ok) ==
  \/ Insert(alias, wire) /\ Goto(a, ok) /\ UNCHANGED used
  \/ Fault("send") /\ Goto(a, ok) /\ (Insert(alias, wire) \/ Unchanged)

(* send() by actor a, which goes on at label ok, or at threw when it fails *)
(* or its reply is lost.                                                   *)
SendTo(a, alias, wire, ok) ==
  \/ Insert(alias, wire) /\ Goto(a, ok) /\ UNCHANGED used
  \/ Fault("send") /\ Goto(a, "threw") /\ (Insert(alias, wire) \/ Unchanged)

(* available_at is reached.                                                *)
BecomeDue(r) ==
  /\ ~r.due
  /\ rows' = (rows \ {r}) \union {[r EXCEPT !.due = TRUE]}
  /\ UNCHANGED <<setup, nextId, pipelineVars, command, used, historyVars>>

(* Mutant of Expire: only what a live process still holds is redelivered.  *)
ExpireInFlightOnly(r) ==
  /\ r.held
  /\ \E w \in Worker : r.id \in inFlight[w]
  /\ Fault("slow")
  /\ rows' = (rows \ {r}) \union {[r EXCEPT !.held = FALSE]}
  /\ UNCHANGED <<setup, nextId, pipelineVars, command, historyVars>>

(* The redeliver timeout resurrects a claimed row: that of a worker that   *)
(* is gone, or that of one that is merely slow.                            *)
Expire(r) ==
  /\ r.held
  /\ IF \E w \in Worker : r.id \in inFlight[w] THEN Fault("slow") ELSE UNCHANGED used
  /\ rows' = (rows \ {r}) \union {[r EXCEPT !.held = FALSE]}
  /\ UNCHANGED <<setup, nextId, pipelineVars, command, historyVars>>

-----------------------------------------------------------------------------
(* The pipeline: FailedMessageProcessing, user middlewares, SendMessage,   *)
(* Retry, HandleMessage                                                    *)

Carried(a) == env[a].wire

(* A message that comes from the failure transport looks as if it had been *)
(* received from its original transport.                                   *)
RestoreOrigin(e) ==
  IF e.wire.failedFrom = NoTransport THEN e ELSE [e EXCEPT !.receivedFrom = e.wire.failedFrom]

(* A received message goes on to its handlers, a routed one is sent, and   *)
(* one that is routed nowhere is handled by its caller.                    *)
Enter(a) ==
  /\ pc[a] = "start"
  /\ env' = [env EXCEPT ![a] = RestoreOrigin(@)]
  /\ IF a \in Message /\ Routes[a] # <<>>
       THEN Goto(a, "route") /\ UNCHANGED attempts
       ELSE /\ Goto(a, "handle")
            /\ attempts' = [attempts EXCEPT ![DutyOf(Carried(a))] = @ + 1]
  /\ ran' = [ran EXCEPT ![a] = Carried(a).handled]
  /\ UNCHANGED <<setup, rows, nextId, routed, inFlight, command, used,
                 accepted, completed, discarded, ranOk>>

(* An infrastructure error before any handler runs: a user middleware      *)
(* throws, or this process has no handler for the message.                 *)
MiddlewareThrows(a) ==
  /\ pc[a] = "start"
  /\ Fault("middleware")
  /\ Goto(a, "threw")
  /\ UNCHANGED <<setup, rows, nextId, env, ran, routed, inFlight, command, historyVars>>

(* SendMessageMiddleware: one route after the other, each awaited; the     *)
(* first that fails rejects the dispatch and leaves the earlier copies.    *)
Route(m) ==
  LET alias == Routes[m][routed[m] + 1]
      copy  == [Carried(m) EXCEPT !.home = alias]
  IN
  /\ pc[m] = "route"
  /\ SendTo(m, alias, copy, IF routed[m] + 1 = Len(Routes[m]) THEN "returned" ELSE "route")
  /\ routed' = [routed EXCEPT ![m] = @ + 1]
  /\ accepted' = IF rows' = rows THEN accepted ELSE accepted \union {DutyOf(copy)}
  /\ UNCHANGED <<setup, env, ran, inFlight, command, completed, discarded, ranOk, attempts>>

(* HandleMessageMiddleware: the first handler whose name has no stamp yet. *)
NextHandler(a, h) ==
  /\ HandlerNames[h] \notin ran[a]
  /\ \A g \in 1 .. (h - 1) : HandlerNames[g] \in ran[a]

(* Mutant of AllStamped: one handler is enough.                            *)
AnyStamped(stamps) == \E h \in Handler : HandlerNames[h] \in stamps

AllStamped(stamps) == \A h \in Handler : HandlerNames[h] \in stamps

HandlerSucceeds(a) ==
  /\ pc[a] = "handle"
  /\ \E h \in Handler :
       /\ NextHandler(a, h)
       /\ ran' = [ran EXCEPT ![a] = @ \union {HandlerNames[h]}]
       /\ ranOk' = ranOk \union {<<DutyOf(Carried(a)), h>>}
  /\ IF AllStamped(ran'[a])
       THEN Goto(a, "returned") /\ completed' = completed \union {DutyOf(Carried(a))}
       ELSE UNCHANGED <<pc, completed>>
  /\ UNCHANGED <<setup, rows, nextId, env, routed, inFlight, command, used,
                 accepted, discarded, attempts>>

(* Mutant of Exhausted: the budget ends one retry early.                   *)
ExhaustedEarly(a) == Carried(a).count + 1 >= MaxRetries

(* A handler throws.  RetryMiddleware decides on the envelope it was given,*)
(* not on the stamps of the handlers that succeeded: rethrow when there is *)
(* no transport to retry on, resend while the budget lasts, then the       *)
(* failure transport, or drop the message when there is none.              *)
Exhausted(a) == Carried(a).count >= MaxRetries

HandlerFails(a) ==
  /\ pc[a] = "handle"
  /\ \E h \in Handler : NextHandler(a, h)
  /\ used.failures < setup.maxFailures
  /\ used' = [used EXCEPT !.failures = @ + 1]
  /\ \/ /\ ~RetryEnabled \/ env[a].receivedFrom = NoTransport
        /\ Goto(a, "threw")
        /\ UNCHANGED discarded
     \/ /\ RetryEnabled /\ env[a].receivedFrom # NoTransport
        /\ ~Exhausted(a)
        /\ Goto(a, "resend")
        /\ UNCHANGED discarded
     \/ /\ RetryEnabled /\ env[a].receivedFrom # NoTransport
        /\ Exhausted(a) /\ Failure # NoTransport
        /\ Goto(a, "deadletter")
        /\ UNCHANGED discarded
     \/ /\ RetryEnabled /\ env[a].receivedFrom # NoTransport
        /\ Exhausted(a) /\ Failure = NoTransport
        /\ Goto(a, "returned")
        /\ discarded' = discarded \union {DutyOf(Carried(a))}
  /\ UNCHANGED <<setup, rows, nextId, env, ran, routed, inFlight, command,
                 accepted, completed, ranOk, attempts>>

(* What is resent for a retry: the envelope as it was received, with one   *)
(* more redelivery and a delay.                                            *)
Retried(e) == [e.wire EXCEPT !.count = @ + 1, !.delayed = TRUE]

(* Mutant of DeadLetter: the delay of the last retry is kept.              *)
DeadLetterDelayed(e) == [e.wire EXCEPT !.failedFrom = e.receivedFrom]

(* What goes to the failure transport: no delay, and the name of the       *)
(* transport it failed on.                                                 *)
DeadLetter(e) == [e.wire EXCEPT !.delayed = FALSE, !.failedFrom = e.receivedFrom]

ResendForRetry(w) ==
  /\ pc[w] = "resend"
  /\ SendTo(w, env[w].receivedFrom, Retried(env[w]), "returned")
  /\ UNCHANGED <<setup, env, ran, routed, inFlight, command, historyVars>>

SendToFailureTransport(w) ==
  /\ pc[w] = "deadletter"
  /\ SendTo(w, Failure, DeadLetter(env[w]), "returned")
  /\ UNCHANGED <<setup, env, ran, routed, inFlight, command, historyVars>>

-----------------------------------------------------------------------------
(* The worker                                                              *)

(* get() yields: the row is claimed and registered in flight.              *)
Receive(w) ==
  /\ pc[w] = "idle"
  /\ \E r \in rows :
       /\ MayClaim(r, Consumes[w])
       /\ rows' = (rows \ {r}) \union {[r EXCEPT !.held = TRUE]}
       /\ env' = [env EXCEPT ![w] = [wire |-> r.wire, id |-> r.id, receivedFrom |-> r.at]]
       /\ inFlight' = [inFlight EXCEPT ![w] = @ \union {r.id}]
  /\ Goto(w, "start")
  /\ UNCHANGED <<setup, nextId, ran, routed, command, used, historyVars>>

Settled(w) ==
  /\ inFlight' = [inFlight EXCEPT ![w] = @ \ {env[w].id}]
  /\ env' = [env EXCEPT ![w] = NoEnvelope]
  /\ ran' = [ran EXCEPT ![w] = {}]

(* dispatch() resolved: ack.  When the ack fails the worker stops, and the *)
(* message is never rejected for it.                                       *)
Ack(w) ==
  /\ w \in Worker
  /\ pc[w] = "returned"
  /\ \/ Delete(env[w].id) /\ Goto(w, "idle") /\ UNCHANGED used
     \/ Fault("settle") /\ Goto(w, "stopped") /\ (Delete(env[w].id) \/ Unchanged)
  /\ Settled(w)
  /\ UNCHANGED <<setup, routed, command, historyVars>>

(* dispatch() threw: reject, which is a no-op when the delivery is no      *)
(* longer in the registry.                                                 *)
Reject(w) ==
  /\ w \in Worker
  /\ pc[w] = "threw"
  /\ IF env[w].id \in inFlight[w]
       THEN \/ Redeliver(Consumes[w], env[w].id, Carried(w)) /\ Goto(w, "idle") /\ UNCHANGED used
            \/ /\ Fault("settle") /\ Goto(w, "stopped")
               /\ Redeliver(Consumes[w], env[w].id, Carried(w)) \/ Unchanged
       ELSE Unchanged /\ Goto(w, "idle") /\ UNCHANGED used
  /\ Settled(w)
  /\ UNCHANGED <<setup, routed, command, historyVars>>

(* The process dies: its registry and what it was doing are lost.          *)
Crash(w) ==
  /\ pc[w] # "stopped"
  /\ Fault("crash")
  /\ Goto(w, "stopped")
  /\ inFlight' = [inFlight EXCEPT ![w] = {}]
  /\ env' = [env EXCEPT ![w] = NoEnvelope]
  /\ ran' = [ran EXCEPT ![w] = {}]
  /\ UNCHANGED <<setup, rows, nextId, routed, command, historyVars>>

Restart(w) ==
  /\ pc[w] = "stopped"
  /\ Goto(w, "idle")
  /\ UNCHANGED <<setup, rows, nextId, env, ran, routed, inFlight, command, used,
                 historyVars>>

-----------------------------------------------------------------------------
(* messenger:failed:retry and messenger:failed:remove                      *)

FailedRows == {r \in rows : r.at = Failure}

(* list() of the whole failure transport, or find() of the one id that was *)
(* typed: a snapshot, claimed rows included, on which the command then     *)
(* works one by one.  find() looks in the whole table.                     *)
StartCommand ==
  /\ Failure # NoTransport
  /\ command = Idle
  /\ used.commands < setup.maxCommands
  /\ used' = [used EXCEPT !.commands = @ + 1]
  /\ \E S \in {{r} : r \in rows} \union {FailedRows}, c \in {"retry", "remove"} :
       /\ S # {}
       /\ command' = [stage |-> c, todo |-> {[id |-> r.id, wire |-> r.wire] : r \in S}]
  /\ UNCHANGED <<setup, rows, nextId, pipelineVars, historyVars>>

Revived(w) == [w EXCEPT !.count = 0, !.failedFrom = NoTransport]

(* The oldest of the snapshot is next: list() is in id order.              *)
NextTodo(e) == e \in command.todo /\ \A o \in command.todo : e.id <= o.id

(* resendToOrigin(): a fresh delivery on the transport it failed on.  The  *)
(* command is aborted when the send fails, or when the message names no    *)
(* such transport.                                                         *)
ResendToOrigin ==
  /\ command.stage = "retry"
  /\ \E e \in command.todo :
       /\ NextTodo(e)
       /\ \/ /\ e.wire.failedFrom # NoTransport
             /\ Insert(e.wire.failedFrom, Revived(e.wire))
             /\ command' = [command EXCEPT !.stage = "retried"]
             /\ UNCHANGED used
          \/ /\ e.wire.failedFrom # NoTransport
             /\ Fault("send")
             /\ Insert(e.wire.failedFrom, Revived(e.wire)) \/ Unchanged
             /\ command' = Idle
          \/ /\ e.wire.failedFrom = NoTransport
             /\ command' = Idle
             /\ Unchanged /\ UNCHANGED used
  /\ UNCHANGED <<setup, pipelineVars, historyVars>>

(* The stage of the command once e is dealt with.                          *)
After(e) ==
  IF command.todo = {e} THEN Idle
    ELSE [stage |-> IF command.stage = "retried" THEN "retry" ELSE "remove",
          todo  |-> command.todo \ {e}]

(* ack() of the failure transport: deletes the row wherever it stands, and *)
(* does nothing when a settlement was faster.                              *)
RemoveFailed ==
  /\ command.stage \in {"retried", "remove"}
  /\ \E e \in command.todo :
       /\ NextTodo(e)
       /\ \/ Delete(e.id) /\ command' = After(e) /\ UNCHANGED used
          \/ Fault("settle") /\ command' = Idle /\ (Delete(e.id) \/ Unchanged)
       /\ discarded' = discarded \union
            {DutyOf(r.wire) : r \in IF command.stage = "remove" THEN rows \ rows' ELSE {}}
  /\ UNCHANGED <<setup, pipelineVars, accepted, completed, ranOk, attempts>>

-----------------------------------------------------------------------------
Dispatching(m) == Enter(m) \/ MiddlewareThrows(m) \/ Route(m)
                    \/ HandlerSucceeds(m) \/ HandlerFails(m)

Working(w) == \/ Receive(w) \/ Enter(w) \/ MiddlewareThrows(w)
              \/ HandlerSucceeds(w) \/ HandlerFails(w)
              \/ ResendForRetry(w) \/ SendToFailureTransport(w)
              \/ Ack(w) \/ Reject(w) \/ Restart(w)

Next ==
  \/ \E m \in Message : Dispatching(m)
  \/ \E w \in Worker : Working(w) \/ Crash(w)
  \/ \E r \in rows : BecomeDue(r) \/ Expire(r)
  \/ StartCommand \/ ResendToOrigin \/ RemoveFailed

Spec == Init /\ [][Next]_vars

(* Fairness: a process runs on and is restarted when it stopped, the clock *)
(* reaches every available_at and every redeliver timeout.  Nothing is     *)
(* assumed of the operator.                                                *)
Fairness ==
  /\ \A m \in Message : WF_vars(Dispatching(m))
  /\ \A w \in Worker : WF_vars(Working(w))
  /\ WF_vars(\E r \in rows : BecomeDue(r))
  /\ WF_vars(\E r \in rows : Expire(r))

FairSpec == Spec /\ Fairness

-----------------------------------------------------------------------------
(* Safety                                                                  *)

RowsOf(d) == {r \in rows : DutyOf(r.wire) = d}

Done == completed \union discarded

(* At least once: what a transport accepted is in the table until all its  *)
(* handlers finished or it was dropped on purpose, through every crash,    *)
(* failed settlement and lost reply; and a dispatch() that returned has    *)
(* been accepted on every one of its routes.                               *)
NoLoss ==
  /\ \A d \in accepted : d \in Done \/ RowsOf(d) # {}
  /\ \A m \in Message :
       pc[m] = "returned" =>
         \A i \in DOMAIN Routes[m] : <<m, Routes[m][i]>> \in accepted

(* A message is marked as failed exactly while it is in the failure        *)
(* transport; there it is visible at once, has used up its retries and     *)
(* names the transport to bring it back to, however often it failed again  *)
(* and whoever consumed it.                                                *)
DeadLettersReplayable ==
  \A r \in rows :
    IF r.at = Failure
      THEN /\ r.wire.failedFrom \in Transport \ {Failure}
           /\ r.wire.failedFrom = r.wire.home
           /\ r.due
           /\ r.wire.count >= MaxRetries
      ELSE r.wire.failedFrom = NoTransport

(* Without a fault a message is in one place: a row besides the one that   *)
(* is about to be deleted (by the worker that dealt with it or by the      *)
(* operator's retry) never exists.  Holds as long as the operator has the  *)
(* failure transport to himself, and where no message is routed to one     *)
(* transport twice (routing-senders-locator.ts takes the aliases as they   *)
(* are configured: twice the same alias, and there are two rows).          *)
LeavingIds ==
  {env[w].id : w \in {v \in Worker : pc[v] = "returned"}}
    \union (IF command.stage = "retried"
               THEN {e.id : e \in {f \in command.todo : NextTodo(f)}} ELSE {})

OperatorAlone == \A w \in Worker : Consumes[w] # Failure

RoutesApart ==
  \A m \in Message : \A i, j \in DOMAIN Routes[m] : Routes[m][i] = Routes[m][j] => i = j

NotDuplicated ==
  used.faults = 0 /\ OperatorAlone /\ RoutesApart =>
    \A d \in accepted : \A r, s \in {x \in RowsOf(d) : x.id \notin LeavingIds} : r = s

(* Without a fault the retry budget is kept exactly.  With a retry policy  *)
(* a message reaches its handlers once and at most MaxRetries times more,  *)
(* again for each command that revived it; and nothing is given up early:  *)
(* a message in the failure transport, or dropped where there is none, had *)
(* its first attempt and all of its retries.                               *)
WithinBudget(d) == attempts[d] <= (MaxRetries + 1) * (1 + used.commands)

GivenUp(d) ==
  (\E r \in RowsOf(d) : r.at = Failure) \/ (d \in discarded /\ used.commands = 0)

RetryBudget ==
  used.faults = 0 =>
    \A d \in accepted :
      /\ OperatorAlone /\ RoutesApart /\ RetryEnabled => WithinBudget(d)
      /\ GivenUp(d) => attempts[d] > MaxRetries

(* A message counts as handled only when every handler succeeded for it,   *)
(* in whichever of its deliveries.                                         *)
AllHandlersRan ==
  \A d \in completed : \A h \in Handler : <<d, h>> \in ranOk

-----------------------------------------------------------------------------
(* What the documentation says and the code does not do                    *)

(* handle-message.middleware.ts: a redelivered multi-handler message does  *)
(* not run the handlers again that succeeded.                              *)
HandlersNotRerun ==
  [][\A a \in Actor :
       pc[a] = "handle" /\ ran[a] \subseteq ran'[a] /\ ran'[a] # ran[a]
         => ranOk' # ranOk]_vars

-----------------------------------------------------------------------------
(* Liveness                                                                *)

(* From some point on, everything that was accepted is handled, dropped on *)
(* purpose, or dead-lettered.                                              *)
Settles ==
  <>[](\A d \in accepted : d \in Done \/ \E r \in RowsOf(d) : r.at = Failure)
=============================================================================
