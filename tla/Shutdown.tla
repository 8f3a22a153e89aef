------------------------------ MODULE Shutdown ------------------------------
(***************************************************************************)
(* How a consuming process stops: messenger:consume runs one Worker on a   *)
(* transport until a limit is reached or a signal arrives, and then closes *)
(* that transport; an application that shuts down closes all of them at    *)
(* once (messenger-transports.lifecycle.ts), also under a running worker.  *)
(* The worker's handler may be failing just then, and its retry or its dead*)
(* letter meets a transport that is closing.                               *)
(*                                                                         *)
(* The transports store what is sent, refuse to send once close() was      *)
(* called, and resolve close() when what is in flight has been settled and *)
(* what is pending has been answered.  Getting a message takes two steps,  *)
(* as in the transports that ask a server: close() may be called between   *)
(* them, and then some transports leave the message unread                 *)
(* (redis-streams.transport.ts:137) and some deliver it all the same,      *)
(* after close() has looked for deliveries (sql.transport.ts:148-167).     *)
(***************************************************************************)
EXTENDS Naturals

CONSTANTS
  Message,            \* the messages waiting when the command starts
  Consumed,           \* the transport messenger:consume was given
  Failed,             \* the failure transport
  NoMessage,          \* "no message in hand"
  Setups              \* the runs that are looked at

(* A run: maxMessages, 0 for none; whether it has a time or memory limit;  *)
(* whether the application is closed under it; whether an onError hook     *)
(* throws, which only one who runs a Worker without the command can pass;  *)
(* and the bounds: on handlers that fail, on signals, and on calls to a    *)
(* transport that fail.                                                    *)
ASSUME SetupsAssumption ==
  \A s \in Setups :
    /\ s.maxMessages \in Nat
    /\ {s.otherLimits, s.appCloses, s.hookThrows} \subseteq BOOLEAN
    /\ s.maxFailures \in Nat /\ s.maxSignals \in Nat /\ s.maxTroubles \in Nat

ASSUME NamesAssumption == Consumed # Failed /\ NoMessage \notin Message

VARIABLES
  setup,              \* the run: chosen once
  copies,             \* [transport -> [message -> copies stored]]
  closing,            \* [transport -> how far its close() is]
  worker,             \* where the worker is
  hand,               \* the message it has
  inFlight,           \* the transport's registry has that message
  late,               \* it was put there when close() had stopped looking
  aborted,            \* the worker's AbortController
  processed,          \* messages it settled
  listening,          \* the signals the command still has a listener for
  command,            \* how far messenger:consume is
  app,                \* how far the application's shutdown is
  appCloses,          \* the transports whose close() that waits for
  used,               \* how much of each bound is used
  taken,              \* history: messages get() yielded
  done                \* history: messages whose handlers succeeded

transportVars == <<copies, closing>>
workerVars    == <<worker, hand, inFlight, late, aborted, processed>>
shutdownVars  == <<listening, command, app, appCloses>>
vars == <<setup, transportVars, workerVars, shutdownVars, used, taken, done>>

Transport == {Consumed, Failed}

(* Type invariant.                                                         *)
TypeOK ==
  /\ setup \in Setups
  /\ copies \in [Transport -> [Message -> Nat]]
  /\ closing \in [Transport -> {"open", "closing", "closed", "broken"}]
  /\ worker \in {"get", "claim", "dispatch", "resend", "deadletter", "failed", "acking",
                 "rejecting", "ended", "threw"}
  /\ hand \in Message \union {NoMessage}
  /\ inFlight \in BOOLEAN /\ late \in BOOLEAN /\ aborted \in BOOLEAN /\ processed \in Nat
  /\ listening \subseteq {"SIGTERM", "SIGINT"}
  /\ command \in {"running", "closing", "ended", "killed"}
  /\ app \in {"up", "closing", "closed", "failed"}
  /\ appCloses \subseteq Transport
  /\ used \in [{"failures", "signals", "troubles"} -> Nat]
  /\ taken \in Nat /\ done \subseteq Message
  /\ inFlight => hand # NoMessage
  /\ worker \in {"get", "ended"} => hand = NoMessage

Init ==
  /\ setup \in Setups
  /\ copies = [t \in Transport |-> [m \in Message |-> IF t = Consumed THEN 1 ELSE 0]]
  /\ closing = [t \in Transport |-> "open"]
  /\ worker = "get" /\ hand = NoMessage /\ inFlight = FALSE /\ late = FALSE
  /\ aborted = FALSE /\ processed = 0
  /\ listening = {"SIGTERM", "SIGINT"} /\ command = "running"
  /\ app = "up" /\ appCloses = {}
  /\ used = [b \in {"failures", "signals", "troubles"} |-> 0]
  /\ taken = 0 /\ done = {}

Alive == command # "killed"

Spend(bound, limit) == used[bound] < limit /\ used' = [used EXCEPT ![bound] = @ + 1]
Trouble == Spend("troubles", setup.maxTroubles)

Store(t, m) == copies' = [copies EXCEPT ![t][m] = @ + 1]

Delete(m) == copies' = [copies EXCEPT ![Consumed][m] = @ - 1]

-----------------------------------------------------------------------------
(* The worker                                                              *)

(* Mutant of ShouldStop: the closing flag is not looked at.                *)
StopsWhenAborted == aborted

ShouldStop == aborted \/ closing[Consumed] # "open"

(* get() asks for a message ...                                            *)
Claim(m) ==
  /\ Alive /\ worker = "get" /\ ~ShouldStop
  /\ copies[Consumed][m] > 0
  /\ worker' = "claim" /\ hand' = m
  /\ UNCHANGED <<setup, transportVars, inFlight, late, aborted, processed, shutdownVars, used,
                 taken, done>>

(* ... and yields it, without another look at the closing flag ...         *)
Yield ==
  /\ Alive /\ worker = "claim"
  /\ worker' = "dispatch" /\ inFlight' = TRUE
  /\ late' = (closing[Consumed] # "open")
  /\ taken' = taken + 1
  /\ UNCHANGED <<setup, transportVars, hand, aborted, processed, shutdownVars, used, done>>

(* ... or fails.                                                           *)
ClaimFails ==
  /\ Alive /\ worker = "claim"
  /\ Trouble
  /\ worker' = "threw" /\ hand' = NoMessage
  /\ UNCHANGED <<setup, transportVars, inFlight, late, aborted, processed, shutdownVars,
                 taken, done>>

(* The loop ends; a transport that looks again leaves what it has just     *)
(* read to a later delivery.                                               *)
GetReturns ==
  /\ Alive /\ worker \in {"get", "claim"} /\ ShouldStop
  /\ worker' = "ended" /\ hand' = NoMessage
  /\ UNCHANGED <<setup, transportVars, inFlight, late, aborted, processed, shutdownVars, used,
                 taken, done>>

(* Mutant of Acknowledge: the message stays in the registry.               *)
AcknowledgeHeld == worker' = "acking" /\ UNCHANGED inFlight

(* The bus resolves: ack() takes the message out of the registry, and the  *)
(* transport deletes it.                                                   *)
Acknowledge == worker' = "acking" /\ inFlight' = FALSE

HandlersSucceed ==
  /\ Alive /\ worker = "dispatch"
  /\ Acknowledge
  /\ done' = done \union {hand}
  /\ UNCHANGED <<setup, transportVars, hand, late, aborted, processed, shutdownVars, used, taken>>

(* Mutant of Refused: a send that a closing transport refuses is ignored.  *)
RefusedIgnored == Acknowledge

(* A send that a closing transport refuses rejects the dispatch.           *)
Refused == worker' = "failed" /\ UNCHANGED inFlight

(* A handler fails: the message is sent again to its transport, or to the  *)
(* failure transport.  The closing flag is looked at now, not when the     *)
(* message is stored.                                                      *)
HandlerFails ==
  /\ Alive /\ worker = "dispatch"
  /\ Spend("failures", setup.maxFailures)
  /\ \E t \in Transport :
       \/ /\ closing[t] = "open"
          /\ worker' = IF t = Consumed THEN "resend" ELSE "deadletter"
          /\ UNCHANGED inFlight
       \/ closing[t] # "open" /\ Refused
  /\ UNCHANGED <<setup, transportVars, hand, late, aborted, processed, shutdownVars, taken,
                 done>>

SendingTo(t) == worker = IF t = Consumed THEN "resend" ELSE "deadletter"

SendResolves(t) ==
  /\ Alive /\ SendingTo(t)
  /\ Store(t, hand)
  /\ Acknowledge
  /\ UNCHANGED <<setup, closing, hand, late, aborted, processed, shutdownVars, used, taken,
                 done>>

(* The send fails, perhaps after the message was stored.                   *)
SendFails(t) ==
  /\ Alive /\ SendingTo(t)
  /\ Trouble
  /\ Store(t, hand) \/ UNCHANGED copies
  /\ worker' = "failed"
  /\ UNCHANGED <<setup, closing, hand, inFlight, late, aborted, processed, shutdownVars, taken,
                 done>>

(* An error of the infrastructure: the onError hook, then reject().        *)
Reject ==
  /\ Alive /\ worker = "failed"
  /\ IF setup.hookThrows
       THEN worker' = "threw" /\ UNCHANGED inFlight
       ELSE worker' = "rejecting" /\ inFlight' = FALSE
  /\ UNCHANGED <<setup, transportVars, hand, late, aborted, processed, shutdownVars, used,
                 taken, done>>

(* Mutant of ReachedLimit: one message too late.                           *)
ReachedLimitLate(n) == setup.maxMessages # 0 /\ n > setup.maxMessages

(* reachedLimit()                                                          *)
ReachedLimit(n) == setup.maxMessages # 0 /\ n >= setup.maxMessages

(* Mutant of Settled: a redelivery is a copy, the original is left.        *)
SettledTwice ==
  /\ Alive /\ worker \in {"acking", "rejecting"}
  /\ IF worker = "acking" THEN Delete(hand) ELSE Store(Consumed, hand)
  /\ worker' = "get" /\ hand' = NoMessage
  /\ processed' = processed + 1
  /\ \E full \in {FALSE, setup.otherLimits} :
       aborted' = (aborted \/ full \/ ReachedLimit(processed'))
  /\ UNCHANGED <<setup, closing, inFlight, late, shutdownVars, used, taken, done>>

(* The settlement resolves: the message is deleted, or a copy replaces it. *)
(* The worker aborts itself when a limit is reached; how much memory the   *)
(* process has by then is left open.                                       *)
Settled ==
  /\ Alive /\ worker \in {"acking", "rejecting"}
  /\ IF worker = "acking" THEN Delete(hand) ELSE UNCHANGED copies
  /\ worker' = "get" /\ hand' = NoMessage
  /\ processed' = processed + 1
  /\ \E full \in {FALSE, setup.otherLimits} :
       aborted' = (aborted \/ full \/ ReachedLimit(processed'))
  /\ UNCHANGED <<setup, closing, inFlight, late, shutdownVars, used, taken, done>>

SettlementFails ==
  /\ Alive /\ worker \in {"acking", "rejecting"}
  /\ Trouble
  /\ (worker = "acking" /\ Delete(hand)) \/ UNCHANGED copies
  /\ worker' = "threw" /\ hand' = NoMessage
  /\ UNCHANGED <<setup, closing, inFlight, late, aborted, processed, shutdownVars, taken, done>>

(* The settlement of a late delivery meets a connection that close() has   *)
(* ended: the message is left to another delivery.                         *)
LateRefused ==
  /\ Alive /\ worker \in {"acking", "rejecting"} /\ late
  /\ worker' = "threw" /\ hand' = NoMessage
  /\ UNCHANGED <<setup, transportVars, inFlight, late, aborted, processed, shutdownVars, used,
                 taken, done>>

(* The timer of the time limit.                                            *)
TimeLimit ==
  /\ Alive /\ setup.otherLimits /\ worker \notin {"ended", "threw"} /\ ~aborted
  /\ aborted' = TRUE
  /\ UNCHANGED <<setup, transportVars, worker, hand, inFlight, late, processed, shutdownVars,
                 used, taken, done>>

-----------------------------------------------------------------------------
(* The command, the application, signals                                   *)

(* close() of every transport of S; where it was called before it returns  *)
(* at once.                                                                *)
CallClose(S) ==
  closing' = [t \in Transport |-> IF t \in S /\ closing[t] = "open" THEN "closing" ELSE closing[t]]

(* The command's finally: the listeners are removed, then the transport is *)
(* closed.                                                                 *)
Finally ==
  /\ command = "running" /\ worker \in {"ended", "threw"}
  /\ listening' = {}
  /\ command' = IF closing[Consumed] = "open" THEN "closing" ELSE "ended"
  /\ CallClose({Consumed})
  /\ UNCHANGED <<setup, copies, workerVars, app, appCloses, used, taken, done>>

CommandEnds ==
  /\ command = "closing" /\ closing[Consumed] \in {"closed", "broken"}
  /\ command' = "ended"
  /\ UNCHANGED <<setup, transportVars, workerVars, listening, app, appCloses, used, taken, done>>

(* Mutant of Drained: what is pending is not waited for.                   *)
DrainedRegistryOnly(t) == t = Consumed => late \/ ~inFlight

(* What close() waits for: the delivery in flight and its settlement, or a *)
(* claim, whose late delivery it does not see, and a send under way.       *)
Drained(t) ==
  /\ t = Consumed =>
       /\ worker # "claim"
       /\ late \/ (~inFlight /\ worker \notin {"acking", "rejecting"})
  /\ ~SendingTo(t)

CloseResolves(t) ==
  /\ Alive /\ closing[t] = "closing" /\ Drained(t)
  /\ closing' = [closing EXCEPT ![t] = "closed"]
  /\ UNCHANGED <<setup, copies, workerVars, shutdownVars, used, taken, done>>

CloseFails(t) ==
  /\ Alive /\ closing[t] = "closing" /\ Drained(t)
  /\ Trouble
  /\ closing' = [closing EXCEPT ![t] = "broken"]
  /\ UNCHANGED <<setup, copies, workerVars, shutdownVars, taken, done>>

(* onApplicationShutdown(): every transport's close() is called at once.   *)
AppCloses ==
  /\ Alive /\ app = "up" /\ setup.appCloses
  /\ app' = "closing"
  /\ CallClose(Transport)
  /\ appCloses' = {t \in Transport : closing[t] = "open"}
  /\ UNCHANGED <<setup, copies, workerVars, listening, command, used, taken, done>>

(* Promise.all: resolved when all are, rejected with the first.            *)
AppClosed ==
  /\ Alive /\ app = "closing"
  /\ \/ (\A t \in appCloses : closing[t] = "closed") /\ app' = "closed"
     \/ (\E t \in appCloses : closing[t] = "broken") /\ app' = "failed"
  /\ UNCHANGED <<setup, transportVars, workerVars, listening, command, appCloses, used, taken,
                 done>>

(* SIGTERM or SIGINT.  The command listens for the first of each, and only *)
(* until its worker has ended; any other kills the process.                *)
Signal(kind) ==
  /\ command \in {"running", "closing"}
  /\ Spend("signals", setup.maxSignals)
  /\ IF kind \in listening
       THEN aborted' = TRUE /\ listening' = listening \ {kind} /\ UNCHANGED command
       ELSE command' = "killed" /\ UNCHANGED <<aborted, listening>>
  /\ UNCHANGED <<setup, transportVars, worker, hand, inFlight, late, processed, app, appCloses,
                 taken, done>>

-----------------------------------------------------------------------------
Working ==
  \/ Yield \/ GetReturns \/ HandlersSucceed \/ HandlerFails \/ Reject \/ Settled
  \/ \E m \in Message : Claim(m)
  \/ \E t \in Transport : SendResolves(t)

Stopping == Finally \/ CommandEnds \/ AppClosed \/ \E t \in Transport : CloseResolves(t)

Next ==
  \/ Working \/ Stopping
  \/ TimeLimit \/ AppCloses \/ ClaimFails \/ SettlementFails \/ LateRefused
  \/ \E kind \in {"SIGTERM", "SIGINT"} : Signal(kind)
  \/ \E t \in Transport : SendFails(t) \/ CloseFails(t)

Spec == Init /\ [][Next]_vars

(* Fairness: handlers and calls to the transports return, a time limit     *)
(* fires.                                                                  *)
FairSpec == Spec /\ WF_vars(Working) /\ WF_vars(Stopping) /\ WF_vars(TimeLimit)

-----------------------------------------------------------------------------
(* Safety                                                                  *)

Stored(m) == copies[Consumed][m] + copies[Failed][m]

(* A message whose handlers did not succeed is stored, whatever closes or  *)
(* dies while its retry or its dead letter is under way.                   *)
NoLoss == \A m \in Message \ done : Stored(m) > 0

(* A stop is exact: unless a call failed, the settlement of a late         *)
(* delivery was refused, an onError hook threw or the process was killed,  *)
(* the command leaves no copy of what was handled and one of everything    *)
(* else.                                                                   *)
StopIsExact ==
  command = "ended" /\ used.troubles = 0 /\ worker # "threw" =>
    \A m \in Message : Stored(m) = IF m \in done THEN 0 ELSE 1

(* --limit: no message is taken beyond the limit, not even one that is     *)
(* still unsettled when the process stops.                                 *)
LimitKept == setup.maxMessages # 0 => taken <= setup.maxMessages

(* Two close the worker's transport, and the second call returns at once.  *)
(* All the same, when the application's shutdown has resolved no message   *)
(* is being claimed, handled, stored or settled, but for one delivery that *)
(* came late; there is such a delivery only where the application closed   *)
(* under a running worker, never after a limit or a signal; and when the   *)
(* command has ended its transport is closed, or the application that      *)
(* closed it first is at it still or has failed.                           *)
ShutdownIsQuiet ==
  /\ app = "closed" => worker \in {"get", "ended", "threw"} \/ late
  /\ late => app # "up"
  /\ command = "ended" /\ app \in {"up", "closed"} =>
       closing[Consumed] \in {"closed", "broken"}

-----------------------------------------------------------------------------
(* Liveness                                                                *)

Stuck == worker = "threw" /\ inFlight

(* A stop that was asked for comes about: the command ends.  The exception *)
(* is the onError hook that throws: reject() is then not called, and       *)
(* close() waits for ever for the delivery it left in flight.              *)
Stops ==
  <>[](aborted \/ app # "up" => command \in {"ended", "killed"} \/ Stuck)
=============================================================================
