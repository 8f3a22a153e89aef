---------------------------- MODULE MCMessenger ----------------------------
(* Model-checking instances of Messenger.                                  *)
EXTENDS Messenger, TLC

CONSTANTS m1, m2, w1, w2, async, audit, failed

(* One message on one queue that two workers share, anything may fail.     *)
Shared ==
  [messages |-> {m1}, failure |-> failed,
   routes |-> [m \in Message |-> <<async>>],
   consumes |-> [w \in Worker |-> async],
   handlers |-> <<"email">>, retry |-> TRUE, maxRetries |-> 1,
   faultKinds |-> AllFaultKinds, maxFaults |-> 2, maxFailures |-> 2, maxCommands |-> 0]

(* The failure transport is consumed too (messenger:consume failed).       *)
FailedConsumed ==
  [Shared EXCEPT !.consumes = [w \in Worker |-> IF w = w1 THEN async ELSE failed],
                 !.maxFailures = 3]

(* And an operator works on it at the same time.                           *)
FailedOperated == [FailedConsumed EXCEPT !.maxFaults = 1, !.maxCommands = 1]

(* No failure transport: an exhausted message is dropped.                  *)
Dropping ==
  [Shared EXCEPT !.failure = NoTransport, !.maxRetries = 2, !.maxFailures = 4]

(* No fault: a message routed to two queues, one worker for each, and one  *)
(* that its caller handles; two handlers.                                  *)
FaultFree ==
  [Shared EXCEPT !.messages = {m1, m2},
                 !.routes = [m \in Message |-> IF m = m1 THEN <<async, audit>> ELSE <<>>],
                 !.consumes = [w \in Worker |-> IF w = w1 THEN async ELSE audit],
                 !.handlers = <<"email", "invoice">>,
                 !.faultKinds = {}, !.maxFaults = 0, !.maxFailures = 4, !.maxCommands = 1]

(* No retry policy: a failed handler is an infrastructure error.           *)
NoPolicy ==
  [Shared EXCEPT !.retry = FALSE, !.failure = NoTransport]

AllSetups == {Shared, FailedConsumed, FailedOperated, Dropping, FaultFree, NoPolicy}

(* Two handlers; nothing fails but one of them, once.                      *)
RerunSetups ==
  {[FaultFree EXCEPT !.messages = {m1}, !.routes = [m \in Message |-> <<async>>],
                     !.maxFailures = 1, !.maxCommands = 0]}
=============================================================================
