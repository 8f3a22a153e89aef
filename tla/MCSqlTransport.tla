--------------------------- MODULE MCSqlTransport ---------------------------
(* Model-checking instances of SqlTransport.                               *)
EXTENDS SqlTransport, TLC

CONSTANTS p1, p2, c1, c2, m1, m2

(* One PostgreSQL process with one loop: a delayed message, crashes,       *)
(* failures, slow consumers.                                               *)
Alone ==
  [loops |-> {c1}, home |-> [c \in Consumer |-> IF c = c1 THEN p1 ELSE p2],
   notify |-> TRUE, messages |-> {m1}, delayed |-> {m1}, foreign |-> {},
   maxRejects |-> 1, maxTroubles |-> 2, maxSlow |-> 1]

(* Two loops of one instance.                                              *)
Together ==
  [Alone EXCEPT !.loops = {c1, c2}, !.home = [c \in Consumer |-> p1],
                !.delayed = {}, !.maxTroubles = 1, !.maxSlow = 0]

(* Two processes, notified of the same message.                            *)
Apart ==
  [Alone EXCEPT !.loops = {c1, c2}, !.delayed = {}, !.maxRejects = 0,
                !.maxTroubles = 0, !.maxSlow = 0]

(* Two processes that poll, as on MySQL; a crash.                          *)
Polling ==
  [Apart EXCEPT !.notify = FALSE, !.maxTroubles = 1]

(* Two loops of one process that polls; a message that cannot be decoded.  *)
PollingTogether ==
  [Together EXCEPT !.notify = FALSE, !.messages = {m1, m2}, !.foreign = {m2}]

AllSetups == {Alone, Together, Apart, Polling, PollingTogether}

(* Two loops of one process, nothing goes wrong.                           *)
QuietSetups == {[Together EXCEPT !.maxRejects = 0, !.maxTroubles = 0]}
=============================================================================
