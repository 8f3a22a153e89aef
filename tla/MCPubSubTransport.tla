------------------------- MODULE MCPubSubTransport -------------------------
(* Model-checking instances of PubSubTransport.                            *)
EXTENDS PubSubTransport, TLC

CONSTANTS p1, p2, c1, c2, m1, m2

(* Two loops of one instance, two messages in one batch; a rejection.      *)
Together ==
  [loops |-> {c1, c2}, home |-> [c \in Consumer |-> p1],
   messages |-> {m1, m2}, foreign |-> {}, maxMessages |-> 2,
   maxRejects |-> 1, maxTroubles |-> 0, maxSlow |-> 0]

(* The same with one message, and slow handlers.                           *)
Slow ==
  [Together EXCEPT !.messages = {m1}, !.maxSlow = 1]

(* One loop, one lease at a time, a foreign message, a trouble.            *)
Alone ==
  [Together EXCEPT !.loops = {c1}, !.foreign = {m2}, !.maxMessages = 1,
                   !.maxTroubles = 1]

(* Two processes that share the subscription; a trouble.                   *)
Apart ==
  [Together EXCEPT !.home = [c \in Consumer |-> IF c = c1 THEN p1 ELSE p2],
                   !.messages = {m1}, !.maxTroubles = 1]

AllSetups == {Together, Slow, Alone, Apart}
=============================================================================
