-------------------------- MODULE MCKafkaTransport --------------------------
(* Model-checking instances of KafkaTransport.                             *)
EXTENDS KafkaTransport, TLC

CONSTANTS p1, p2, c1, c2, m1, m2, m3

(* Two processes with a loop each, as with two messenger:consume, and the  *)
(* bounds a few at a time.                                                 *)
Apart ==
  [home |-> [c \in Consumer |-> IF c = c1 THEN p1 ELSE p2],
   messages |-> {m1, m2}, maxRejects |-> 0, maxTroubles |-> 1]

ApartRetried  == [Apart EXCEPT !.messages = {m1}, !.maxRejects = 1]
ApartTroubled == [Apart EXCEPT !.messages = {m1}, !.maxTroubles = 2]

(* Two loops of one process, and a message that cannot be decoded (m3).    *)
Together ==
  [home |-> [c \in Consumer |-> p1],
   messages |-> {m1, m2, m3}, maxRejects |-> 1, maxTroubles |-> 0]

TogetherTroubled == [Together EXCEPT !.messages = {m1, m3}, !.maxTroubles = 1]

AllSetups == {Apart, ApartRetried, ApartTroubled, Together, TogetherTroubled}
=============================================================================
