--------------------------- MODULE MCRedisStreams ---------------------------
(* Model-checking instances of RedisStreams.                               *)
EXTENDS RedisStreams, TLC

CONSTANTS w1, w2, o1, m1, m2

(* Two workers, a delayed message and one that cannot be decoded; one of   *)
(* the workers dies.                                                       *)
Crashing ==
  [processes |-> {w1, w2}, messages |-> {m1, m2}, delayed |-> {m1}, foreign |-> {m2},
   batchSize |-> 2, maxRejects |-> 0, maxCrashes |-> 1, maxSlow |-> 0]

(* Two workers that reject, are slow to come to what they have read, and   *)
(* may die.                                                                *)
Slow ==
  [Crashing EXCEPT !.messages = {m1}, !.foreign = {}, !.maxRejects = 1, !.maxSlow = 1]

(* A worker, and an operator who removes entries; anything may happen.     *)
Operated ==
  [Crashing EXCEPT !.processes = {w1, o1}, !.maxRejects = 1, !.maxSlow = 1]

AllSetups == {Crashing, Slow, Operated}

(* One worker, nothing goes wrong.                                         *)
PromotionSetups ==
  {[Crashing EXCEPT !.processes = {w1}, !.delayed = {m1, m2}, !.foreign = {},
                    !.maxCrashes = 0]}
=============================================================================
