----------------------------- MODULE MCShutdown -----------------------------
(* Model-checking instances of Shutdown.                                   *)
EXTENDS Shutdown, TLC

CONSTANTS m1, m2, m3

(* The command and the application stop under each other, with and without *)
(* limits, hooks that throw, and calls that fail.                          *)
AllSetups ==
  [maxMessages : {0, 2}, otherLimits : BOOLEAN, appCloses : BOOLEAN,
   hookThrows : BOOLEAN, maxFailures : {3}, maxSignals : {2}, maxTroubles : {1}]
=============================================================================
