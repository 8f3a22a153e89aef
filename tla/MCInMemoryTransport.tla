------------------------ MODULE MCInMemoryTransport ------------------------
(* Model-checking instance of InMemoryTransport.  Consumers and callers of *)
(* close() are interchangeable, but TLC must not use that symmetry in a    *)
(* run that checks liveness.                                               *)
EXTENDS InMemoryTransport, TLC
=============================================================================
