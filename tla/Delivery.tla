------------------------------ MODULE Delivery ------------------------------
(***************************************************************************)
(* What a transport promises about the messages it accepted, whatever the  *)
(* broker behind it: the contract of Sender, Receiver and                  *)
(* TransportInterface (transport.interface.ts), with the settlement rules  *)
(* of ADR-007.                                                             *)
(*                                                                         *)
(* A message is one call of send(): a redelivered copy is the same message *)
(* with one more redelivery.  At every moment a message is in one place:   *)
(* not sent yet, waiting in the transport, delivered to one consumer that  *)
(* has not settled it, or gone (acknowledged, or removed by an operator).  *)
(***************************************************************************)
EXTENDS Naturals

CONSTANT Message        \* the messages that may be sent

VARIABLES
  status,               \* [Message -> where the message is]
  redeliveries,         \* [Message -> how often a reject() sent it back]
  phase                 \* "open", then "closing", then "closed"

vars == <<status, redeliveries, phase>>

Statuses == {"unsent", "waiting", "delivered", "gone"}
Phases   == {"open", "closing", "closed"}

TypeOK ==
  /\ status \in [Message -> Statuses]
  /\ redeliveries \in [Message -> Nat]
  /\ phase \in Phases

Init ==
  /\ status = [m \in Message |-> "unsent"]
  /\ redeliveries = [m \in Message |-> 0]
  /\ phase = "open"

(* close() resolves with the settlement that leaves nothing delivered.     *)
PhaseAfterSettling(m) ==
  IF phase = "closing" /\ \A o \in Message \ {m} : status[o] # "delivered"
    THEN "closed"
    ELSE phase

(* send() resolved.  A transport that is closing refuses it.               *)
Publish(m) ==
  /\ phase = "open"
  /\ status[m] = "unsent"
  /\ status' = [status EXCEPT ![m] = "waiting"]
  /\ UNCHANGED <<redeliveries, phase>>

(* get() yields: to one consumer, and never once close() was called.       *)
Deliver(m) ==
  /\ phase = "open"
  /\ status[m] = "waiting"
  /\ status' = [status EXCEPT ![m] = "delivered"]
  /\ UNCHANGED <<redeliveries, phase>>

(* ack() of a delivery, or of a message located with find() or list(); the *)
(* transport keeps nothing of the message.                                 *)
Acknowledge(m) ==
  /\ \/ status[m] = "delivered" /\ phase' = PhaseAfterSettling(m)
     \/ status[m] = "waiting"   /\ UNCHANGED phase
  /\ status' = [status EXCEPT ![m] = "gone"]
  /\ redeliveries' = [redeliveries EXCEPT ![m] = 0]

(* reject() of a delivery: back in the transport, counted once.            *)
Redeliver(m) ==
  /\ status[m] = "delivered"
  /\ status' = [status EXCEPT ![m] = "waiting"]
  /\ redeliveries' = [redeliveries EXCEPT ![m] = @ + 1]
  /\ phase' = PhaseAfterSettling(m)

(* close() is called; it resolves at once when nothing is delivered.       *)
Close ==
  /\ phase = "open"
  /\ phase' = IF \E m \in Message : status[m] = "delivered"
                THEN "closing" ELSE "closed"
  /\ UNCHANGED <<status, redeliveries>>

Next ==
  \/ \E m \in Message : Publish(m) \/ Deliver(m) \/ Acknowledge(m) \/ Redeliver(m)
  \/ Close

Spec == Init /\ [][Next]_vars
=============================================================================
