--------------------------- MODULE Shutdown_proofs ---------------------------
(***************************************************************************)
(* Theorems about Shutdown, for every set of messages and every run, with  *)
(* or without limits, hooks that throw and applications that are closed.   *)
(*                                                                         *)
(* The safety properties depend on where the worker is.  IInv says, for    *)
(* each place of the worker, what it has: that the message it is busy with *)
(* is still stored, how many copies there are of it, whether close() can   *)
(* see it in flight, and how the messages taken compare with the limit.    *)
(***************************************************************************)
EXTENDS Shutdown, TLAPS

Handling == {"dispatch", "resend", "deadletter", "failed"}
Settling == {"acking", "rejecting"}
Busy     == Handling \union Settling
Idling   == {"get", "ended", "threw"}

(* The registry has the message exactly while it is being handled; an      *)
(* onError hook that threw has left it there.                              *)
RegistryFacts ==
  /\ worker \in Handling => inFlight
  /\ worker \in Settling \union {"get", "claim", "ended"} => ~inFlight

(* The original stays stored until it is settled.                          *)
HandIsStored ==
  worker \in Busy \union {"claim"} => hand \in Message /\ copies[Consumed][hand] > 0

(* A message is acknowledged only when it is handled or stored once more.  *)
AckedIsSafe == worker = "acking" => hand \in done \/ Stored(hand) > 1

Unhandled(m) == IF m \in done THEN 0 ELSE 1
Surplus(m)   == IF worker = "acking" /\ m = hand THEN 1 ELSE 0

(* As long as no call failed or was refused, the only copy too many is the one that is    *)
(* about to be deleted.                                                    *)
CopiesExact ==
  used["troubles"] = 0 /\ worker # "threw" =>
    \A m \in Message : Stored(m) = Unhandled(m) + Surplus(m)

LimitFacts ==
  /\ worker \in {"get", "claim"} => taken = processed
  /\ worker \in Busy => taken = processed + 1
  /\ worker \in Busy \union {"get"} /\ ~aborted /\ setup.maxMessages # 0
       => processed < setup.maxMessages
  /\ worker = "claim" /\ setup.maxMessages # 0 => processed < setup.maxMessages
  /\ LimitKept

(* Whoever closes the worker's transport waits for what is pending there,  *)
(* or the worker is over when it is closed; but nobody waits for a         *)
(* delivery that came late, and a late one means that the application      *)
(* closes.  Consumed \in appCloses: the application called close() first.  *)
CloseFacts ==
  /\ closing[Consumed] \in {"closed", "broken"} => worker \in Idling \/ late
  /\ command \in {"closing", "ended"} => worker \in {"ended", "threw"}
  /\ app # "up" => closing[Consumed] # "open"
  /\ app = "up" /\ closing[Consumed] # "open" => worker \in {"ended", "threw"}
  /\ app # "up" /\ Consumed \notin appCloses => worker \in {"ended", "threw"}
  /\ command = "running" => IF app = "up" THEN closing[Consumed] = "open"
                                         ELSE Consumed \in appCloses
  /\ command = "ended" /\ (app = "up" \/ Consumed \notin appCloses) =>
       closing[Consumed] \in {"closed", "broken"}
  /\ app = "closed" /\ Consumed \in appCloses => closing[Consumed] = "closed"
  /\ ShutdownIsQuiet

IInv ==
  /\ TypeOK
  /\ RegistryFacts
  /\ HandIsStored
  /\ NoLoss
  /\ AckedIsSafe
  /\ CopiesExact
  /\ LimitFacts
  /\ CloseFacts

-----------------------------------------------------------------------------
(* The stored copies                                                       *)

(* Storing a message adds a copy of it and touches no other.               *)
LEMMA StoreCopies ==
  ASSUME TypeOK, NEW t \in Transport, NEW m \in Message, Store(t, m)
  PROVE  /\ copies' \in [Transport -> [Message -> Nat]]
         /\ \A n \in Message : /\ Stored(n)' = Stored(n) + (IF n = m THEN 1 ELSE 0)
                              /\ copies'[Consumed][n] >= copies[Consumed][n]
<1> DEFINE row == [copies[t] EXCEPT ![m] = @ + 1]
<1>1. copies[t] \in [Message -> Nat]
  BY DEF TypeOK
<1>2. row \in [Message -> Nat] /\ row[m] = copies[t][m] + 1
      /\ \A n \in Message : n # m => row[n] = copies[t][n]
  BY <1>1
<1>3. copies' = [copies EXCEPT ![t] = row]
  BY DEF Store
<1> HIDE DEF row
<1>4. copies' \in [Transport -> [Message -> Nat]]
  BY <1>2, <1>3 DEF TypeOK
<1>5. \A n \in Message : /\ Stored(n)' = Stored(n) + (IF n = m THEN 1 ELSE 0)
                         /\ copies'[Consumed][n] >= copies[Consumed][n]
  BY <1>2, <1>3, NamesAssumption DEF TypeOK, Stored, Transport
<1> QED BY <1>4, <1>5

(* Deleting a message takes away one copy of it and touches no other.      *)
LEMMA DeleteCopies ==
  ASSUME TypeOK, NEW m \in Message, copies[Consumed][m] > 0, Delete(m)
  PROVE  /\ copies' \in [Transport -> [Message -> Nat]]
         /\ \A n \in Message : Stored(n)' = Stored(n) - (IF n = m THEN 1 ELSE 0)
<1> DEFINE row == [copies[Consumed] EXCEPT ![m] = @ - 1]
<1>1. copies[Consumed] \in [Message -> Nat]
  BY DEF TypeOK, Transport
<1>2. row \in [Message -> Nat] /\ row[m] = copies[Consumed][m] - 1
      /\ \A n \in Message : n # m => row[n] = copies[Consumed][n]
  BY <1>1
<1>3. copies' = [copies EXCEPT ![Consumed] = row]
  BY DEF Delete
<1> HIDE DEF row
<1>4. copies' \in [Transport -> [Message -> Nat]]
  BY <1>2, <1>3 DEF TypeOK
<1>5. \A n \in Message : Stored(n)' = Stored(n) - (IF n = m THEN 1 ELSE 0)
  BY <1>2, <1>3, NamesAssumption DEF TypeOK, Stored, Transport
<1> QED BY <1>4, <1>5

-----------------------------------------------------------------------------
(* The invariant holds initially.                                          *)
LEMMA InitIInv == Init => IInv
<1> SUFFICES ASSUME Init PROVE IInv
  OBVIOUS
<1>1. TypeOK
  BY NamesAssumption DEF Init, TypeOK, Transport
<1>2. NoLoss /\ CopiesExact
  BY NamesAssumption DEF Init, NoLoss, CopiesExact, Stored, Unhandled, Surplus, Transport
<1>3. RegistryFacts /\ HandIsStored /\ AckedIsSafe
  BY DEF Init, RegistryFacts, HandIsStored, AckedIsSafe, Handling, Settling, Busy
<1>4. LimitFacts
  BY SetupsAssumption DEF Init, LimitFacts, LimitKept, Busy, Handling, Settling
<1>5. CloseFacts
  BY DEF Init, CloseFacts, ShutdownIsQuiet, Transport
<1> QED BY <1>1, <1>2, <1>3, <1>4, <1>5 DEF IInv

-----------------------------------------------------------------------------
(* The steps of the worker                                                 *)

LEMMA ClaimIInv ==
  ASSUME IInv, NEW m \in Message, Claim(m)
  PROVE  IInv'
<1> USE DEF IInv, Claim, Handling, Settling, Busy
<1>1. TypeOK'
  BY NamesAssumption DEF TypeOK, shutdownVars, transportVars
<1>2. RegistryFacts' /\ HandIsStored' /\ AckedIsSafe'
  BY DEF RegistryFacts, HandIsStored, AckedIsSafe, transportVars
<1>3. NoLoss' /\ CopiesExact'
  BY DEF NoLoss, CopiesExact, Surplus, Unhandled, Stored, transportVars
<1>4. LimitFacts'
  BY DEF LimitFacts, LimitKept, ShouldStop
<1>5. CloseFacts'
  BY DEF TypeOK, CloseFacts, ShutdownIsQuiet, ShouldStop, Transport, shutdownVars,
         transportVars, Idling
<1> QED BY <1>1, <1>2, <1>3, <1>4, <1>5

LEMMA YieldIInv ==
  ASSUME IInv, Yield
  PROVE  IInv'
<1> USE DEF IInv, Yield, Handling, Settling, Busy
<1>1. TypeOK'
  BY NamesAssumption DEF TypeOK, HandIsStored, shutdownVars, transportVars
<1>2. RegistryFacts' /\ HandIsStored' /\ AckedIsSafe'
  BY DEF RegistryFacts, HandIsStored, AckedIsSafe, transportVars
<1>3. NoLoss' /\ CopiesExact'
  BY DEF NoLoss, CopiesExact, Surplus, Unhandled, Stored, transportVars
<1>4. LimitFacts'
  <2>1. setup \in Setups /\ setup' = setup /\ aborted' = aborted
        /\ processed \in Nat /\ processed' = processed /\ taken' = taken + 1
        /\ setup.maxMessages \in Nat
    BY SetupsAssumption DEF TypeOK
  <2> QED BY <2>1 DEF LimitFacts, LimitKept
<1>5. CloseFacts'
  BY DEF TypeOK, CloseFacts, ShutdownIsQuiet, Transport, shutdownVars, transportVars, Idling
<1> QED BY <1>1, <1>2, <1>3, <1>4, <1>5

(* A worker that gives up what it holds, without an effect on the stored   *)
(* copies, is no hindrance to anything.                                    *)
LEMMA LetGoIInv ==
  ASSUME IInv, worker \in {"get", "claim"} \union Settling,
         worker' = "threw" \/ (worker' = "ended" /\ worker \notin Settling),
         hand' = NoMessage, used' \in [{"failures", "signals", "troubles"} -> Nat],
         used'["troubles"] = 0 => used["troubles"] = 0,
         UNCHANGED <<setup, transportVars, inFlight, late, aborted, processed, shutdownVars,
                     taken, done>>
  PROVE  IInv'
<1> USE DEF IInv, Handling, Settling, Busy
<1>1. TypeOK'
  BY DEF TypeOK, RegistryFacts, shutdownVars, transportVars
<1>2. RegistryFacts' /\ HandIsStored' /\ AckedIsSafe'
  BY DEF RegistryFacts, HandIsStored, AckedIsSafe
<1>3. NoLoss' /\ CopiesExact'
  BY DEF NoLoss, CopiesExact, Surplus, Unhandled, Stored, transportVars
<1>4. LimitFacts'
  BY DEF LimitFacts, LimitKept
<1>5. CloseFacts'
  BY DEF CloseFacts, ShutdownIsQuiet, shutdownVars, transportVars, Idling
<1> QED BY <1>1, <1>2, <1>3, <1>4, <1>5

LEMMA ClaimFailsIInv ==
  ASSUME IInv, ClaimFails
  PROVE  IInv'
<1>1. used' \in [{"failures", "signals", "troubles"} -> Nat] /\ used'["troubles"] # 0
  BY DEF IInv, TypeOK, ClaimFails, Trouble, Spend
<1> QED BY <1>1, LetGoIInv DEF ClaimFails, Settling

LEMMA GetReturnsIInv ==
  ASSUME IInv, GetReturns
  PROVE  IInv'
BY LetGoIInv DEF GetReturns, IInv, TypeOK, Settling

LEMMA HandlersSucceedIInv ==
  ASSUME IInv, HandlersSucceed
  PROVE  IInv'
<1> USE DEF IInv, HandlersSucceed, Acknowledge, Handling, Settling, Busy
<1>1. hand \in Message /\ hand' = hand /\ copies' = copies /\ copies[Consumed][hand] > 0
  BY DEF HandIsStored, transportVars
<1>2. TypeOK'
  BY <1>1, NamesAssumption DEF TypeOK, shutdownVars, transportVars
<1>3. RegistryFacts' /\ HandIsStored' /\ AckedIsSafe'
  BY <1>1 DEF RegistryFacts, HandIsStored, AckedIsSafe
<1>4. NoLoss'
  BY <1>1 DEF NoLoss, Stored
<1>5. CopiesExact'
  <2>1. \A m \in Message : Stored(m)' = Stored(m)
    BY <1>1 DEF Stored
  <2>2. Stored(hand) > 0
    BY <1>1 DEF Stored, TypeOK, Transport
  <2> QED BY <1>1, <2>1, <2>2 DEF CopiesExact, Surplus, Unhandled
<1>6. LimitFacts'
  BY DEF LimitFacts, LimitKept
<1>7. CloseFacts'
  BY DEF CloseFacts, ShutdownIsQuiet, shutdownVars, transportVars, Idling
<1> QED BY <1>2, <1>3, <1>4, <1>5, <1>6, <1>7

LEMMA HandlerFailsIInv ==
  ASSUME IInv, HandlerFails
  PROVE  IInv'
<1> USE DEF IInv, HandlerFails, Handling, Settling, Busy
<1>1. worker = "dispatch" /\ worker' \in {"resend", "deadletter", "failed"}
      /\ inFlight' = inFlight /\ hand' = hand /\ copies' = copies /\ done' = done
  BY DEF Refused, transportVars
<1>2. TypeOK'
  BY <1>1 DEF TypeOK, shutdownVars, transportVars, Spend
<1>3. RegistryFacts' /\ HandIsStored' /\ AckedIsSafe'
  BY <1>1 DEF RegistryFacts, HandIsStored, AckedIsSafe
<1>4. NoLoss' /\ CopiesExact'
  BY <1>1 DEF TypeOK, NoLoss, CopiesExact, Surplus, Unhandled, Stored, Spend
<1>5. LimitFacts'
  BY <1>1 DEF LimitFacts, LimitKept
<1>6. CloseFacts'
  BY <1>1 DEF CloseFacts, ShutdownIsQuiet, shutdownVars, transportVars, Idling
<1> QED BY <1>2, <1>3, <1>4, <1>5, <1>6

LEMMA SendResolvesIInv ==
  ASSUME IInv, NEW t \in Transport, SendResolves(t)
  PROVE  IInv'
<1> USE DEF IInv, SendResolves, Acknowledge, Handling, Settling, Busy
<1>1. worker \in {"resend", "deadletter"} /\ hand \in Message /\ hand' = hand
      /\ copies[Consumed][hand] > 0 /\ Stored(hand) > 0
  BY DEF SendingTo, HandIsStored, Stored, TypeOK, Transport
<1>2. /\ copies' \in [Transport -> [Message -> Nat]]
      /\ \A n \in Message : /\ Stored(n)' = Stored(n) + (IF n = hand THEN 1 ELSE 0)
                           /\ copies'[Consumed][n] >= copies[Consumed][n]
  BY <1>1, StoreCopies
<1>3. \A n \in Message : /\ copies[Consumed][n] \in Nat /\ copies'[Consumed][n] \in Nat
                        /\ Stored(n) \in Nat
  BY <1>2 DEF TypeOK, Transport, Stored
<1>4. TypeOK'
  BY <1>1, <1>2 DEF TypeOK, shutdownVars
<1>5. RegistryFacts'
  BY DEF RegistryFacts
<1>6. HandIsStored'
  BY <1>1, <1>2, <1>3 DEF HandIsStored
<1>7. NoLoss' /\ AckedIsSafe'
  <2>1. \A n \in Message : Stored(n) > 0 => Stored(n)' > 0
    BY <1>2, <1>3
  <2>2. Stored(hand)' > 1
    BY <1>1, <1>2, <1>3
  <2>3. AckedIsSafe'
    BY <2>2 DEF AckedIsSafe, Stored
  <2> QED BY <2>1, <2>3 DEF NoLoss
<1>8. CopiesExact'
  BY <1>1, <1>2, <1>3 DEF CopiesExact, Surplus, Unhandled
<1>9. LimitFacts'
  BY <1>1 DEF LimitFacts, LimitKept
<1>10. CloseFacts'
  BY <1>1 DEF CloseFacts, ShutdownIsQuiet, shutdownVars, Idling
<1> QED BY <1>4, <1>5, <1>6, <1>7, <1>8, <1>9, <1>10

LEMMA SendFailsIInv ==
  ASSUME IInv, NEW t \in Transport, SendFails(t)
  PROVE  IInv'
<1> USE DEF IInv, SendFails, Handling, Settling, Busy
<1>1. worker \in {"resend", "deadletter"} /\ worker' = "failed" /\ hand \in Message
      /\ hand' = hand /\ copies[Consumed][hand] > 0
  BY DEF SendingTo, HandIsStored
<1>2. /\ copies' \in [Transport -> [Message -> Nat]]
      /\ \A n \in Message : /\ Stored(n)' >= Stored(n)
                           /\ copies'[Consumed][n] >= copies[Consumed][n]
  <2>1. \A n \in Message : Stored(n) \in Nat /\ copies[Consumed][n] \in Nat
    BY DEF TypeOK, Transport, Stored
  <2>2. CASE Store(t, hand)
    BY <1>1, <2>1, <2>2, StoreCopies
  <2>3. CASE copies' = copies
    BY <2>1, <2>3 DEF TypeOK, Stored
  <2> QED BY <2>2, <2>3
<1>3. \A n \in Message : /\ copies[Consumed][n] \in Nat /\ copies'[Consumed][n] \in Nat
                        /\ Stored(n) \in Nat /\ Stored(n)' \in Nat
  BY <1>2 DEF TypeOK, Transport, Stored
<1>4. TypeOK' /\ used'["troubles"] # 0
  BY <1>1, <1>2 DEF TypeOK, shutdownVars, Spend, Trouble
<1>5. RegistryFacts' /\ AckedIsSafe'
  BY <1>1 DEF RegistryFacts, AckedIsSafe
<1>6. HandIsStored'
  BY <1>1, <1>2, <1>3 DEF HandIsStored
<1>7. NoLoss' /\ CopiesExact'
  BY <1>2, <1>3, <1>4 DEF NoLoss, CopiesExact
<1>8. LimitFacts'
  BY <1>1 DEF LimitFacts, LimitKept
<1>9. CloseFacts'
  BY <1>1 DEF CloseFacts, ShutdownIsQuiet, shutdownVars, Idling
<1> QED BY <1>4, <1>5, <1>6, <1>7, <1>8, <1>9

LEMMA RejectIInv ==
  ASSUME IInv, Reject
  PROVE  IInv'
<1> USE DEF IInv, Reject, Handling, Settling, Busy
<1>1. TypeOK'
  BY DEF TypeOK, shutdownVars, transportVars
<1>2. RegistryFacts' /\ HandIsStored' /\ AckedIsSafe'
  BY DEF RegistryFacts, HandIsStored, AckedIsSafe, transportVars
<1>3. NoLoss' /\ CopiesExact'
  BY DEF NoLoss, CopiesExact, Surplus, Unhandled, Stored, transportVars
<1>4. LimitFacts'
  BY DEF LimitFacts, LimitKept
<1>5. CloseFacts'
  BY DEF CloseFacts, ShutdownIsQuiet, shutdownVars, transportVars, Idling
<1> QED BY <1>1, <1>2, <1>3, <1>4, <1>5

(* What deleting the acknowledged message, or leaving it alone, does to    *)
(* the copies: it is not lost.                                             *)
LEMMA SettledCopies ==
  ASSUME IInv, worker \in Settling,
         (worker = "acking" /\ Delete(hand)) \/ UNCHANGED copies, done' = done
  PROVE  copies' \in [Transport -> [Message -> Nat]] /\ NoLoss'
<1>1. hand \in Message /\ copies[Consumed][hand] > 0
  BY DEF IInv, HandIsStored, Busy
<1>2. CASE worker = "acking" /\ Delete(hand)
  <2>1. /\ copies' \in [Transport -> [Message -> Nat]]
        /\ \A n \in Message : Stored(n)' = Stored(n) - (IF n = hand THEN 1 ELSE 0)
    BY <1>1, <1>2, DeleteCopies DEF IInv
  <2>2. \A n \in Message : Stored(n) \in Nat
    BY DEF IInv, TypeOK, Stored, Transport
  <2> QED BY <1>1, <1>2, <2>1, <2>2 DEF IInv, NoLoss, AckedIsSafe
<1>3. CASE UNCHANGED copies
  BY <1>3 DEF IInv, TypeOK, NoLoss, Stored
<1> QED BY <1>2, <1>3

LEMMA SettledIInv ==
  ASSUME IInv, Settled
  PROVE  IInv'
<1> USE DEF IInv, Settled, Handling, Settling, Busy
<1>1. copies' \in [Transport -> [Message -> Nat]] /\ NoLoss'
  BY SettledCopies
<1>2. worker \in Settling /\ worker' = "get" /\ hand \in Message
      /\ copies[Consumed][hand] > 0 /\ aborted' \in BOOLEAN
      /\ (aborted \/ ReachedLimit(processed') => aborted')
  BY SetupsAssumption DEF HandIsStored, TypeOK
<1>3. TypeOK'
  BY <1>1, <1>2 DEF TypeOK, RegistryFacts, shutdownVars
<1>4. RegistryFacts' /\ HandIsStored' /\ AckedIsSafe'
  BY <1>2 DEF RegistryFacts, HandIsStored, AckedIsSafe
<1>5. CopiesExact'
  <2>1. \A n \in Message : Stored(n)' = Stored(n) - Surplus(n)
    <3>1. CASE worker = "acking"
      BY <1>2, <3>1, DeleteCopies DEF Surplus
    <3>2. CASE worker = "rejecting"
      BY <3>2 DEF Surplus, Stored, TypeOK, Transport
    <3> QED BY <1>2, <3>1, <3>2
  <2>2. \A n \in Message : Surplus(n)' = 0 /\ Unhandled(n)' = Unhandled(n)
    BY <1>2 DEF Surplus, Unhandled
  <2>3. \A n \in Message : Surplus(n) \in Nat /\ Unhandled(n) \in Nat /\ Stored(n) \in Nat
    BY DEF Surplus, Unhandled, Stored, TypeOK, Transport
  <2> QED BY <2>1, <2>2, <2>3 DEF CopiesExact
<1>6. LimitFacts'
  <2>1. setup' = setup /\ processed \in Nat /\ processed' = processed + 1 /\ taken' = taken
        /\ setup.maxMessages \in Nat
    BY SetupsAssumption DEF TypeOK
  <2> QED BY <1>2, <2>1 DEF LimitFacts, LimitKept, ReachedLimit
<1>7. CloseFacts'
  BY <1>2 DEF CloseFacts, ShutdownIsQuiet, shutdownVars, Idling
<1> QED BY <1>1, <1>3, <1>4, <1>5, <1>6, <1>7

LEMMA SettlementFailsIInv ==
  ASSUME IInv, SettlementFails
  PROVE  IInv'
<1> USE DEF IInv, SettlementFails, Handling, Settling, Busy
<1>1. copies' \in [Transport -> [Message -> Nat]] /\ NoLoss'
  BY SettledCopies
<1>2. TypeOK' /\ used'["troubles"] # 0
  BY <1>1 DEF TypeOK, RegistryFacts, shutdownVars, Spend, Trouble
<1>3. RegistryFacts' /\ HandIsStored' /\ AckedIsSafe'
  BY DEF RegistryFacts, HandIsStored, AckedIsSafe
<1>4. CopiesExact'
  BY <1>2 DEF CopiesExact
<1>5. LimitFacts'
  BY DEF LimitFacts, LimitKept
<1>6. CloseFacts'
  BY DEF CloseFacts, ShutdownIsQuiet, shutdownVars, Idling
<1> QED BY <1>1, <1>2, <1>3, <1>4, <1>5, <1>6

LEMMA LateRefusedIInv ==
  ASSUME IInv, LateRefused
  PROVE  IInv'
BY LetGoIInv DEF LateRefused, IInv, TypeOK, Settling

-----------------------------------------------------------------------------
(* The steps of the command, the application and signals                   *)

(* A step that leaves the worker and the messages alone only has to        *)
(* respect the types, the limits and the facts about close().              *)
LEMMA QuietIInv ==
  ASSUME IInv, TypeOK', LimitFacts', CloseFacts',
         UNCHANGED <<copies, worker, hand, inFlight, done>>,
         used'["troubles"] = 0 => used["troubles"] = 0
  PROVE  IInv'
BY DEF IInv, RegistryFacts, HandIsStored, NoLoss, AckedIsSafe, CopiesExact, Surplus,
       Unhandled, Stored

LEMMA TimeLimitIInv ==
  ASSUME IInv, TimeLimit
  PROVE  IInv'
<1> USE DEF IInv, TimeLimit, transportVars, shutdownVars
<1>1. TypeOK'
  BY DEF TypeOK
<1>2. LimitFacts'
  BY DEF LimitFacts, LimitKept
<1>3. CloseFacts'
  BY DEF CloseFacts, ShutdownIsQuiet
<1> QED BY <1>1, <1>2, <1>3, QuietIInv

LEMMA FinallyIInv ==
  ASSUME IInv, Finally
  PROVE  IInv'
<1> USE DEF IInv, Finally, workerVars
<1>1. TypeOK'
  BY DEF TypeOK, CallClose
<1>2. LimitFacts'
  BY DEF LimitFacts, LimitKept
<1>3. CloseFacts'
  BY DEF Idling, Transport, CloseFacts, ShutdownIsQuiet, CallClose
<1> QED BY <1>1, <1>2, <1>3, QuietIInv

LEMMA CommandEndsIInv ==
  ASSUME IInv, CommandEnds
  PROVE  IInv'
<1> USE DEF IInv, CommandEnds, transportVars, workerVars
<1>1. TypeOK'
  BY DEF TypeOK
<1>2. LimitFacts'
  BY DEF LimitFacts, LimitKept
<1>3. CloseFacts'
  BY DEF CloseFacts, ShutdownIsQuiet
<1> QED BY <1>1, <1>2, <1>3, QuietIInv

LEMMA CloseResolvesIInv ==
  ASSUME IInv, NEW t \in Transport, CloseResolves(t)
  PROVE  IInv'
<1> USE DEF IInv, CloseResolves, workerVars, shutdownVars
<1>1. TypeOK'
  BY DEF TypeOK
<1>2. LimitFacts'
  BY DEF LimitFacts, LimitKept
<1>3. CloseFacts'
  BY DEF TypeOK, RegistryFacts, Handling, Settling, Idling, Transport, CloseFacts,
         ShutdownIsQuiet, Drained, SendingTo
<1> QED BY <1>1, <1>2, <1>3, QuietIInv

LEMMA CloseFailsIInv ==
  ASSUME IInv, NEW t \in Transport, CloseFails(t)
  PROVE  IInv'
<1> USE DEF IInv, CloseFails, workerVars, shutdownVars
<1>1. TypeOK'
  BY DEF TypeOK, Spend, Trouble
<1>2. LimitFacts'
  BY DEF LimitFacts, LimitKept
<1>3. CloseFacts'
  BY DEF TypeOK, RegistryFacts, Handling, Settling, Idling, Transport, CloseFacts,
         ShutdownIsQuiet, Drained, SendingTo
<1> QED BY <1>1, <1>2, <1>3, QuietIInv DEF TypeOK, Spend, Trouble

LEMMA AppClosesIInv ==
  ASSUME IInv, AppCloses
  PROVE  IInv'
<1> USE DEF IInv, AppCloses, workerVars
<1>1. TypeOK'
  BY DEF TypeOK, CallClose
<1>2. LimitFacts'
  BY DEF LimitFacts, LimitKept
<1>3. CloseFacts'
  BY DEF TypeOK, Idling, Transport, CloseFacts, ShutdownIsQuiet, CallClose
<1> QED BY <1>1, <1>2, <1>3, QuietIInv

LEMMA AppClosedIInv ==
  ASSUME IInv, AppClosed
  PROVE  IInv'
<1> USE DEF IInv, AppClosed, transportVars, workerVars
<1>1. TypeOK'
  BY DEF TypeOK
<1>2. LimitFacts'
  BY DEF LimitFacts, LimitKept
<1>3. CloseFacts'
  BY DEF Idling, CloseFacts, ShutdownIsQuiet
<1> QED BY <1>1, <1>2, <1>3, QuietIInv

LEMMA SignalIInv ==
  ASSUME IInv, NEW kind \in {"SIGTERM", "SIGINT"}, Signal(kind)
  PROVE  IInv'
<1> USE DEF IInv, Signal, transportVars
<1>1. TypeOK'
  <2>1. listening' \subseteq {"SIGTERM", "SIGINT"} /\ aborted' \in BOOLEAN
        /\ command' \in {"running", "closing", "ended", "killed"}
    BY DEF TypeOK
  <2>2. used' \in [{"failures", "signals", "troubles"} -> Nat]
    BY DEF TypeOK, Spend
  <2> QED BY <2>1, <2>2 DEF TypeOK
<1>2. LimitFacts'
  BY DEF LimitFacts, LimitKept
<1>3. CloseFacts'
  BY DEF CloseFacts, ShutdownIsQuiet
<1> QED BY <1>1, <1>2, <1>3, QuietIInv DEF TypeOK, Spend

-----------------------------------------------------------------------------
(* Every step preserves the invariant.                                     *)
LEMMA NextIInv == IInv /\ [Next]_vars => IInv'
<1> SUFFICES ASSUME IInv, [Next]_vars PROVE IInv'
  OBVIOUS
<1>1. CASE Working
  BY <1>1, ClaimIInv, YieldIInv, GetReturnsIInv, HandlersSucceedIInv, HandlerFailsIInv,
     SendResolvesIInv, RejectIInv, SettledIInv DEF Working
<1>2. CASE Stopping
  BY <1>2, FinallyIInv, CommandEndsIInv, AppClosedIInv, CloseResolvesIInv DEF Stopping
<1>3. CASE TimeLimit \/ AppCloses \/ ClaimFails \/ SettlementFails \/ LateRefused
  BY <1>3, TimeLimitIInv, AppClosesIInv, ClaimFailsIInv, SettlementFailsIInv, LateRefusedIInv
<1>4. CASE \E kind \in {"SIGTERM", "SIGINT"} : Signal(kind)
  BY <1>4, SignalIInv
<1>5. CASE \E t \in Transport : SendFails(t) \/ CloseFails(t)
  BY <1>5, SendFailsIInv, CloseFailsIInv
<1>6. CASE UNCHANGED vars
  <2>1. TypeOK' /\ LimitFacts' /\ CloseFacts'
    BY <1>6 DEF vars, transportVars, workerVars, shutdownVars, IInv, TypeOK, LimitFacts,
                LimitKept, CloseFacts, ShutdownIsQuiet
  <2> QED BY <1>6, <2>1, QuietIInv DEF vars, transportVars, workerVars
<1> QED BY <1>1, <1>2, <1>3, <1>4, <1>5, <1>6 DEF Next

LEMMA Invariance == Spec => []IInv
BY InitIInv, NextIInv, PTL DEF Spec

-----------------------------------------------------------------------------
(* The variables of Shutdown have their types, a worker that waits or has  *)
(* ended holds nothing, and the registry never holds what nobody has.      *)
THEOREM TypeCorrect == Spec => []TypeOK
<1>1. IInv => TypeOK
  BY DEF IInv
<1> QED BY <1>1, Invariance, PTL

(* Whatever closes, fails or is killed while the retry or the dead letter  *)
(* of a message is under way, an unhandled message is stored.              *)
THEOREM NothingLost == Spec => []NoLoss
<1>1. IInv => NoLoss
  BY DEF IInv
<1> QED BY <1>1, Invariance, PTL

(* A clean stop leaves one copy of what was not handled and none of what   *)
(* was.                                                                    *)
THEOREM StopsExactly == Spec => []StopIsExact
<1>1. IInv => StopIsExact
  <2> SUFFICES ASSUME IInv, command = "ended", used.troubles = 0, worker # "threw",
                      NEW m \in Message
               PROVE  Stored(m) = IF m \in done THEN 0 ELSE 1
    BY DEF StopIsExact
  <2>1. worker = "ended"
    BY DEF IInv, CloseFacts
  <2>2. Stored(m) = Unhandled(m) + Surplus(m)
    BY DEF IInv, CopiesExact
  <2> QED BY <2>1, <2>2 DEF Unhandled, Surplus
<1> QED BY <1>1, Invariance, PTL

(* The worker takes no message beyond --limit.                             *)
THEOREM LimitIsKept == Spec => []LimitKept
<1>1. IInv => LimitKept
  BY DEF IInv, LimitFacts
<1> QED BY <1>1, Invariance, PTL

(* When the application's shutdown has resolved nothing is being claimed,  *)
(* handled, stored or settled but for a delivery that came late, which     *)
(* only an application that closes under a running worker can cause; and   *)
(* when the command has ended its transport is closed, unless the          *)
(* application that closed it first is at it still or has failed.          *)
THEOREM ShutdownDrains == Spec => []ShutdownIsQuiet
<1>1. IInv => ShutdownIsQuiet
  BY DEF IInv, CloseFacts
<1> QED BY <1>1, Invariance, PTL
=============================================================================
