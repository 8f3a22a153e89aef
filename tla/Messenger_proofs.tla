-------------------------- MODULE Messenger_proofs --------------------------
(***************************************************************************)
(* Theorems about Messenger, for every deployment: any number of messages, *)
(* workers, transports, routes and handlers, any retry policy, and any     *)
(* number of faults, failures and commands.                                *)
(*                                                                         *)
(* The invariant ties every envelope that somebody works on, and every     *)
(* entry of an operator's snapshot, to the row it came from, which may be  *)
(* gone or may have been claimed again.  A row is only deleted for a       *)
(* message that is done or that has a later row (DeletedIsSafe).           *)
(***************************************************************************)
EXTENDS Messenger, TLAPS

Busy(w) == pc[w] \notin {"idle", "stopped"}

(* A caller's envelope stays what it dispatched; its routes were stored in *)
(* order, and it returns when there are no more.                           *)
CallerFits(m) ==
  /\ env[m] = NewEnvelope(m)
  /\ pc[m] \in {"start", "route", "handle", "returned", "threw", "stopped"}
  /\ pc[m] = "start" => routed[m] = 0
  /\ pc[m] = "handle" => Routes[m] = <<>>
  /\ pc[m] = "route" => routed[m] < Len(Routes[m])
  /\ pc[m] \in {"start", "route"} =>
       \A i \in 1 .. routed[m] : <<m, Routes[m][i]>> \in accepted
  /\ pc[m] = "returned" => \A i \in DOMAIN Routes[m] : <<m, Routes[m][i]>> \in accepted

Callers == \A m \in Message : CallerFits(m)

(* What a message looks like on a transport.                               *)
Fits(wire, alias) ==
  /\ wire.home \in Transport \ {Failure}
  /\ wire.handled = {}
  /\ IF alias = Failure
       THEN wire.failedFrom = wire.home /\ ~wire.delayed /\ wire.count >= MaxRetries
       ELSE wire.failedFrom = NoTransport /\ alias = wire.home

(* What a worker has fits the transport it consumes, and past the first    *)
(* middleware it looks received from where it was first stored.            *)
WorkerFits(w) ==
  /\ pc[w] # "route"
  /\ Busy(w) =>
       /\ env[w] \in Envelope
       /\ Fits(Carried(w), Consumes[w])
       /\ pc[w] = "start" => env[w].receivedFrom = Consumes[w]
       /\ pc[w] \in {"handle", "resend", "deadletter"} =>
            env[w].receivedFrom = Carried(w).home
       /\ pc[w] = "resend" => ~Exhausted(w)
       /\ pc[w] = "deadletter" => Exhausted(w) /\ Failure # NoTransport

Workers == \A w \in Worker : WorkerFits(w)

(* One id, one message, also for what was read from rows that are gone.    *)
SameMessage(id, wire) ==
  id \in Nat /\ id < nextId /\ \A r \in rows : r.id = id => r.wire = wire

RowFacts ==
  /\ \A r \in rows : Fits(r.wire, r.at) /\ (r.at = Failure => r.due) /\ r.id < nextId
  /\ \A r, s \in rows : r.id = s.id => r = s

EnvelopeFacts == \A w \in Worker : Busy(w) => SameMessage(env[w].id, Carried(w))

SnapshotFacts ==
  \A e \in command.todo :
    /\ SameMessage(e.id, e.wire)
    /\ e.wire.failedFrom # NoTransport => Fits(e.wire, Failure)
    /\ \A f \in command.todo : e.id = f.id => e = f

(* d needs no row below id n.                                              *)
Safe(d, n) == d \in Done \/ \E r \in RowsOf(d) : n <= r.id

DeletedIsSafe ==
  /\ \A w \in Worker : pc[w] = "returned" => Safe(DutyOf(Carried(w)), env[w].id + 1)
  /\ command.stage = "retried" =>
       \A e \in command.todo : NextTodo(e) => Safe(DutyOf(e.wire), e.id + 1)

AcceptedIsSafe == \A d \in accepted : Safe(d, 0)

(* Names tell the handlers of a message apart.                             *)
DistinctNames == \A g, h \in Handler : HandlerNames[g] = HandlerNames[h] => g = h

(* The stamps of a pass of the handlers are those of handlers that ran.    *)
StampsAreTrue ==
  DistinctNames =>
    /\ AllHandlersRan
    /\ \A a \in Actor : pc[a] = "handle" =>
         \A h \in Handler : HandlerNames[h] \in ran[a] => <<DutyOf(Carried(a)), h>> \in ranOk

(* Without a fault every redelivery that is counted was an attempt, and    *)
(* what is in the failure transport, or dropped, had all of them.          *)
Tried(wire) == attempts[DutyOf(wire)]

Counted(wire, alias) ==
  wire.count <= Tried(wire) /\ (alias = Failure => Tried(wire) > MaxRetries)

PastAttempt == {"handle", "resend", "deadletter", "threw"}

AttemptsCounted ==
  used.faults = 0 =>
    /\ \A r \in rows : Counted(r.wire, r.at)
    /\ \A w \in Worker : Busy(w) =>
         /\ Counted(Carried(w), Consumes[w])
         /\ pc[w] \in PastAttempt => Carried(w).count < Tried(Carried(w))
    /\ command # Idle => used.commands > 0
    /\ \A d \in discarded : used.commands = 0 => attempts[d] > MaxRetries

IInv ==
  /\ TypeOK
  /\ Callers
  /\ Workers
  /\ RowFacts
  /\ EnvelopeFacts
  /\ SnapshotFacts
  /\ DeletedIsSafe
  /\ AcceptedIsSafe
  /\ StampsAreTrue
  /\ AttemptsCounted

-----------------------------------------------------------------------------
(* The deployment, wires and rows                                          *)

LEMMA SetupFixed ==
  ASSUME setup' = setup
  PROVE  /\ Failure' = Failure /\ Routes' = Routes /\ Consumes' = Consumes
         /\ HandlerNames' = HandlerNames /\ Handler' = Handler
         /\ RetryEnabled' = RetryEnabled /\ MaxRetries' = MaxRetries
         /\ Wire' = Wire /\ Row' = Row /\ Envelope' = Envelope
         /\ DistinctNames' = DistinctNames
BY DEF Failure, Routes, Consumes, HandlerNames, Handler, RetryEnabled, MaxRetries,
       Wire, Row, Envelope, DistinctNames

LEMMA Deployment ==
  ASSUME TypeOK
  PROVE  /\ Failure \in Transport \union {NoTransport} /\ MaxRetries \in Nat
         /\ \A m \in Message : Routes[m] \in Seq(Transport \ {Failure})
         /\ \A w \in Worker : Consumes[w] \in Transport
         /\ NoTransport \notin Transport
         /\ \A m \in Message : m \notin Worker /\ m \in Actor
         /\ \A w \in Worker : w \notin Message /\ w \in Actor
<1>1. setup \in Setups
  BY DEF TypeOK
<1>2. /\ Failure \in Transport \union {NoTransport} /\ MaxRetries \in Nat
      /\ \A m \in Message : Routes[m] \in Seq(Transport \ {Failure})
      /\ \A w \in Worker : Consumes[w] \in Transport
  BY <1>1, SetupsAssumption DEF Failure, MaxRetries, Routes, Consumes
<1>3. /\ \A m \in Message : m \notin Worker /\ m \in Actor
      /\ \A w \in Worker : w \notin Message /\ w \in Actor
  BY NamesAssumption DEF Actor
<1> QED BY <1>2, <1>3, NamesAssumption

LEMMA WireFields ==
  ASSUME NEW wire \in Wire
  PROVE  /\ wire.msg \in Message /\ wire.home \in Aliases /\ wire.count \in Nat
         /\ wire.delayed \in BOOLEAN /\ wire.failedFrom \in Aliases
         /\ wire.handled \subseteq {HandlerNames[h] : h \in Handler}
         /\ DutyOf(wire) \in Duty
BY DEF Wire, Duty, DutyOf

LEMMA EnvelopeFields ==
  ASSUME NEW e \in Envelope
  PROVE  e.wire \in Wire /\ e.id \in Nat /\ e.receivedFrom \in Aliases
BY DEF Envelope

LEMMA RowFields ==
  ASSUME NEW r \in Row
  PROVE  /\ r.id \in Nat /\ r.at \in Transport /\ r.wire \in Wire
         /\ r.due \in BOOLEAN /\ r.held \in BOOLEAN
         /\ [r EXCEPT !.due = TRUE] \in Row
         /\ [r EXCEPT !.due = TRUE].id = r.id /\ [r EXCEPT !.due = TRUE].at = r.at
         /\ [r EXCEPT !.due = TRUE].wire = r.wire /\ [r EXCEPT !.due = TRUE].due
         /\ \A b \in BOOLEAN :
              /\ [r EXCEPT !.held = b] \in Row
              /\ [r EXCEPT !.held = b].id = r.id /\ [r EXCEPT !.held = b].at = r.at
              /\ [r EXCEPT !.held = b].wire = r.wire /\ [r EXCEPT !.held = b].due = r.due
BY DEF Row

(* Every copy of a message is a wire with the same duty, but for the one   *)
(* that a route makes of what was dispatched.                              *)
LEMMA Copies ==
  ASSUME NEW wire \in Wire, NEW alias \in Aliases
  PROVE  /\ LET c == [wire EXCEPT !.count = @ + 1] IN
              /\ c \in Wire /\ c.msg = wire.msg /\ c.home = wire.home
              /\ c.count = wire.count + 1 /\ c.delayed = wire.delayed
              /\ c.handled = wire.handled /\ c.failedFrom = wire.failedFrom
         /\ LET c == [wire EXCEPT !.count = @ + 1, !.delayed = TRUE] IN
              /\ c \in Wire /\ c.msg = wire.msg /\ c.home = wire.home
              /\ c.count = wire.count + 1
              /\ c.handled = wire.handled /\ c.failedFrom = wire.failedFrom
         /\ LET c == [wire EXCEPT !.delayed = FALSE, !.failedFrom = alias] IN
              /\ c \in Wire /\ c.msg = wire.msg /\ c.home = wire.home
              /\ c.count = wire.count /\ c.delayed = FALSE
              /\ c.handled = wire.handled /\ c.failedFrom = alias
         /\ LET c == [wire EXCEPT !.count = 0, !.failedFrom = NoTransport] IN
              /\ c \in Wire /\ c.msg = wire.msg /\ c.home = wire.home
              /\ c.count = 0
              /\ c.handled = wire.handled /\ c.failedFrom = NoTransport
         /\ LET c == [wire EXCEPT !.home = alias] IN
              /\ c \in Wire /\ c.msg = wire.msg /\ c.home = alias
              /\ c.count = wire.count /\ c.delayed = wire.delayed
              /\ c.handled = wire.handled /\ c.failedFrom = wire.failedFrom
<1>1. NoTransport \in Aliases
  BY DEF Aliases
<1>2. wire.count \in Nat /\ wire.count + 1 \in Nat
  BY WireFields
<1>3. wire = [msg |-> wire.msg, home |-> wire.home, count |-> wire.count,
              delayed |-> wire.delayed, handled |-> wire.handled,
              failedFrom |-> wire.failedFrom]
  BY DEF Wire
<1> QED BY <1>1, <1>2, <1>3 DEF Wire

-----------------------------------------------------------------------------
(* The table                                                               *)

RowsSafe == \A d : \A n \in Nat : n <= nextId /\ Safe(d, n) => Safe(d, n)'

(* Nothing is added, or nothing but a flag changes.                        *)
LEMMA SameTable ==
  ASSUME IInv, setup' = setup, UNCHANGED nextId, rows' \subseteq rows
  PROVE  /\ rows' \subseteq Row /\ nextId' \in Nat
         /\ RowFacts'
         /\ \A id, wire : SameMessage(id, wire) => SameMessage(id, wire)'
BY SetupFixed DEF IInv, TypeOK, RowFacts, SameMessage, Fits

LEMMA FlaggedRow ==
  ASSUME IInv, setup' = setup, UNCHANGED nextId, NEW r \in rows, NEW q \in Row,
         q.id = r.id, q.at = r.at, q.wire = r.wire, r.due => q.due,
         rows' = (rows \ {r}) \union {q}, Done \subseteq Done'
  PROVE  /\ rows' \subseteq Row /\ nextId' \in Nat
         /\ RowFacts'
         /\ \A id, wire : SameMessage(id, wire) => SameMessage(id, wire)'
         /\ RowsSafe
<1>0. \A s \in rows' : \E o \in rows : /\ o.id = s.id /\ o.wire = s.wire /\ o.at = s.at
                                      /\ o.due => s.due
                                      /\ ((s = o /\ s # r) \/ (s = q /\ o = r))
  OBVIOUS
<1>1. rows' \subseteq Row /\ nextId' \in Nat
  BY DEF IInv, TypeOK
<1>2. RowFacts'
  BY <1>0, SetupFixed DEF IInv, RowFacts, Fits
<1>3. \A id, wire : SameMessage(id, wire) => SameMessage(id, wire)'
  BY <1>0 DEF SameMessage
<1>4. \A s \in rows : \E o \in rows' : o.id = s.id /\ o.wire = s.wire
  OBVIOUS
<1>5. RowsSafe
  BY <1>4 DEF RowsSafe, Safe, RowsOf
<1> QED BY <1>1, <1>2, <1>3, <1>5

(* A row is added, and all that is taken away is for the same duty.        *)
LEMMA AddedRow ==
  ASSUME IInv, setup' = setup, NEW alias \in Transport, NEW wire \in Wire,
         Fits(wire, alias), NEW R, R \subseteq rows,
         \A r \in rows \ R : DutyOf(r.wire) = DutyOf(wire),
         rows' = R \union {NewRow(alias, wire)}, nextId' = nextId + 1, Done \subseteq Done'
  PROVE  /\ rows' \subseteq Row /\ nextId' \in Nat
         /\ RowFacts'
         /\ \A id, v : SameMessage(id, v) => SameMessage(id, v)'
         /\ RowsSafe
         /\ \A n \in Nat : n <= nextId => Safe(DutyOf(wire), n)'
<1>1. PICK q \in Row : /\ q = NewRow(alias, wire)
                      /\ q.id = nextId /\ q.at = alias /\ q.wire = wire
                      /\ q.due = ~wire.delayed
  <2> DEFINE q == NewRow(alias, wire)
  <2>1. nextId \in Nat /\ (~wire.delayed) \in BOOLEAN
    BY DEF IInv, TypeOK
  <2>2. q \in Row
    BY <2>1 DEF NewRow, Row
  <2>3. q.id = nextId /\ q.at = alias /\ q.wire = wire /\ q.due = ~wire.delayed
    BY DEF NewRow
  <2> QED BY <2>2, <2>3
<1>2. nextId \in Nat /\ rows \subseteq Row /\ \A r \in rows : r.id \in Nat /\ r.id < nextId
  BY RowFields DEF IInv, TypeOK, RowFacts
<1>3. rows' = R \union {q}
  BY <1>1
<1>4. rows' \subseteq Row /\ nextId' \in Nat
  BY <1>1, <1>2, <1>3
<1>5. RowFacts'
  <2>1. \A r \in rows' : Fits(r.wire, r.at)' /\ (r.at = Failure' => r.due) /\ r.id < nextId'
    <3>1. Fits(q.wire, q.at)' /\ (q.at = Failure' => q.due) /\ q.id < nextId'
      <4>1. Fits(wire, alias)' /\ Failure' = Failure
        BY SetupFixed DEF Fits
      <4>2. Fits(q.wire, q.at)'
        BY <1>1, <4>1
      <4>3. q.at = Failure => q.due
        BY <1>1 DEF Fits
      <4> QED BY <1>1, <1>2, <4>1, <4>2, <4>3
    <3>2. \A r \in R : Fits(r.wire, r.at)' /\ (r.at = Failure' => r.due) /\ r.id < nextId'
      BY <1>2, SetupFixed DEF IInv, RowFacts, Fits
    <3> QED BY <1>3, <3>1, <3>2
  <2>2. \A r, s \in rows' : r.id = s.id => r = s
    BY <1>1, <1>2, <1>3 DEF IInv, RowFacts
  <2> QED BY <2>1, <2>2 DEF RowFacts, Fits
<1>6. \A id, v : SameMessage(id, v) => SameMessage(id, v)'
  <2> SUFFICES ASSUME NEW id, NEW v, SameMessage(id, v) PROVE SameMessage(id, v)'
    OBVIOUS
  <2>1. id # nextId
    BY <1>2 DEF SameMessage
  <2>2. id < nextId'
    BY <1>2 DEF SameMessage
  <2> QED BY <1>1, <1>3, <2>1, <2>2 DEF SameMessage
<1>7. \A n \in Nat : n <= nextId => Safe(DutyOf(wire), n)'
  BY <1>1, <1>3 DEF Safe, RowsOf
<1>8. RowsSafe
  <2> SUFFICES ASSUME NEW d, NEW n \in Nat, n <= nextId, Safe(d, n) PROVE Safe(d, n)'
    BY DEF RowsSafe
  <2>1. CASE d = DutyOf(wire)
    BY <1>7, <2>1
  <2>2. CASE d # DutyOf(wire)
    BY <1>3, <2>2 DEF Safe, RowsOf
  <2> QED BY <2>1, <2>2
<1> QED BY <1>4, <1>5, <1>6, <1>7, <1>8

(* A row is deleted that nobody needs.                                     *)
LEMMA DeletedRow ==
  ASSUME IInv, UNCHANGED <<setup, nextId>>, NEW id \in Nat, rows' = Without(id),
         Done \subseteq Done',
         \A r \in rows : r.id = id => Safe(DutyOf(r.wire), id + 1) \/ DutyOf(r.wire) \in Done'
  PROVE  RowsSafe
<1> SUFFICES ASSUME NEW d, NEW n \in Nat, n <= nextId, Safe(d, n), d \notin Done'
             PROVE  Safe(d, n)'
  BY DEF RowsSafe, Safe
<1>0. \A r \in rows : r.id \in Nat
  BY RowFields DEF IInv, TypeOK
<1>1. PICK r \in RowsOf(d) : n <= r.id
  BY DEF Safe
<1>2. CASE r.id # id
  BY <1>1, <1>2 DEF Safe, RowsOf, Without
<1>3. CASE r.id = id
  <2>1. PICK s \in RowsOf(d) : id + 1 <= s.id
    BY <1>1, <1>3 DEF Safe, RowsOf
  <2>2. s \in rows' /\ n <= s.id
    BY <1>0, <1>1, <1>3, <2>1 DEF RowsOf, Without
  <2> QED BY <2>1, <2>2 DEF Safe, RowsOf
<1> QED BY <1>2, <1>3

(* What is safe stays safe; it is enough to look at what is new.           *)
LEMMA StillSafe ==
  ASSUME IInv, RowsSafe,
         \A d \in accepted' : d \in accepted \/ Safe(d, 0)',
         \A w \in Worker : pc'[w] = "returned" =>
           \/ pc[w] = "returned" /\ env'[w] = env[w]
           \/ \E wire, id : /\ env'[w].wire = wire /\ env'[w].id = id
                            /\ Safe(DutyOf(wire), id + 1)',
         command'.stage = "retried" =>
           \/ command' = command
           \/ \A e \in command'.todo : NextTodo(e)' => Safe(DutyOf(e.wire), e.id + 1)'
  PROVE  DeletedIsSafe' /\ AcceptedIsSafe'
<1>0. nextId \in Nat
  BY DEF IInv, TypeOK
<1>1. AcceptedIsSafe'
  BY <1>0 DEF IInv, AcceptedIsSafe, RowsSafe
<1>2. ASSUME NEW w \in Worker, pc'[w] = "returned"
      PROVE  Safe(DutyOf(Carried(w)), env[w].id + 1)'
  <2>1. CASE pc[w] = "returned" /\ env'[w] = env[w]
    <3>1. PICK wire, id : wire = Carried(w) /\ id = env[w].id
      OBVIOUS
    <3>2. Safe(DutyOf(wire), id + 1)
      BY <2>1, <3>1 DEF IInv, DeletedIsSafe
    <3>3. id + 1 \in Nat /\ id + 1 <= nextId
      BY <1>0, <2>1, <3>1, EnvelopeFields
         DEF IInv, EnvelopeFacts, SameMessage, Busy, Workers
    <3>4. Safe(DutyOf(wire), id + 1)'
      BY <3>2, <3>3 DEF RowsSafe
    <3>5. wire = env'[w].wire /\ id = env'[w].id
      BY <2>1, <3>1 DEF Carried
    <3> QED BY <3>4, <3>5 DEF Carried, Safe, RowsOf
  <2>2. CASE \E wire, id : /\ env'[w].wire = wire /\ env'[w].id = id
                           /\ Safe(DutyOf(wire), id + 1)'
    BY <2>2 DEF Carried, Safe, RowsOf
  <2> QED BY <1>2, <2>1, <2>2
<1>3. ASSUME command'.stage = "retried", NEW e \in command'.todo, NextTodo(e)'
      PROVE  Safe(DutyOf(e.wire), e.id + 1)'
  <2>1. CASE command' = command
    <3>1. Safe(DutyOf(e.wire), e.id + 1)
      BY <1>3, <2>1 DEF IInv, DeletedIsSafe, NextTodo
    <3>2. e.id + 1 \in Nat /\ e.id + 1 <= nextId
      BY <1>0, <1>3, <2>1 DEF IInv, TypeOK, SnapshotFacts, SameMessage
    <3> QED BY <3>1, <3>2 DEF RowsSafe
  <2>2. CASE command' # command
    BY <1>3, <2>2
  <2> QED BY <2>1, <2>2
<1> QED BY <1>1, <1>2, <1>3 DEF DeletedIsSafe

(* What was read keeps its message.                                        *)
LEMMA StillRead ==
  ASSUME IInv, setup' = setup, \A id, wire : SameMessage(id, wire) => SameMessage(id, wire)',
         \A w \in Worker : Busy(w)' =>
           \/ Busy(w) /\ env'[w].id = env[w].id /\ env'[w].wire = env[w].wire
           \/ \E id, wire : env'[w].id = id /\ env'[w].wire = wire /\ SameMessage(id, wire),
         \/ command'.todo \subseteq command.todo
         \/ \A e \in command'.todo :
              /\ SameMessage(e.id, e.wire)
              /\ e.wire.failedFrom # NoTransport => Fits(e.wire, Failure)
              /\ \A f \in command'.todo : e.id = f.id => e = f
  PROVE  EnvelopeFacts' /\ SnapshotFacts'
<1>1. ASSUME NEW w \in Worker, Busy(w)'
      PROVE  SameMessage(env[w].id, Carried(w))'
  <2>1. PICK id, wire : env'[w].id = id /\ env'[w].wire = wire /\ SameMessage(id, wire)
    BY <1>1 DEF IInv, EnvelopeFacts, Carried
  <2>2. SameMessage(id, wire)'
    BY <2>1
  <2> QED BY <2>1, <2>2 DEF SameMessage, Carried
<1>2. \A e \in command'.todo :
        /\ SameMessage(e.id, e.wire)
        /\ e.wire.failedFrom # NoTransport => Fits(e.wire, Failure)
        /\ \A f \in command'.todo : e.id = f.id => e = f
  BY DEF IInv, SnapshotFacts
<1>3. \A e \in command'.todo :
        /\ SameMessage(e.id, e.wire)'
        /\ e.wire.failedFrom # NoTransport => Fits(e.wire, Failure)'
        /\ \A f \in command'.todo : e.id = f.id => e = f
  BY <1>2, SetupFixed DEF Fits
<1> QED BY <1>1, <1>3 DEF EnvelopeFacts, SnapshotFacts, Fits

(* A caller or a worker that does not move stays where it fits.            *)
LEMMA StillFits ==
  ASSUME IInv, setup' = setup, accepted \subseteq accepted',
         \A m \in Message :
           \/ pc'[m] = pc[m] /\ env'[m] = env[m] /\ routed'[m] = routed[m]
           \/ CallerFits(m)',
         \A w \in Worker : (pc'[w] = pc[w] /\ env'[w] = env[w]) \/ WorkerFits(w)'
  PROVE  Callers' /\ Workers'
<1>1. ASSUME NEW m \in Message, pc'[m] = pc[m], env'[m] = env[m], routed'[m] = routed[m]
      PROVE  CallerFits(m)'
  BY <1>1, SetupFixed DEF IInv, Callers, CallerFits
<1>2. ASSUME NEW w \in Worker, pc'[w] = pc[w], env'[w] = env[w]
      PROVE  WorkerFits(w)'
  BY <1>2, SetupFixed DEF IInv, Workers, WorkerFits, Busy, Carried, Fits, Exhausted
<1> QED BY <1>1, <1>2 DEF Callers, Workers

(* No stamps come without a handler.                                       *)
LEMMA StillStamped ==
  ASSUME IInv, setup' = setup, ranOk \subseteq ranOk', completed' = completed,
         \A a \in Actor : pc'[a] = "handle" =>
           \/ pc[a] = "handle" /\ env'[a] = env[a] /\ ran'[a] = ran[a]
           \/ ran'[a] = {}
  PROVE  StampsAreTrue'
BY SetupFixed DEF IInv, StampsAreTrue, AllHandlersRan, Carried

(* Where no attempt is made, none is missed by what is copied.             *)
LEMMA StillCounted ==
  ASSUME IInv, setup' = setup, attempts' = attempts, used'.commands = used.commands,
         used'.faults = 0 => used.faults = 0,
         used'.faults = 0 =>
           /\ \A r \in rows' : \/ \E o \in rows : o.wire = r.wire /\ o.at = r.at
                               \/ Counted(r.wire, r.at)
           /\ \A w \in Worker : Busy(w)' =>
                \/ /\ Busy(w) /\ env'[w].wire = env[w].wire
                   /\ pc'[w] \in PastAttempt => pc[w] \in PastAttempt
                \/ \E wire : /\ env'[w].wire = wire /\ Counted(wire, Consumes[w])
                             /\ pc'[w] \notin PastAttempt
           /\ command' # Idle => command # Idle
           /\ \A d \in discarded' :
                d \in discarded \/ used.commands > 0 \/ attempts[d] > MaxRetries
  PROVE  AttemptsCounted'
<1> SUFFICES ASSUME used'.faults = 0 PROVE AttemptsCounted'
  BY DEF AttemptsCounted
<1>0. used.commands \in Nat /\ \A wire, alias : Counted(wire, alias)' <=> Counted(wire, alias)
  BY SetupFixed DEF Counted, Tried, IInv, TypeOK
<1>1. \A r \in rows' : Counted(r.wire, r.at)'
  BY <1>0 DEF IInv, AttemptsCounted
<1>2. ASSUME NEW w \in Worker, Busy(w)'
      PROVE  /\ Counted(Carried(w), Consumes[w])'
             /\ pc'[w] \in PastAttempt => Carried(w)'.count < Tried(Carried(w))'
  <2>1. CASE /\ Busy(w) /\ env'[w].wire = env[w].wire
             /\ pc'[w] \in PastAttempt => pc[w] \in PastAttempt
    BY <2>1, SetupFixed DEF IInv, AttemptsCounted, Counted, Tried, Carried
  <2>2. CASE \E wire : /\ env'[w].wire = wire /\ Counted(wire, Consumes[w])
                       /\ pc'[w] \notin PastAttempt
    BY <2>2, SetupFixed DEF Counted, Tried, Carried
  <2> QED BY <1>2, <2>1, <2>2
<1>3. command' # Idle => used'.commands > 0
  BY DEF IInv, AttemptsCounted, Idle
<1>4. \A d \in discarded' : used'.commands = 0 => attempts'[d] > MaxRetries'
  BY <1>0, SetupFixed DEF IInv, AttemptsCounted
<1> QED BY <1>1, <1>2, <1>3, <1>4 DEF AttemptsCounted, Idle

-----------------------------------------------------------------------------
(* Faults and sends                                                        *)

UsedUp == /\ used' \in [{"faults", "failures", "commands"} -> Nat]
          /\ used'.commands = used.commands
          /\ used'.faults = 0 => used.faults = 0

LEMMA FaultFacts ==
  ASSUME IInv, NEW kind, Fault(kind)
  PROVE  UsedUp /\ used'.faults # 0
<1>1. used.faults \in Nat /\ used' = [used EXCEPT !.faults = used.faults + 1]
  BY DEF Fault, IInv, TypeOK
<1> DEFINE k == used.faults + 1
<1>2. k \in Nat /\ k # 0 /\ used' = [used EXCEPT !.faults = k]
  BY <1>1
<1> HIDE DEF k
<1> QED BY <1>2 DEF UsedUp, IInv, TypeOK

LEMMA NoFault == IInv /\ used' = used => UsedUp
BY DEF UsedUp, IInv, TypeOK

(* send() leaves a copy if it resolves, and maybe if it does not.          *)
LEMMA Sending ==
  ASSUME IInv, setup' = setup, NEW a \in Actor, NEW alias \in Transport, NEW wire \in Wire,
         NEW ok, ok # "threw", Fits(wire, alias), SendTo(a, alias, wire, ok),
         Done \subseteq Done'
  PROVE  /\ rows' \subseteq Row /\ nextId' \in Nat /\ RowFacts' /\ RowsSafe
         /\ \A id, v : SameMessage(id, v) => SameMessage(id, v)'
         /\ \/ pc' = [pc EXCEPT ![a] = ok] /\ rows' # rows
            \/ pc' = [pc EXCEPT ![a] = "threw"] /\ used'.faults # 0
         /\ rows' # rows => \A n \in Nat : n <= nextId => Safe(DutyOf(wire), n)'
         /\ \A r \in rows' : r \in rows \/ (r.wire = wire /\ r.at = alias)
         /\ UsedUp
<1>1. CASE Insert(alias, wire)
  <2>1. rows' = rows \union {NewRow(alias, wire)} /\ nextId' = nextId + 1
    BY <1>1 DEF Insert
  <2>2. rows \subseteq rows /\ \A r \in rows \ rows : DutyOf(r.wire) = DutyOf(wire)
    OBVIOUS
  <2>3. /\ rows' \subseteq Row /\ nextId' \in Nat /\ RowFacts'
        /\ \A id, v : SameMessage(id, v) => SameMessage(id, v)'
        /\ RowsSafe
        /\ \A n \in Nat : n <= nextId => Safe(DutyOf(wire), n)'
    BY <2>1, <2>2, AddedRow
  <2>4. NewRow(alias, wire).id = nextId /\ nextId \in Nat
        /\ NewRow(alias, wire).wire = wire /\ NewRow(alias, wire).at = alias
    BY DEF NewRow, IInv, TypeOK
  <2>5. NewRow(alias, wire) \notin rows
    BY <2>4 DEF IInv, RowFacts
  <2>6. \/ pc' = [pc EXCEPT ![a] = ok] /\ rows' # rows
        \/ pc' = [pc EXCEPT ![a] = "threw"] /\ used'.faults # 0
    BY <2>1, <2>5, FaultFacts DEF SendTo, Goto
  <2>7. UsedUp
    BY FaultFacts, NoFault DEF SendTo
  <2> QED BY <2>1, <2>3, <2>4, <2>6, <2>7
<1>2. CASE Unchanged /\ ~Insert(alias, wire)
  <2>1. UNCHANGED <<rows, nextId>>
    BY <1>2 DEF Unchanged
  <2>2. RowsSafe
    BY <2>1 DEF RowsSafe, Safe, RowsOf
  <2>3. pc' = [pc EXCEPT ![a] = "threw"] /\ used'.faults # 0 /\ UsedUp
    BY <1>2, FaultFacts DEF SendTo, Goto
  <2> QED BY <2>1, <2>2, <2>3, SameTable
<1> QED BY <1>1, <1>2 DEF SendTo

LEMMA NewEnvelopeFacts ==
  \A m \in Message :
    /\ NewEnvelope(m) \in Envelope
    /\ NewEnvelope(m).wire.failedFrom = NoTransport /\ NewEnvelope(m).wire.handled = {}
    /\ NewEnvelope(m).wire.msg = m /\ NewEnvelope(m).receivedFrom = NoTransport
    /\ NewEnvelope(m).wire.home = NoTransport /\ NewEnvelope(m).wire.delayed = FALSE
BY DEF NewEnvelope, Envelope, Wire, Aliases

(* Who is at work has an envelope.                                         *)
LEMMA HasEnvelope ==
  ASSUME IInv
  PROVE  /\ \A w \in Worker : Busy(w) =>
              /\ env[w] \in Envelope /\ Carried(w) \in Wire /\ DutyOf(Carried(w)) \in Duty
              /\ env[w].id \in Nat /\ env[w].id < nextId
              /\ Carried(w).home \in Transport \ {Failure} /\ Carried(w).handled = {}
              /\ \A r \in rows : r.id = env[w].id => r.wire = Carried(w)
         /\ \A m \in Message :
              /\ env[m] = NewEnvelope(m) /\ env[m] \in Envelope
              /\ Carried(m) \in Wire /\ DutyOf(Carried(m)) \in Duty
<1>1. ASSUME NEW w \in Worker, Busy(w)
      PROVE  /\ env[w] \in Envelope /\ Carried(w) \in Wire /\ DutyOf(Carried(w)) \in Duty
             /\ env[w].id \in Nat /\ env[w].id < nextId
             /\ Carried(w).home \in Transport \ {Failure} /\ Carried(w).handled = {}
             /\ \A r \in rows : r.id = env[w].id => r.wire = Carried(w)
  <2>1. env[w] \in Envelope /\ Fits(Carried(w), Consumes[w])
        /\ SameMessage(env[w].id, Carried(w))
    BY <1>1 DEF IInv, Workers, WorkerFits, EnvelopeFacts
  <2> QED BY <2>1, EnvelopeFields, WireFields DEF Carried, Fits, SameMessage
<1>2. ASSUME NEW m \in Message
      PROVE  /\ env[m] = NewEnvelope(m) /\ env[m] \in Envelope
             /\ Carried(m) \in Wire /\ DutyOf(Carried(m)) \in Duty
  <2>1. env[m] = NewEnvelope(m)
    BY DEF IInv, Callers, CallerFits
  <2> QED BY <2>1, NewEnvelopeFacts, EnvelopeFields, WireFields DEF Carried
<1> QED BY <1>1, <1>2

-----------------------------------------------------------------------------
(* The invariant holds initially.                                          *)
LEMMA InitIInv == Init => IInv
<1> SUFFICES ASSUME Init PROVE IInv
  OBVIOUS
<1>1. TypeOK
  BY NewEnvelopeFacts DEF Init, TypeOK, Actor, Idle
<1>2. Callers
  BY NamesAssumption DEF Init, Callers, CallerFits, Actor
<1>3. Workers /\ EnvelopeFacts /\ DeletedIsSafe
  BY NamesAssumption DEF Init, Workers, WorkerFits, EnvelopeFacts, DeletedIsSafe, Busy,
         Actor, Idle
<1>4. RowFacts /\ SnapshotFacts /\ AcceptedIsSafe
  BY DEF Init, RowFacts, SnapshotFacts, AcceptedIsSafe, Idle
<1>5. StampsAreTrue
  BY DEF Init, StampsAreTrue, AllHandlersRan
<1>6. AttemptsCounted
  BY NamesAssumption DEF Init, AttemptsCounted, Busy, Actor
<1> QED BY <1>1, <1>2, <1>3, <1>4, <1>5, <1>6 DEF IInv

-----------------------------------------------------------------------------
(* The table by itself                                                     *)

LEMMA BecomeDueIInv ==
  ASSUME IInv, NEW r \in rows, BecomeDue(r)
  PROVE  IInv'
<1>s. setup' = setup
  BY DEF BecomeDue
<1>f. UNCHANGED <<nextId, pipelineVars, command, historyVars>>
  BY DEF BecomeDue
<1>t. /\ rows' \subseteq Row /\ nextId' \in Nat /\ RowFacts' /\ RowsSafe
      /\ \A id, wire : SameMessage(id, wire) => SameMessage(id, wire)'
      /\ \A s \in rows' : \E o \in rows : o.wire = s.wire /\ o.at = s.at
  <2>1. PICK q \in Row : /\ q = [r EXCEPT !.due = TRUE]
                        /\ q.id = r.id /\ q.at = r.at /\ q.wire = r.wire /\ (r.due => q.due)
    BY RowFields DEF IInv, TypeOK
  <2>2. rows' = (rows \ {r}) \union {q} /\ Done \subseteq Done' /\ UNCHANGED nextId
    BY <1>f, <2>1 DEF Done, historyVars, BecomeDue
  <2>3. \A s \in rows' : \E o \in rows : o.wire = s.wire /\ o.at = s.at
    BY <2>1, <2>2
  <2> QED BY <1>s, <2>1, <2>2, <2>3, FlaggedRow
<1>u. UsedUp
  BY NoFault DEF BecomeDue
<1> USE DEF pipelineVars, historyVars
<1>1. TypeOK'
  BY <1>s, <1>f, <1>t, <1>u, SetupFixed DEF IInv, TypeOK, UsedUp
<1>2. Callers' /\ Workers'
  BY <1>s, <1>f, StillFits
<1>4. EnvelopeFacts' /\ SnapshotFacts'
  BY <1>s, <1>f, <1>t, StillRead DEF Busy
<1>5. DeletedIsSafe' /\ AcceptedIsSafe'
  BY <1>f, <1>t, StillSafe
<1>7. StampsAreTrue'
  BY <1>s, <1>f, StillStamped
<1>8. AttemptsCounted'
  BY <1>s, <1>f, <1>t, <1>u, StillCounted DEF UsedUp, Busy
<1> QED BY <1>t, <1>1, <1>2, <1>4, <1>5, <1>7, <1>8 DEF IInv

LEMMA ExpireIInv ==
  ASSUME IInv, NEW r \in rows, Expire(r)
  PROVE  IInv'
<1>s. setup' = setup
  BY DEF Expire
<1>f. UNCHANGED <<nextId, pipelineVars, command, historyVars>>
  BY DEF Expire
<1>t. /\ rows' \subseteq Row /\ nextId' \in Nat /\ RowFacts' /\ RowsSafe
      /\ \A id, wire : SameMessage(id, wire) => SameMessage(id, wire)'
      /\ \A s \in rows' : \E o \in rows : o.wire = s.wire /\ o.at = s.at
  <2>1. PICK q \in Row : /\ q = [r EXCEPT !.held = FALSE]
                        /\ q.id = r.id /\ q.at = r.at /\ q.wire = r.wire /\ (r.due => q.due)
    <3> DEFINE q == [r EXCEPT !.held = FALSE]
    <3>1. r \in Row
      BY DEF IInv, TypeOK
    <3>2. q \in Row /\ q.id = r.id /\ q.at = r.at /\ q.wire = r.wire /\ q.due = r.due
      BY <3>1 DEF Row
    <3>3. q = [r EXCEPT !.held = FALSE]
      OBVIOUS
    <3> HIDE DEF q
    <3> QED BY <3>2, <3>3
  <2>2. rows' = (rows \ {r}) \union {q} /\ Done \subseteq Done' /\ UNCHANGED nextId
    BY <1>f, <2>1 DEF Done, historyVars, Expire
  <2>3. \A s \in rows' : \E o \in rows : o.wire = s.wire /\ o.at = s.at
    BY <2>1, <2>2
  <2> QED BY <1>s, <2>1, <2>2, <2>3, FlaggedRow
<1>u. UsedUp
  BY NoFault, FaultFacts DEF Expire
<1> USE DEF pipelineVars, historyVars
<1>1. TypeOK'
  BY <1>s, <1>f, <1>t, <1>u, SetupFixed DEF IInv, TypeOK, UsedUp
<1>2. Callers' /\ Workers'
  BY <1>s, <1>f, StillFits
<1>4. EnvelopeFacts' /\ SnapshotFacts'
  BY <1>s, <1>f, <1>t, StillRead DEF Busy
<1>5. DeletedIsSafe' /\ AcceptedIsSafe'
  BY <1>f, <1>t, StillSafe
<1>7. StampsAreTrue'
  BY <1>s, <1>f, StillStamped
<1>8. AttemptsCounted'
  BY <1>s, <1>f, <1>t, <1>u, StillCounted DEF UsedUp, Busy
<1> QED BY <1>t, <1>1, <1>2, <1>4, <1>5, <1>7, <1>8 DEF IInv

-----------------------------------------------------------------------------
(* The pipeline                                                            *)

LEMMA EnterIInv ==
  ASSUME IInv, NEW a \in Actor, Enter(a)
  PROVE  IInv'
<1>s. setup' = setup
  BY DEF Enter
<1>f. /\ UNCHANGED <<rows, nextId, routed, inFlight, command, used,
                     accepted, completed, discarded, ranOk>>
      /\ pc[a] = "start"
      /\ env' = [env EXCEPT ![a] = RestoreOrigin(env[a])]
      /\ ran' = [ran EXCEPT ![a] = Carried(a).handled]
      /\ \/ pc' = [pc EXCEPT ![a] = "route"] /\ attempts' = attempts
               /\ a \in Message /\ Routes[a] # <<>>
         \/ /\ pc' = [pc EXCEPT ![a] = "handle"]
            /\ attempts' = [attempts EXCEPT ![DutyOf(Carried(a))] = @ + 1]
            /\ ~(a \in Message /\ Routes[a] # <<>>)
  BY DEF Enter, Goto
<1>t. /\ rows' \subseteq Row /\ nextId' \in Nat /\ RowFacts' /\ RowsSafe
      /\ \A id, wire : SameMessage(id, wire) => SameMessage(id, wire)'
  <2>1. RowsSafe
    BY <1>f DEF RowsSafe, Safe, RowsOf, Done
  <2> QED BY <1>s, <1>f, <2>1, SameTable
<1>a. /\ RestoreOrigin(env[a]) \in Envelope
      /\ RestoreOrigin(env[a]).wire = Carried(a) /\ RestoreOrigin(env[a]).id = env[a].id
      /\ Carried(a).handled = {} /\ Carried(a) \in Wire /\ DutyOf(Carried(a)) \in Duty
      /\ a \in Worker => RestoreOrigin(env[a]).receivedFrom = Carried(a).home
      /\ a \in Message => RestoreOrigin(env[a]) = env[a]
  <2>1. CASE a \in Worker
    <3>1. Busy(a)
      BY <1>f DEF Busy
    <3>2. /\ env[a] \in Envelope /\ Fits(Carried(a), Consumes[a])
          /\ env[a].receivedFrom = Consumes[a]
      BY <1>f, <2>1, <3>1 DEF IInv, Workers, WorkerFits
    <3>3. env[a].wire.failedFrom \in Aliases /\ Carried(a) = env[a].wire
      BY <3>2, EnvelopeFields, WireFields DEF Carried
    <3>4. RestoreOrigin(env[a]) \in Envelope
      BY <3>2, <3>3 DEF RestoreOrigin, Envelope
    <3>5. RestoreOrigin(env[a]).wire = env[a].wire /\ RestoreOrigin(env[a]).id = env[a].id
      BY <3>2 DEF RestoreOrigin, Envelope
    <3>6. RestoreOrigin(env[a]).receivedFrom = Carried(a).home
      BY <3>2, <3>3, <2>1, Deployment DEF RestoreOrigin, Envelope, Fits, IInv
    <3> QED BY <2>1, <3>1, <3>3, <3>4, <3>5, <3>6, HasEnvelope, Deployment DEF IInv
  <2>2. CASE a \in Message
    <3>1. env[a] = NewEnvelope(a)
      BY <2>2, HasEnvelope
    <3>2. RestoreOrigin(env[a]) = env[a]
      BY <2>2, <3>1, NewEnvelopeFacts DEF RestoreOrigin
    <3> QED BY <2>2, <3>1, <3>2, HasEnvelope, NewEnvelopeFacts, Deployment DEF Carried, IInv
  <2> QED BY <2>1, <2>2 DEF Actor
<1>e. /\ pc'[a] \in {"route", "handle"} /\ env'[a] = RestoreOrigin(env[a]) /\ ran'[a] = {}
      /\ \A b \in Actor : b # a => pc'[b] = pc[b] /\ env'[b] = env[b] /\ ran'[b] = ran[b]
  BY <1>f, <1>a DEF IInv, TypeOK
<1>n. attempts' \in [Duty -> Nat]
  <2> DEFINE d == DutyOf(Carried(a))
             k == attempts[d] + 1
  <2>1. d \in Duty /\ attempts \in [Duty -> Nat]
    BY <1>a DEF IInv, TypeOK
  <2>2. k \in Nat /\ (attempts' = attempts \/ attempts' = [attempts EXCEPT ![d] = k])
    BY <1>f, <2>1
  <2> HIDE DEF d, k
  <2> QED BY <2>1, <2>2
<1>1. TypeOK'
  <2>1. pc' \in [Actor -> {"start", "route", "handle", "resend", "deadletter",
                          "returned", "threw", "idle", "stopped"}]
    BY <1>f, <1>a, Deployment DEF IInv, TypeOK
  <2>2. env' \in [Actor -> Envelope \union {NoEnvelope}]
    BY <1>f, <1>a, Deployment DEF IInv, TypeOK
  <2>3. ran' \in [Actor -> SUBSET {HandlerNames[h] : h \in Handler}]
    BY <1>f, <1>a DEF IInv, TypeOK
  <2>4. routed' \in [Message -> Nat] /\ inFlight' \in [Worker -> SUBSET Nat]
    BY <1>f, <1>a, Deployment DEF IInv, TypeOK
  <2>5. command' \in [stage : {"none", "retry", "remove", "retried"},
                      todo : SUBSET [id : Nat, wire : Wire]]
    BY <1>f, <1>a, Deployment DEF IInv, TypeOK
  <2>6. used' \in [{"faults", "failures", "commands"} -> Nat]
    BY <1>f, <1>a, Deployment DEF IInv, TypeOK
  <2>7. accepted' \subseteq Duty /\ completed' \subseteq Duty /\ discarded' \subseteq Duty
    BY <1>f, <1>a, Deployment DEF IInv, TypeOK
  <2>8. ranOk' \subseteq Duty \X Handler /\ attempts' \in [Duty -> Nat]
    BY <1>f, <1>n DEF IInv, TypeOK
  <2> QED BY <1>s, <1>t, <2>1, <2>2, <2>3, <2>4, <2>5, <2>6, <2>7, <2>8, SetupFixed
     DEF IInv, TypeOK
<1>2. Callers' /\ Workers'
  <2>1. ASSUME a \in Message PROVE CallerFits(a)'
    <3>1. CallerFits(a)
      BY <2>1 DEF IInv, Callers
    <3>2. env'[a] = env[a] /\ routed'[a] = routed[a] /\ accepted' = accepted
      BY <1>a, <1>e, <1>f, <2>1
    <3>3. Routes[a] # <<>> => 0 < Len(Routes[a])
      BY <2>1, Deployment DEF IInv
    <3>4. (pc'[a] = "route" /\ Routes[a] # <<>>) \/ (pc'[a] = "handle" /\ Routes[a] = <<>>)
      BY <1>f, <2>1 DEF IInv, TypeOK
    <3> QED BY <1>f, <1>s, <3>1, <3>2, <3>3, <3>4, SetupFixed DEF CallerFits
  <2>2. ASSUME a \in Worker PROVE WorkerFits(a)'
    <3>1. Fits(Carried(a), Consumes[a])
      BY <1>f, <2>2 DEF IInv, Workers, WorkerFits, Busy
    <3>2. pc'[a] = "handle"
      BY <1>e, <1>f, <2>2, Deployment DEF IInv, TypeOK
    <3>3. env'[a].wire = Carried(a)
      BY <1>a, <1>e
    <3> QED BY <1>a, <1>e, <1>s, <2>2, <3>1, <3>2, <3>3, SetupFixed
           DEF WorkerFits, Busy, Carried, Fits
  <2> QED BY <1>e, <1>f, <1>s, <2>1, <2>2, StillFits, Deployment DEF IInv
<1>4. EnvelopeFacts' /\ SnapshotFacts'
  <2>1. \A w \in Worker : Busy(w)' =>
          Busy(w) /\ env'[w].id = env[w].id /\ env'[w].wire = env[w].wire
    BY <1>a, <1>e, <1>f, Deployment DEF Busy, Carried, IInv
  <2> QED BY <1>s, <1>f, <1>t, <2>1, StillRead
<1>5. DeletedIsSafe' /\ AcceptedIsSafe'
  <2>1. \A w \in Worker : pc'[w] = "returned" => pc[w] = "returned" /\ env'[w] = env[w]
    BY <1>e, <1>f, Deployment DEF IInv
  <2> QED BY <1>f, <1>t, <2>1, StillSafe
<1>7. StampsAreTrue'
  BY <1>s, <1>e, <1>f, StillStamped
<1>8. AttemptsCounted'
  <2> DEFINE d == DutyOf(Carried(a))
  <2>0. MaxRetries \in Nat /\ attempts \in [Duty -> Nat] /\ d \in Duty
    BY <1>a, Deployment DEF IInv, TypeOK
  <2>1. /\ \A x \in Duty : attempts'[x] \in Nat /\ attempts[x] \in Nat /\ attempts[x] <= attempts'[x]
        /\ pc'[a] = "handle" => attempts[d] < attempts'[d]
    BY <1>f, <2>0 DEF IInv, TypeOK
  <2> SUFFICES ASSUME used'.faults = 0, used.faults = 0 PROVE AttemptsCounted'
    BY <1>f DEF AttemptsCounted
  <2>2. ASSUME NEW wire \in Wire, NEW alias, Counted(wire, alias) PROVE Counted(wire, alias)'
    <3>1. DutyOf(wire) \in Duty /\ wire.count \in Nat
      BY WireFields
    <3> QED BY <1>s, <2>0, <2>1, <2>2, <3>1, SetupFixed DEF Counted, Tried
  <2>3. \A r \in rows' : Counted(r.wire, r.at)'
    BY <1>f, <2>2, RowFields DEF IInv, TypeOK, AttemptsCounted
  <2>4. ASSUME NEW w \in Worker, Busy(w)'
        PROVE  /\ Counted(Carried(w), Consumes[w])'
               /\ pc'[w] \in PastAttempt => Carried(w)'.count < Tried(Carried(w))'
    <3>1. Busy(w) /\ Carried(w)' = Carried(w) /\ Carried(w) \in Wire
      BY <1>a, <1>e, <1>f, <2>4, HasEnvelope, Deployment DEF Busy, Carried, IInv
    <3>2. Counted(Carried(w), Consumes[w])
      BY <2>4, <3>1 DEF IInv, AttemptsCounted
    <3>3. Counted(Carried(w), Consumes[w])'
      BY <1>s, <2>2, <3>1, <3>2, SetupFixed DEF Counted, Tried
    <3>4. pc'[w] \in PastAttempt => Carried(w).count < attempts'[DutyOf(Carried(w))]
      <4>1. DutyOf(Carried(w)) \in Duty /\ Carried(w).count \in Nat
        BY <3>1, WireFields
      <4>2. CASE w = a
        BY <1>e, <2>1, <3>2, <4>1, <4>2, <1>f, Deployment
           DEF Counted, Tried, IInv, PastAttempt
      <4>3. CASE w # a
        BY <1>e, <2>1, <3>1, <4>1, <4>3, Deployment DEF IInv, AttemptsCounted, Tried
      <4> QED BY <4>2, <4>3
    <3> QED BY <3>1, <3>3, <3>4 DEF Tried
  <2>5. \A x \in discarded' : used'.commands = 0 => attempts'[x] > MaxRetries'
    BY <1>f, <1>s, <2>0, <2>1, SetupFixed DEF IInv, TypeOK, AttemptsCounted
  <2> QED BY <1>f, <2>3, <2>4, <2>5 DEF AttemptsCounted, IInv, Idle
<1> QED BY <1>t, <1>1, <1>2, <1>4, <1>5, <1>7, <1>8 DEF IInv

LEMMA MiddlewareThrowsIInv ==
  ASSUME IInv, NEW a \in Actor, MiddlewareThrows(a)
  PROVE  IInv'
<1>s. setup' = setup
  BY DEF MiddlewareThrows
<1>f. /\ UNCHANGED <<rows, nextId, env, ran, routed, inFlight, command,
                     accepted, completed, discarded, ranOk, attempts>>
      /\ pc[a] = "start" /\ pc' = [pc EXCEPT ![a] = "threw"]
      /\ UsedUp /\ used'.faults # 0
  BY FaultFacts DEF MiddlewareThrows, Goto, historyVars
<1>t. /\ rows' \subseteq Row /\ nextId' \in Nat /\ RowFacts' /\ RowsSafe
      /\ \A id, wire : SameMessage(id, wire) => SameMessage(id, wire)'
  <2>1. RowsSafe
    BY <1>f DEF RowsSafe, Safe, RowsOf, Done
  <2> QED BY <1>s, <1>f, <2>1, SameTable
<1>e. pc'[a] = "threw" /\ \A b \in Actor : b # a => pc'[b] = pc[b]
  BY <1>f DEF IInv, TypeOK
<1>1. TypeOK'
  BY <1>s, <1>f, <1>t, SetupFixed DEF IInv, TypeOK, UsedUp
<1>2. Callers' /\ Workers'
  <2>1. ASSUME a \in Message PROVE CallerFits(a)'
    BY <1>e, <1>f, <1>s, <2>1, SetupFixed DEF IInv, Callers, CallerFits
  <2>2. ASSUME a \in Worker PROVE WorkerFits(a)'
    BY <1>e, <1>f, <1>s, <2>2, SetupFixed DEF IInv, Workers, WorkerFits, Busy, Carried, Fits
  <2> QED BY <1>e, <1>f, <1>s, <2>1, <2>2, StillFits, Deployment DEF IInv
<1>4. EnvelopeFacts' /\ SnapshotFacts'
  <2>1. \A w \in Worker : Busy(w)' => Busy(w)
    BY <1>e, <1>f, Deployment DEF Busy, IInv
  <2> QED BY <1>s, <1>f, <1>t, <2>1, StillRead
<1>5. DeletedIsSafe' /\ AcceptedIsSafe'
  <2>1. \A w \in Worker : pc'[w] = "returned" => pc[w] = "returned"
    BY <1>e, <1>f, Deployment DEF IInv
  <2> QED BY <1>f, <1>t, <2>1, StillSafe
<1>7. StampsAreTrue'
  BY <1>s, <1>e, <1>f, StillStamped
<1>8. AttemptsCounted'
  BY <1>f DEF AttemptsCounted
<1> QED BY <1>t, <1>1, <1>2, <1>4, <1>5, <1>7, <1>8 DEF IInv

LEMMA RouteIInv ==
  ASSUME IInv, NEW m \in Message, Route(m)
  PROVE  IInv'
<1>s. setup' = setup
  BY DEF Route
<1> DEFINE alias == Routes[m][routed[m] + 1]
           copy  == [Carried(m) EXCEPT !.home = alias]
           ok    == IF routed[m] + 1 = Len(Routes[m]) THEN "returned" ELSE "route"
<1>f. /\ UNCHANGED <<env, ran, inFlight, command, completed, discarded, ranOk, attempts>>
      /\ pc[m] = "route"
      /\ SendTo(m, alias, copy, ok)
      /\ routed' = [routed EXCEPT ![m] = @ + 1]
      /\ accepted' = IF rows' = rows THEN accepted ELSE accepted \union {DutyOf(copy)}
  BY DEF Route
<1>a. /\ routed[m] \in Nat /\ routed[m] < Len(Routes[m]) /\ Routes[m] \in Seq(Transport \ {Failure})
      /\ \A i \in 1 .. routed[m] : <<m, Routes[m][i]>> \in accepted
      /\ env[m] = NewEnvelope(m) /\ m \in Actor /\ m \notin Worker
  BY <1>f, Deployment DEF IInv, TypeOK, Callers, CallerFits
<1>j. Len(Routes[m]) \in Nat /\ routed[m] + 1 \in 1 .. Len(Routes[m])
  BY <1>a
<1>i. alias \in Transport \ {Failure}
  <2> DEFINE k == routed[m] + 1
  <2>1. k \in 1 .. Len(Routes[m])
    BY <1>j
  <2> HIDE DEF k
  <2>2. Routes[m][k] \in Transport \ {Failure}
    BY <1>a, <2>1
  <2> QED BY <2>2 DEF k
<1>b. /\ copy \in Wire /\ Fits(copy, alias) /\ DutyOf(copy) = <<m, alias>>
      /\ copy.delayed = FALSE /\ copy.count = 0
  <2>1. Carried(m) \in Wire /\ alias \in Aliases
    BY <1>a, <1>i, <1>j, HasEnvelope DEF Aliases
  <2>2. /\ copy \in Wire /\ copy.msg = Carried(m).msg /\ copy.home = alias
        /\ copy.count = Carried(m).count /\ copy.delayed = Carried(m).delayed
        /\ copy.handled = Carried(m).handled /\ copy.failedFrom = Carried(m).failedFrom
    BY <2>1, Copies
  <2>3. /\ Carried(m).msg = m /\ Carried(m).count = 0 /\ Carried(m).delayed = FALSE
        /\ Carried(m).handled = {} /\ Carried(m).failedFrom = NoTransport
    BY <1>a, <1>i, <1>j DEF Carried, NewEnvelope
  <2> HIDE DEF copy, alias
  <2> QED BY <1>a, <1>i, <1>j, <2>2, <2>3 DEF Fits, DutyOf
<1>c. ok # "threw" /\ ok \in {"returned", "route"} /\ Done \subseteq Done'
      /\ (ok = "returned" <=> routed[m] + 1 = Len(Routes[m]))
  BY <1>f DEF Done
<1>x. PICK d : d = DutyOf(copy) /\ d = <<m, alias>>
  BY <1>b
<1>y. PICK c : c = copy
  OBVIOUS
<1>z. PICK t : t = alias
  OBVIOUS
<1> HIDE DEF ok, copy, alias
<1>t. /\ rows' \subseteq Row /\ nextId' \in Nat /\ RowFacts' /\ RowsSafe
      /\ \A id, wire : SameMessage(id, wire) => SameMessage(id, wire)'
      /\ \/ pc' = [pc EXCEPT ![m] = ok] /\ rows' # rows
         \/ pc' = [pc EXCEPT ![m] = "threw"] /\ used'.faults # 0
      /\ rows' # rows => \A n \in Nat : n <= nextId => Safe(d, n)'
      /\ \A r \in rows' : r \in rows \/ (r.wire = c /\ r.at = t)
      /\ UsedUp
  <2>1. c \in Wire /\ t \in Transport /\ Fits(c, t) /\ SendTo(m, t, c, ok) /\ DutyOf(c) = d
    BY <1>a, <1>i, <1>j, <1>b, <1>f, <1>x, <1>y, <1>z
  <2> QED BY <1>a, <1>i, <1>j, <1>c, <1>s, <2>1, Sending
<1>e. /\ pc'[m] \in {"returned", "route", "threw"}
      /\ pc'[m] # "threw" => pc'[m] = ok /\ rows' # rows
      /\ \A b \in Actor : b # m => pc'[b] = pc[b]
      /\ routed'[m] = routed[m] + 1 /\ \A b \in Message : b # m => routed'[b] = routed[b]
  BY <1>a, <1>i, <1>j, <1>c, <1>f, <1>t DEF IInv, TypeOK
<1>d. d \in Duty /\ accepted \subseteq accepted' /\ accepted' \subseteq accepted \union {d}
      /\ (rows' # rows => d \in accepted')
  BY <1>a, <1>i, <1>j, <1>f, <1>x DEF Duty, Aliases
<1>1. TypeOK'
  <2>1. pc' \in [Actor -> {"start", "route", "handle", "resend", "deadletter",
                          "returned", "threw", "idle", "stopped"}]
    BY <1>f, <1>a, <1>i, <1>j, <1>c, <1>d, <1>t, Deployment DEF IInv, TypeOK
  <2>2. env' \in [Actor -> Envelope \union {NoEnvelope}]
    BY <1>f, <1>a, <1>i, <1>j, <1>c, <1>d, <1>t, Deployment DEF IInv, TypeOK
  <2>3. ran' \in [Actor -> SUBSET {HandlerNames[h] : h \in Handler}]
    BY <1>f, <1>a, <1>i, <1>j, <1>c, <1>d, <1>t, Deployment DEF IInv, TypeOK
  <2>4. routed' \in [Message -> Nat] /\ inFlight' \in [Worker -> SUBSET Nat]
    BY <1>f, <1>a, <1>i, <1>j DEF IInv, TypeOK
  <2>5. command' \in [stage : {"none", "retry", "remove", "retried"},
                      todo : SUBSET [id : Nat, wire : Wire]]
    BY <1>f, <1>a, <1>i, <1>j, <1>c, <1>d, <1>t, Deployment DEF IInv, TypeOK
  <2>6. used' \in [{"faults", "failures", "commands"} -> Nat]
    BY <1>t DEF UsedUp
  <2>7. accepted' \subseteq Duty /\ completed' \subseteq Duty /\ discarded' \subseteq Duty
    BY <1>f, <1>a, <1>i, <1>j, <1>c, <1>d, <1>t, Deployment DEF IInv, TypeOK
  <2>8. ranOk' \subseteq Duty \X Handler /\ attempts' \in [Duty -> Nat]
    BY <1>f, <1>a, <1>i, <1>j, <1>c, <1>d, <1>t, Deployment DEF IInv, TypeOK
  <2> QED BY <1>s, <1>t, <2>1, <2>2, <2>3, <2>4, <2>5, <2>6, <2>7, <2>8, SetupFixed
     DEF IInv, TypeOK
<1>2. Callers' /\ Workers'
  <2>1. CallerFits(m)'
    <3>1. env'[m] = NewEnvelope(m)
      BY <1>a, <1>i, <1>j, <1>f
    <3>2. ASSUME pc'[m] # "threw", NEW i \in 1 .. routed'[m] PROVE <<m, Routes[m][i]>> \in accepted'
      <4>1. i \in 1 .. routed[m] \/ i = routed[m] + 1
        BY <1>a, <1>i, <1>j, <1>e
      <4> QED BY <1>a, <1>i, <1>j, <1>d, <1>e, <1>x, <3>2, <4>1 DEF alias
    <3>3. pc'[m] = "route" => routed'[m] < Len(Routes[m])
      BY <1>a, <1>i, <1>j, <1>c, <1>e
    <3>4. pc'[m] = "returned" => \A i \in DOMAIN Routes[m] : i \in 1 .. routed'[m]
      BY <1>a, <1>i, <1>j, <1>c, <1>e
    <3> QED BY <1>e, <1>s, <3>1, <3>2, <3>3, <3>4, SetupFixed DEF CallerFits
  <2>2. \A b \in Message : b # m => pc'[b] = pc[b] /\ env'[b] = env[b] /\ routed'[b] = routed[b]
    BY <1>e, <1>f, Deployment DEF IInv
  <2>3. \A b \in Worker : pc'[b] = pc[b] /\ env'[b] = env[b]
    BY <1>e, <1>f, <1>a, <1>i, <1>j, Deployment DEF IInv
  <2> QED BY <1>d, <1>s, <2>1, <2>2, <2>3, StillFits
<1>w. \A b \in Worker : pc'[b] = pc[b] /\ env'[b] = env[b]
  BY <1>e, <1>f, <1>a, <1>i, <1>j, Deployment DEF IInv
<1>4. EnvelopeFacts' /\ SnapshotFacts'
  BY <1>s, <1>f, <1>t, <1>w, StillRead DEF Busy
<1>5. DeletedIsSafe' /\ AcceptedIsSafe'
  <2>1. \A x \in accepted' : x \in accepted \/ Safe(x, 0)'
    <3>1. 0 \in Nat /\ 0 <= nextId
      BY DEF IInv, TypeOK
    <3>2. ASSUME NEW x \in accepted', x \notin accepted PROVE Safe(x, 0)'
      <4>1. x = d /\ rows' # rows
        BY <1>d, <1>f, <3>2
      <4> QED BY <1>t, <3>1, <4>1
    <3> QED BY <3>2
  <2> QED BY <1>f, <1>t, <1>w, <2>1, StillSafe
<1>7. StampsAreTrue'
  BY <1>s, <1>e, <1>f, StillStamped
<1>8. AttemptsCounted'
  <2>1. Counted(c, t)
    <3>1. attempts[d] \in Nat /\ DutyOf(c) = d /\ c.count = 0 /\ t # Failure
      BY <1>a, <1>i, <1>j, <1>b, <1>d, <1>x, <1>y, <1>z DEF IInv, TypeOK
    <3> QED BY <3>1 DEF Counted, Tried
  <2>2. \A r \in rows' : (\E o \in rows : o.wire = r.wire /\ o.at = r.at) \/ Counted(r.wire, r.at)
    BY <1>t, <2>1
  <2> QED BY <1>s, <1>f, <1>t, <1>w, <2>2, StillCounted DEF UsedUp, Busy
<1> QED BY <1>t, <1>1, <1>2, <1>4, <1>5, <1>7, <1>8 DEF IInv

LEMMA HandlerSucceedsIInv ==
  ASSUME IInv, NEW a \in Actor, HandlerSucceeds(a)
  PROVE  IInv'
<1>s. setup' = setup
  BY DEF HandlerSucceeds
<1>0. PICK k \in Handler :
        /\ NextHandler(a, k)
        /\ ran' = [ran EXCEPT ![a] = @ \union {HandlerNames[k]}]
        /\ ranOk' = ranOk \union {<<DutyOf(Carried(a)), k>>}
  BY DEF HandlerSucceeds
<1>f. /\ UNCHANGED <<rows, nextId, env, routed, inFlight, command, used,
                     accepted, discarded, attempts>>
      /\ pc[a] = "handle"
      /\ \/ /\ \A g \in Handler : HandlerNames[g] \in ran'[a]
            /\ pc' = [pc EXCEPT ![a] = "returned"]
            /\ completed' = completed \union {DutyOf(Carried(a))}
         \/ pc' = pc /\ completed' = completed
  BY DEF HandlerSucceeds, Goto, AllStamped
<1>a. /\ Carried(a) \in Wire /\ DutyOf(Carried(a)) \in Duty
      /\ a \in Worker => Busy(a) /\ WorkerFits(a)
      /\ a \in Message => CallerFits(a)
      /\ a \in Worker \/ a \in Message
  BY <1>f, HasEnvelope, Deployment DEF Busy, IInv, Actor, Workers, Callers
<1>t. /\ rows' \subseteq Row /\ nextId' \in Nat /\ RowFacts' /\ RowsSafe
      /\ \A id, wire : SameMessage(id, wire) => SameMessage(id, wire)'
  <2>1. RowsSafe
    BY <1>f DEF RowsSafe, Safe, RowsOf, Done
  <2> QED BY <1>s, <1>f, <2>1, SameTable
<1>e. /\ pc'[a] \in {"handle", "returned"} /\ ran'[a] = ran[a] \union {HandlerNames[k]}
      /\ \A b \in Actor : b # a => pc'[b] = pc[b] /\ ran'[b] = ran[b]
      /\ pc'[a] = "returned" => DutyOf(Carried(a)) \in completed'
      /\ completed \subseteq completed' /\ ranOk \subseteq ranOk'
  BY <1>0, <1>f DEF IInv, TypeOK
<1>1. TypeOK'
  <2>1. pc' \in [Actor -> {"start", "route", "handle", "resend", "deadletter",
                          "returned", "threw", "idle", "stopped"}]
    BY <1>0, <1>f, <1>a, Deployment DEF IInv, TypeOK
  <2>2. env' \in [Actor -> Envelope \union {NoEnvelope}]
    BY <1>0, <1>f, <1>a, Deployment DEF IInv, TypeOK
  <2>3. ran' \in [Actor -> SUBSET {HandlerNames[h] : h \in Handler}]
    BY <1>0, <1>f, <1>a, Deployment DEF IInv, TypeOK
  <2>4. routed' \in [Message -> Nat] /\ inFlight' \in [Worker -> SUBSET Nat]
    BY <1>0, <1>f, <1>a, Deployment DEF IInv, TypeOK
  <2>5. command' \in [stage : {"none", "retry", "remove", "retried"},
                      todo : SUBSET [id : Nat, wire : Wire]]
    BY <1>0, <1>f, <1>a, Deployment DEF IInv, TypeOK
  <2>6. used' \in [{"faults", "failures", "commands"} -> Nat]
    BY <1>0, <1>f, <1>a, Deployment DEF IInv, TypeOK
  <2>7. accepted' \subseteq Duty /\ completed' \subseteq Duty /\ discarded' \subseteq Duty
    BY <1>0, <1>f, <1>a, Deployment DEF IInv, TypeOK
  <2>8. ranOk' \subseteq Duty \X Handler /\ attempts' \in [Duty -> Nat]
    BY <1>0, <1>f, <1>a, Deployment DEF IInv, TypeOK
  <2> QED BY <1>s, <1>t, <2>1, <2>2, <2>3, <2>4, <2>5, <2>6, <2>7, <2>8, SetupFixed
     DEF IInv, TypeOK
<1>2. Callers' /\ Workers'
  <2>1. ASSUME a \in Message PROVE CallerFits(a)'
    <3>1. Routes[a] = <<>> /\ DOMAIN Routes[a] = {}
      BY <1>a, <1>f, <2>1 DEF CallerFits
    <3> QED BY <1>a, <1>e, <1>f, <1>s, <2>1, <3>1, SetupFixed DEF CallerFits
  <2>2. ASSUME a \in Worker PROVE WorkerFits(a)'
    BY <1>a, <1>e, <1>f, <1>s, <2>2, SetupFixed DEF WorkerFits, Busy, Carried, Fits
  <2> QED BY <1>e, <1>f, <1>s, <2>1, <2>2, StillFits, Deployment DEF IInv
<1>4. EnvelopeFacts' /\ SnapshotFacts'
  <2>1. \A w \in Worker : Busy(w)' => Busy(w)
    BY <1>e, <1>f, Deployment DEF Busy, IInv
  <2> QED BY <1>s, <1>f, <1>t, <2>1, StillRead
<1>5. DeletedIsSafe' /\ AcceptedIsSafe'
  <2>1. ASSUME NEW w \in Worker, pc'[w] = "returned", ~(pc[w] = "returned" /\ env'[w] = env[w])
        PROVE  \E wire, id : /\ env'[w].wire = wire /\ env'[w].id = id
                             /\ Safe(DutyOf(wire), id + 1)'
    <3>1. w = a
      BY <1>e, <1>f, <2>1, Deployment DEF IInv
    <3>2. PICK wire, id : wire = Carried(a) /\ id = env[a].id
      OBVIOUS
    <3>3. DutyOf(wire) \in completed'
      BY <1>e, <2>1, <3>1, <3>2
    <3> QED BY <1>f, <3>1, <3>2, <3>3 DEF Safe, Done, Carried
  <2> QED BY <1>f, <1>t, <2>1, StillSafe
<1>7. StampsAreTrue'
  <2> SUFFICES ASSUME DistinctNames PROVE StampsAreTrue'
    BY <1>s, SetupFixed DEF StampsAreTrue
  <2> DEFINE d == DutyOf(Carried(a))
  <2>1. ASSUME NEW g \in Handler, HandlerNames[g] \in ran'[a] PROVE <<d, g>> \in ranOk'
    <3>1. CASE HandlerNames[g] \in ran[a]
      BY <1>0, <1>f, <3>1 DEF IInv, StampsAreTrue
    <3>2. CASE HandlerNames[g] \notin ran[a]
      <4>1. g = k
        BY <1>e, <2>1, <3>2 DEF DistinctNames
      <4> QED BY <1>0, <4>1
    <3> QED BY <3>1, <3>2
  <2>2. \A x \in completed' : \A g \in Handler : <<x, g>> \in ranOk'
    BY <1>e, <1>f, <2>1 DEF IInv, StampsAreTrue, AllHandlersRan
  <2>3. ASSUME NEW b \in Actor, pc'[b] = "handle", NEW g \in Handler, HandlerNames[g] \in ran'[b]
        PROVE  <<DutyOf(Carried(b)), g>> \in ranOk'
    <3>1. CASE b = a
      BY <2>1, <2>3, <3>1
    <3>2. CASE b # a
      BY <1>e, <2>3, <3>2 DEF IInv, StampsAreTrue
    <3> QED BY <3>1, <3>2
  <2>4. \A b \in Actor : Carried(b)' = Carried(b)
    BY <1>f DEF Carried
  <2> QED BY <1>s, <2>2, <2>3, <2>4, SetupFixed DEF StampsAreTrue, AllHandlersRan
<1>8. AttemptsCounted'
  <2>1. \A w \in Worker : Busy(w)' => Busy(w) /\ (pc'[w] \in PastAttempt => pc[w] \in PastAttempt)
    BY <1>e, <1>f, Deployment DEF Busy, IInv, PastAttempt
  <2> QED BY <1>s, <1>f, <2>1, StillCounted
<1> QED BY <1>t, <1>1, <1>2, <1>4, <1>5, <1>7, <1>8 DEF IInv

LEMMA HandlerFailsIInv ==
  ASSUME IInv, NEW a \in Actor, HandlerFails(a)
  PROVE  IInv'
<1>s. setup' = setup
  BY DEF HandlerFails
<1>f. /\ UNCHANGED <<rows, nextId, env, ran, routed, inFlight, command,
                     accepted, completed, ranOk, attempts>>
      /\ pc[a] = "handle"
      /\ \/ pc' = [pc EXCEPT ![a] = "threw"] /\ discarded' = discarded
         \/ /\ pc' = [pc EXCEPT ![a] = "resend"] /\ discarded' = discarded
            /\ env[a].receivedFrom # NoTransport /\ ~Exhausted(a)
         \/ /\ pc' = [pc EXCEPT ![a] = "deadletter"] /\ discarded' = discarded
            /\ env[a].receivedFrom # NoTransport /\ Exhausted(a) /\ Failure # NoTransport
         \/ /\ pc' = [pc EXCEPT ![a] = "returned"]
            /\ env[a].receivedFrom # NoTransport /\ Exhausted(a)
            /\ discarded' = discarded \union {DutyOf(Carried(a))}
  BY DEF HandlerFails, Goto
<1>u. UsedUp
  <2> DEFINE k == used.failures + 1
  <2>1. k \in Nat /\ used' = [used EXCEPT !.failures = k]
    BY DEF HandlerFails, IInv, TypeOK
  <2> HIDE DEF k
  <2> QED BY <2>1 DEF UsedUp, IInv, TypeOK
<1>a. /\ Carried(a) \in Wire /\ DutyOf(Carried(a)) \in Duty
      /\ a \in Worker => Busy(a) /\ WorkerFits(a)
      /\ a \in Message => CallerFits(a)
      /\ a \in Worker \/ a \in Message
  BY <1>f, HasEnvelope, Deployment DEF Busy, IInv, Actor, Workers, Callers
<1>t. /\ rows' \subseteq Row /\ nextId' \in Nat /\ RowFacts' /\ RowsSafe
      /\ \A id, wire : SameMessage(id, wire) => SameMessage(id, wire)'
  <2>1. RowsSafe
    BY <1>f DEF RowsSafe, Safe, RowsOf, Done
  <2> QED BY <1>s, <1>f, <2>1, SameTable
<1>e. /\ pc'[a] \in {"threw", "resend", "deadletter", "returned"}
      /\ \A b \in Actor : b # a => pc'[b] = pc[b]
      /\ pc'[a] = "resend" => ~Exhausted(a)
      /\ pc'[a] = "deadletter" => Exhausted(a) /\ Failure # NoTransport
      /\ pc'[a] = "returned" => DutyOf(Carried(a)) \in discarded'
      /\ discarded' # discarded => Exhausted(a)
      /\ discarded' \subseteq discarded \union {DutyOf(Carried(a))}
      /\ pc'[a] # "threw" => a \in Worker
  <2>1. a \in Message => env[a].receivedFrom = NoTransport
    BY <1>a, NewEnvelopeFacts DEF CallerFits
  <2> QED BY <1>a, <1>f, <2>1 DEF IInv, TypeOK
<1>1. TypeOK'
  <2>1. pc' \in [Actor -> {"start", "route", "handle", "resend", "deadletter",
                          "returned", "threw", "idle", "stopped"}]
    BY <1>f, <1>a, <1>u, Deployment DEF IInv, TypeOK, UsedUp
  <2>2. env' \in [Actor -> Envelope \union {NoEnvelope}]
    BY <1>f, <1>a, <1>u, Deployment DEF IInv, TypeOK, UsedUp
  <2>3. ran' \in [Actor -> SUBSET {HandlerNames[h] : h \in Handler}]
    BY <1>f, <1>a, <1>u, Deployment DEF IInv, TypeOK, UsedUp
  <2>4. routed' \in [Message -> Nat] /\ inFlight' \in [Worker -> SUBSET Nat]
    BY <1>f, <1>a, <1>u, Deployment DEF IInv, TypeOK, UsedUp
  <2>5. command' \in [stage : {"none", "retry", "remove", "retried"},
                      todo : SUBSET [id : Nat, wire : Wire]]
    BY <1>f, <1>a, <1>u, Deployment DEF IInv, TypeOK, UsedUp
  <2>6. used' \in [{"faults", "failures", "commands"} -> Nat]
    BY <1>f, <1>a, <1>u, Deployment DEF IInv, TypeOK, UsedUp
  <2>7. accepted' \subseteq Duty /\ completed' \subseteq Duty /\ discarded' \subseteq Duty
    BY <1>f, <1>a, <1>u, Deployment DEF IInv, TypeOK, UsedUp
  <2>8. ranOk' \subseteq Duty \X Handler /\ attempts' \in [Duty -> Nat]
    BY <1>f, <1>a, <1>u, Deployment DEF IInv, TypeOK, UsedUp
  <2> QED BY <1>s, <1>t, <2>1, <2>2, <2>3, <2>4, <2>5, <2>6, <2>7, <2>8, SetupFixed
     DEF IInv, TypeOK
<1>2. Callers' /\ Workers'
  <2>1. ASSUME a \in Message PROVE CallerFits(a)'
    BY <1>a, <1>e, <1>f, <1>s, <2>1, SetupFixed, Deployment DEF CallerFits, IInv
  <2>2. ASSUME a \in Worker PROVE WorkerFits(a)'
    BY <1>a, <1>e, <1>f, <1>s, <2>2, SetupFixed DEF WorkerFits, Busy, Carried, Fits, Exhausted
  <2> QED BY <1>e, <1>f, <1>s, <2>1, <2>2, StillFits, Deployment DEF IInv
<1>4. EnvelopeFacts' /\ SnapshotFacts'
  <2>1. \A w \in Worker : Busy(w)' => Busy(w)
    BY <1>e, <1>f, Deployment DEF Busy, IInv
  <2> QED BY <1>s, <1>f, <1>t, <2>1, StillRead
<1>5. DeletedIsSafe' /\ AcceptedIsSafe'
  <2>1. ASSUME NEW w \in Worker, pc'[w] = "returned", ~(pc[w] = "returned" /\ env'[w] = env[w])
        PROVE  \E wire, id : /\ env'[w].wire = wire /\ env'[w].id = id
                             /\ Safe(DutyOf(wire), id + 1)'
    <3>1. w = a
      BY <1>e, <1>f, <2>1, Deployment DEF IInv
    <3>2. PICK wire, id : wire = Carried(a) /\ id = env[a].id
      OBVIOUS
    <3>3. DutyOf(wire) \in discarded'
      BY <1>e, <2>1, <3>1, <3>2
    <3> QED BY <1>f, <3>1, <3>2, <3>3 DEF Safe, Done, Carried
  <2> QED BY <1>f, <1>t, <2>1, StillSafe
<1>7. StampsAreTrue'
  BY <1>s, <1>e, <1>f, StillStamped
<1>8. AttemptsCounted'
  <2>1. \A w \in Worker : Busy(w)' => Busy(w) /\ (pc'[w] \in PastAttempt => pc[w] \in PastAttempt)
    BY <1>e, <1>f, Deployment DEF Busy, IInv, PastAttempt
  <2>2. ASSUME used'.faults = 0, NEW x \in discarded', x \notin discarded
        PROVE  attempts[x] > MaxRetries
    <3>1. x = DutyOf(Carried(a)) /\ Exhausted(a) /\ a \in Worker
      BY <1>e, <1>f, <2>2 DEF IInv, TypeOK
    <3>2. Carried(a).count < attempts[x]
      BY <1>a, <1>f, <1>u, <2>2, <3>1 DEF IInv, AttemptsCounted, Tried, PastAttempt, UsedUp
    <3>3. Carried(a).count \in Nat /\ attempts[x] \in Nat /\ MaxRetries \in Nat
      BY <1>a, <3>1, WireFields, Deployment DEF IInv, TypeOK
    <3> QED BY <3>1, <3>2, <3>3 DEF Exhausted
  <2> QED BY <1>s, <1>f, <1>u, <2>1, <2>2, StillCounted DEF UsedUp
<1> QED BY <1>t, <1>1, <1>2, <1>4, <1>5, <1>7, <1>8 DEF IInv

LEMMA ResendForRetryIInv ==
  ASSUME IInv, NEW w \in Worker, ResendForRetry(w)
  PROVE  IInv'
<1>s. setup' = setup
  BY DEF ResendForRetry
<1>f. /\ UNCHANGED <<env, ran, routed, inFlight, command, historyVars>>
      /\ pc[w] = "resend"
      /\ SendTo(w, env[w].receivedFrom, Retried(env[w]), "returned")
  BY DEF ResendForRetry
<1>a. /\ Busy(w) /\ WorkerFits(w) /\ w \in Actor /\ Carried(w) \in Wire
      /\ env[w].id \in Nat /\ env[w].id < nextId /\ NoTransport \notin Transport
      /\ MaxRetries \in Nat /\ Carried(w).count \in Nat /\ Carried(w).home \in Transport \ {Failure}
  BY <1>f, HasEnvelope, WireFields, Deployment DEF Busy, IInv, Workers
<1>b. PICK c \in Wire, t \in Transport :
        /\ c = Retried(env[w]) /\ t = env[w].receivedFrom
        /\ Fits(c, t) /\ DutyOf(c) = DutyOf(Carried(w))
        /\ used.faults = 0 => Counted(c, t)
  <2> DEFINE c == Retried(env[w])
             t == env[w].receivedFrom
  <2>1. /\ c \in Wire /\ c.msg = Carried(w).msg /\ c.home = Carried(w).home
        /\ c.count = Carried(w).count + 1
        /\ c.handled = Carried(w).handled /\ c.failedFrom = Carried(w).failedFrom
    BY <1>a, Copies DEF Retried, Carried, Aliases
  <2>2. t = Carried(w).home /\ t \in Transport \ {Failure} /\ ~Exhausted(w)
        /\ Fits(Carried(w), Consumes[w])
    BY <1>a, <1>f DEF WorkerFits
  <2>3. Consumes[w] # Failure
    BY <1>a, <2>2 DEF Fits, Exhausted
  <2> HIDE DEF c, t
  <2>4. Fits(c, t) /\ DutyOf(c) = DutyOf(Carried(w))
    BY <1>a, <2>1, <2>2, <2>3 DEF Fits, DutyOf
  <2>5. used.faults = 0 => Counted(c, t)
    <3>1. used.faults = 0 => Carried(w).count < attempts[DutyOf(Carried(w))]
      BY <1>a, <1>f DEF IInv, AttemptsCounted, PastAttempt, Tried
    <3>2. attempts[DutyOf(Carried(w))] \in Nat
      BY <1>a, WireFields DEF IInv, TypeOK
    <3> QED BY <1>a, <2>1, <2>2, <2>4, <3>1, <3>2 DEF Counted, Tried
  <2>6. t \in Transport /\ c = Retried(env[w]) /\ t = env[w].receivedFrom
    BY <2>2 DEF c, t
  <2> QED BY <2>1, <2>4, <2>5, <2>6
<1>d. PICK d : d = DutyOf(c)
  OBVIOUS
<1>t. /\ rows' \subseteq Row /\ nextId' \in Nat /\ RowFacts' /\ RowsSafe
      /\ \A id, wire : SameMessage(id, wire) => SameMessage(id, wire)'
      /\ \/ pc' = [pc EXCEPT ![w] = "returned"] /\ rows' # rows
         \/ pc' = [pc EXCEPT ![w] = "threw"] /\ used'.faults # 0
      /\ rows' # rows => \A n \in Nat : n <= nextId => Safe(d, n)'
      /\ \A r \in rows' : r \in rows \/ (r.wire = c /\ r.at = t)
      /\ UsedUp
  <2>1. SendTo(w, t, c, "returned") /\ DutyOf(c) = d /\ Done \subseteq Done'
    BY <1>b, <1>d, <1>f DEF Done, historyVars
  <2> QED BY <1>a, <1>b, <1>s, <2>1, Sending
<1>e. /\ pc'[w] \in {"returned", "threw"} /\ (pc'[w] = "returned" => rows' # rows)
      /\ pc'[w] = "threw" => used'.faults # 0
      /\ \A b \in Actor : b # w => pc'[b] = pc[b]
  BY <1>a, <1>t DEF IInv, TypeOK
<1>1. TypeOK'
  <2>1. pc' \in [Actor -> {"start", "route", "handle", "resend", "deadletter",
                          "returned", "threw", "idle", "stopped"}]
    BY <1>f, <1>a, <1>t, Deployment DEF IInv, TypeOK, UsedUp, historyVars
  <2>2. env' \in [Actor -> Envelope \union {NoEnvelope}]
    BY <1>f, <1>a, <1>t, Deployment DEF IInv, TypeOK, UsedUp, historyVars
  <2>3. ran' \in [Actor -> SUBSET {HandlerNames[h] : h \in Handler}]
    BY <1>f, <1>a, <1>t, Deployment DEF IInv, TypeOK, UsedUp, historyVars
  <2>4. routed' \in [Message -> Nat] /\ inFlight' \in [Worker -> SUBSET Nat]
    BY <1>f, <1>a, <1>t, Deployment DEF IInv, TypeOK, UsedUp, historyVars
  <2>5. command' \in [stage : {"none", "retry", "remove", "retried"},
                      todo : SUBSET [id : Nat, wire : Wire]]
    BY <1>f, <1>a, <1>t, Deployment DEF IInv, TypeOK, UsedUp, historyVars
  <2>6. used' \in [{"faults", "failures", "commands"} -> Nat]
    BY <1>f, <1>a, <1>t, Deployment DEF IInv, TypeOK, UsedUp, historyVars
  <2>7. accepted' \subseteq Duty /\ completed' \subseteq Duty /\ discarded' \subseteq Duty
    BY <1>f, <1>a, <1>t, Deployment DEF IInv, TypeOK, UsedUp, historyVars
  <2>8. ranOk' \subseteq Duty \X Handler /\ attempts' \in [Duty -> Nat]
    BY <1>f, <1>a, <1>t, Deployment DEF IInv, TypeOK, UsedUp, historyVars
  <2> QED BY <1>s, <1>t, <2>1, <2>2, <2>3, <2>4, <2>5, <2>6, <2>7, <2>8, SetupFixed
     DEF IInv, TypeOK
<1>2. Callers' /\ Workers'
  <2>1. WorkerFits(w)'
    BY <1>a, <1>e, <1>f, <1>s, SetupFixed DEF WorkerFits, Busy, Carried, Fits
  <2>2. accepted' = accepted
    BY <1>f DEF historyVars
  <2> QED BY <1>e, <1>f, <1>s, <2>1, <2>2, StillFits, Deployment DEF IInv
<1>4. EnvelopeFacts' /\ SnapshotFacts'
  <2>1. \A v \in Worker : Busy(v)' => Busy(v)
    BY <1>a, <1>e, Deployment DEF Busy, IInv
  <2> QED BY <1>s, <1>f, <1>t, <2>1, StillRead
<1>5. DeletedIsSafe' /\ AcceptedIsSafe'
  <2>1. ASSUME NEW v \in Worker, pc'[v] = "returned", ~(pc[v] = "returned" /\ env'[v] = env[v])
        PROVE  \E wire, id : /\ env'[v].wire = wire /\ env'[v].id = id
                             /\ Safe(DutyOf(wire), id + 1)'
    <3>1. v = w
      BY <1>e, <1>f, <2>1, Deployment DEF IInv
    <3>2. PICK wire, id : wire = Carried(w) /\ id = env[w].id
      OBVIOUS
    <3>3. id + 1 \in Nat /\ id + 1 <= nextId /\ rows' # rows /\ DutyOf(wire) = d
      BY <1>a, <1>b, <1>d, <1>e, <2>1, <3>1, <3>2 DEF IInv, TypeOK
    <3>4. Safe(DutyOf(wire), id + 1)'
      BY <1>t, <3>3
    <3>5. env'[v].wire = wire /\ env'[v].id = id
      BY <1>f, <3>1, <3>2 DEF Carried
    <3> QED BY <3>4, <3>5
  <2>2. accepted' = accepted
    BY <1>f DEF historyVars
  <2> QED BY <1>f, <1>t, <2>1, <2>2, StillSafe
<1>7. StampsAreTrue'
  BY <1>s, <1>e, <1>f, StillStamped DEF historyVars
<1>8. AttemptsCounted'
  <2>1. \A v \in Worker : Busy(v)' /\ used'.faults = 0 =>
          Busy(v) /\ env'[v].wire = env[v].wire /\ (pc'[v] \in PastAttempt => pc[v] \in PastAttempt)
    BY <1>a, <1>e, <1>f, Deployment DEF Busy, IInv, PastAttempt
  <2>2. used'.faults = 0 =>
          \A r \in rows' : (\E o \in rows : o.wire = r.wire /\ o.at = r.at) \/ Counted(r.wire, r.at)
    BY <1>b, <1>t DEF UsedUp
  <2> QED BY <1>s, <1>f, <1>t, <2>1, <2>2, StillCounted DEF UsedUp, historyVars
<1> QED BY <1>t, <1>1, <1>2, <1>4, <1>5, <1>7, <1>8 DEF IInv

LEMMA SendToFailureTransportIInv ==
  ASSUME IInv, NEW w \in Worker, SendToFailureTransport(w)
  PROVE  IInv'
<1>s. setup' = setup
  BY DEF SendToFailureTransport
<1>f. /\ UNCHANGED <<env, ran, routed, inFlight, command, historyVars>>
      /\ pc[w] = "deadletter"
      /\ SendTo(w, Failure, DeadLetter(env[w]), "returned")
  BY DEF SendToFailureTransport
<1>a. /\ Busy(w) /\ WorkerFits(w) /\ w \in Actor /\ Carried(w) \in Wire
      /\ env[w].id \in Nat /\ env[w].id < nextId /\ NoTransport \notin Transport
      /\ MaxRetries \in Nat /\ Carried(w).count \in Nat /\ Carried(w).home \in Transport \ {Failure}
  BY <1>f, HasEnvelope, WireFields, Deployment DEF Busy, IInv, Workers
<1>b. PICK c \in Wire, t \in Transport :
        /\ c = DeadLetter(env[w]) /\ t = Failure
        /\ Fits(c, t) /\ DutyOf(c) = DutyOf(Carried(w))
        /\ used.faults = 0 => Counted(c, t)
  <2> DEFINE c == DeadLetter(env[w])
  <2>0. env[w].receivedFrom = Carried(w).home /\ Exhausted(w) /\ Failure \in Transport
        /\ Fits(Carried(w), Consumes[w])
    BY <1>a, <1>f, Deployment DEF WorkerFits, IInv
  <2>1. /\ c \in Wire /\ c.msg = Carried(w).msg /\ c.home = Carried(w).home
        /\ c.count = Carried(w).count /\ c.delayed = FALSE
        /\ c.handled = Carried(w).handled /\ c.failedFrom = Carried(w).home
    <3>1. PICK wire \in Wire, alias \in Aliases : wire = Carried(w) /\ alias = Carried(w).home
      BY <1>a DEF Aliases
    <3>2. c = [wire EXCEPT !.delayed = FALSE, !.failedFrom = alias]
      BY <2>0, <3>1 DEF DeadLetter, Carried
    <3>3. LET q == [wire EXCEPT !.delayed = FALSE, !.failedFrom = alias] IN
            /\ q \in Wire /\ q.msg = wire.msg /\ q.home = wire.home
            /\ q.count = wire.count /\ q.delayed = FALSE
            /\ q.handled = wire.handled /\ q.failedFrom = alias
      BY Copies
    <3> HIDE DEF c
    <3> QED BY <3>1, <3>2, <3>3
  <2> HIDE DEF c
  <2>2. Fits(c, Failure) /\ DutyOf(c) = DutyOf(Carried(w))
    BY <1>a, <2>0, <2>1 DEF Fits, DutyOf, Exhausted
  <2>3. used.faults = 0 => Counted(c, Failure)
    <3>1. used.faults = 0 => Carried(w).count < attempts[DutyOf(Carried(w))]
      BY <1>a, <1>f DEF IInv, AttemptsCounted, PastAttempt, Tried
    <3>2. attempts[DutyOf(Carried(w))] \in Nat
      BY <1>a, WireFields DEF IInv, TypeOK
    <3> QED BY <1>a, <2>0, <2>1, <2>2, <3>1, <3>2 DEF Counted, Tried, Exhausted
  <2>4. c = DeadLetter(env[w])
    BY DEF c
  <2> QED BY <2>0, <2>1, <2>2, <2>3, <2>4
<1>d. PICK d : d = DutyOf(c)
  OBVIOUS
<1>t. /\ rows' \subseteq Row /\ nextId' \in Nat /\ RowFacts' /\ RowsSafe
      /\ \A id, wire : SameMessage(id, wire) => SameMessage(id, wire)'
      /\ \/ pc' = [pc EXCEPT ![w] = "returned"] /\ rows' # rows
         \/ pc' = [pc EXCEPT ![w] = "threw"] /\ used'.faults # 0
      /\ rows' # rows => \A n \in Nat : n <= nextId => Safe(d, n)'
      /\ \A r \in rows' : r \in rows \/ (r.wire = c /\ r.at = t)
      /\ UsedUp
  <2>1. SendTo(w, t, c, "returned") /\ DutyOf(c) = d /\ Done \subseteq Done'
    BY <1>b, <1>d, <1>f DEF Done, historyVars
  <2> QED BY <1>a, <1>b, <1>s, <2>1, Sending
<1>e. /\ pc'[w] \in {"returned", "threw"} /\ (pc'[w] = "returned" => rows' # rows)
      /\ pc'[w] = "threw" => used'.faults # 0
      /\ \A b \in Actor : b # w => pc'[b] = pc[b]
  BY <1>a, <1>t DEF IInv, TypeOK
<1>1. TypeOK'
  <2>1. pc' \in [Actor -> {"start", "route", "handle", "resend", "deadletter",
                          "returned", "threw", "idle", "stopped"}]
    BY <1>f, <1>a, <1>t, Deployment DEF IInv, TypeOK, UsedUp, historyVars
  <2>2. env' \in [Actor -> Envelope \union {NoEnvelope}]
    BY <1>f, <1>a, <1>t, Deployment DEF IInv, TypeOK, UsedUp, historyVars
  <2>3. ran' \in [Actor -> SUBSET {HandlerNames[h] : h \in Handler}]
    BY <1>f, <1>a, <1>t, Deployment DEF IInv, TypeOK, UsedUp, historyVars
  <2>4. routed' \in [Message -> Nat] /\ inFlight' \in [Worker -> SUBSET Nat]
    BY <1>f, <1>a, <1>t, Deployment DEF IInv, TypeOK, UsedUp, historyVars
  <2>5. command' \in [stage : {"none", "retry", "remove", "retried"},
                      todo : SUBSET [id : Nat, wire : Wire]]
    BY <1>f, <1>a, <1>t, Deployment DEF IInv, TypeOK, UsedUp, historyVars
  <2>6. used' \in [{"faults", "failures", "commands"} -> Nat]
    BY <1>f, <1>a, <1>t, Deployment DEF IInv, TypeOK, UsedUp, historyVars
  <2>7. accepted' \subseteq Duty /\ completed' \subseteq Duty /\ discarded' \subseteq Duty
    BY <1>f, <1>a, <1>t, Deployment DEF IInv, TypeOK, UsedUp, historyVars
  <2>8. ranOk' \subseteq Duty \X Handler /\ attempts' \in [Duty -> Nat]
    BY <1>f, <1>a, <1>t, Deployment DEF IInv, TypeOK, UsedUp, historyVars
  <2> QED BY <1>s, <1>t, <2>1, <2>2, <2>3, <2>4, <2>5, <2>6, <2>7, <2>8, SetupFixed
     DEF IInv, TypeOK
<1>2. Callers' /\ Workers'
  <2>1. WorkerFits(w)'
    BY <1>a, <1>e, <1>f, <1>s, SetupFixed DEF WorkerFits, Busy, Carried, Fits
  <2>2. accepted' = accepted
    BY <1>f DEF historyVars
  <2> QED BY <1>e, <1>f, <1>s, <2>1, <2>2, StillFits, Deployment DEF IInv
<1>4. EnvelopeFacts' /\ SnapshotFacts'
  <2>1. \A v \in Worker : Busy(v)' => Busy(v)
    BY <1>a, <1>e, Deployment DEF Busy, IInv
  <2> QED BY <1>s, <1>f, <1>t, <2>1, StillRead
<1>5. DeletedIsSafe' /\ AcceptedIsSafe'
  <2>1. ASSUME NEW v \in Worker, pc'[v] = "returned", ~(pc[v] = "returned" /\ env'[v] = env[v])
        PROVE  \E wire, id : /\ env'[v].wire = wire /\ env'[v].id = id
                             /\ Safe(DutyOf(wire), id + 1)'
    <3>1. v = w
      BY <1>e, <1>f, <2>1, Deployment DEF IInv
    <3>2. PICK wire, id : wire = Carried(w) /\ id = env[w].id
      OBVIOUS
    <3>3. id + 1 \in Nat /\ id + 1 <= nextId /\ rows' # rows /\ DutyOf(wire) = d
      BY <1>a, <1>b, <1>d, <1>e, <2>1, <3>1, <3>2 DEF IInv, TypeOK
    <3>4. Safe(DutyOf(wire), id + 1)'
      BY <1>t, <3>3
    <3>5. env'[v].wire = wire /\ env'[v].id = id
      BY <1>f, <3>1, <3>2 DEF Carried
    <3> QED BY <3>4, <3>5
  <2>2. accepted' = accepted
    BY <1>f DEF historyVars
  <2> QED BY <1>f, <1>t, <2>1, <2>2, StillSafe
<1>7. StampsAreTrue'
  BY <1>s, <1>e, <1>f, StillStamped DEF historyVars
<1>8. AttemptsCounted'
  <2>1. \A v \in Worker : Busy(v)' /\ used'.faults = 0 =>
          Busy(v) /\ env'[v].wire = env[v].wire /\ (pc'[v] \in PastAttempt => pc[v] \in PastAttempt)
    BY <1>a, <1>e, <1>f, Deployment DEF Busy, IInv, PastAttempt
  <2>2. used'.faults = 0 =>
          \A r \in rows' : (\E o \in rows : o.wire = r.wire /\ o.at = r.at) \/ Counted(r.wire, r.at)
    BY <1>b, <1>t DEF UsedUp
  <2> QED BY <1>s, <1>f, <1>t, <2>1, <2>2, StillCounted DEF UsedUp, historyVars
<1> QED BY <1>t, <1>1, <1>2, <1>4, <1>5, <1>7, <1>8 DEF IInv

-----------------------------------------------------------------------------
(* The worker                                                              *)

LEMMA ReceiveIInv ==
  ASSUME IInv, NEW w \in Worker, Receive(w)
  PROVE  IInv'
<1>s. setup' = setup
  BY DEF Receive
<1>w. w \in Actor /\ w \notin Message
  BY Deployment DEF IInv
<1>0. PICK r \in rows :
        /\ MayClaim(r, Consumes[w])
        /\ rows' = (rows \ {r}) \union {[r EXCEPT !.held = TRUE]}
        /\ env' = [env EXCEPT ![w] = [wire |-> r.wire, id |-> r.id, receivedFrom |-> r.at]]
        /\ inFlight' = [inFlight EXCEPT ![w] = @ \union {r.id}]
  BY DEF Receive
<1>f. /\ UNCHANGED <<nextId, ran, routed, command, used, historyVars>>
      /\ pc[w] = "idle" /\ pc' = [pc EXCEPT ![w] = "start"]
  BY DEF Receive, Goto
<1>r. /\ r \in Row /\ r.id \in Nat /\ r.wire \in Wire /\ r.at \in Transport
      /\ r.at = Consumes[w] /\ Fits(r.wire, Consumes[w]) /\ SameMessage(r.id, r.wire)
      /\ used.faults = 0 => Counted(r.wire, Consumes[w])
  BY <1>0, RowFields DEF IInv, TypeOK, RowFacts, AttemptsCounted, MayClaim, Claimable,
         SameMessage
<1>e. /\ pc'[w] = "start" /\ env'[w] = [wire |-> r.wire, id |-> r.id, receivedFrom |-> r.at]
      /\ env'[w] \in Envelope
      /\ \A b \in Actor : b # w => pc'[b] = pc[b] /\ env'[b] = env[b]
  BY <1>0, <1>f, <1>r, <1>w DEF IInv, TypeOK, Envelope, Aliases
<1>t. /\ rows' \subseteq Row /\ nextId' \in Nat /\ RowFacts' /\ RowsSafe
      /\ \A id, wire : SameMessage(id, wire) => SameMessage(id, wire)'
      /\ \A s \in rows' : \E o \in rows : o.wire = s.wire /\ o.at = s.at
  <2>1. PICK q \in Row : /\ q = [r EXCEPT !.held = TRUE]
                        /\ q.id = r.id /\ q.at = r.at /\ q.wire = r.wire /\ q.due = r.due
    BY <1>r, RowFields
  <2>2. rows' = (rows \ {r}) \union {q} /\ Done \subseteq Done' /\ UNCHANGED nextId
    BY <1>0, <1>f, <2>1 DEF Done, historyVars
  <2>3. \A s \in rows' : \E o \in rows : o.wire = s.wire /\ o.at = s.at
    BY <2>1, <2>2
  <2> QED BY <1>s, <2>1, <2>2, <2>3, FlaggedRow
<1>1. TypeOK'
  <2>1. pc' \in [Actor -> {"start", "route", "handle", "resend", "deadletter",
                          "returned", "threw", "idle", "stopped"}]
    BY <1>0, <1>f, <1>r, <1>e, Deployment DEF IInv, TypeOK, historyVars
  <2>2. env' \in [Actor -> Envelope \union {NoEnvelope}]
    BY <1>0, <1>e DEF IInv, TypeOK, Aliases, Envelope
  <2>3. ran' \in [Actor -> SUBSET {HandlerNames[h] : h \in Handler}]
    BY <1>0, <1>f, <1>r, <1>e, Deployment DEF IInv, TypeOK, historyVars
  <2>4. routed' \in [Message -> Nat] /\ inFlight' \in [Worker -> SUBSET Nat]
    BY <1>0, <1>f, <1>r, <1>e, Deployment DEF IInv, TypeOK, historyVars
  <2>5. command' \in [stage : {"none", "retry", "remove", "retried"},
                      todo : SUBSET [id : Nat, wire : Wire]]
    BY <1>0, <1>f, <1>r, <1>e, Deployment DEF IInv, TypeOK, historyVars
  <2>6. used' \in [{"faults", "failures", "commands"} -> Nat]
    BY <1>0, <1>f, <1>r, <1>e, Deployment DEF IInv, TypeOK, historyVars
  <2>7. accepted' \subseteq Duty /\ completed' \subseteq Duty /\ discarded' \subseteq Duty
    BY <1>0, <1>f, <1>r, <1>e, Deployment DEF IInv, TypeOK, historyVars
  <2>8. ranOk' \subseteq Duty \X Handler /\ attempts' \in [Duty -> Nat]
    BY <1>0, <1>f, <1>r, <1>e, Deployment DEF IInv, TypeOK, historyVars
  <2> QED BY <1>s, <1>t, <2>1, <2>2, <2>3, <2>4, <2>5, <2>6, <2>7, <2>8, SetupFixed
     DEF IInv, TypeOK
<1>2. Callers' /\ Workers'
  <2>1. WorkerFits(w)'
    <3>1. Carried(w)' = r.wire /\ env'[w].receivedFrom = Consumes[w]
      BY <1>e, <1>r DEF Carried
    <3> QED BY <1>e, <1>r, <1>s, <3>1, SetupFixed DEF WorkerFits, Fits
  <2>2. accepted' = accepted
    BY <1>f DEF historyVars
  <2> QED BY <1>e, <1>f, <1>s, <1>w, <2>1, <2>2, StillFits, Deployment DEF IInv
<1>4. EnvelopeFacts' /\ SnapshotFacts'
  <2>1. ASSUME NEW v \in Worker, Busy(v)'
        PROVE  \/ Busy(v) /\ env'[v].id = env[v].id /\ env'[v].wire = env[v].wire
               \/ \E id, wire : env'[v].id = id /\ env'[v].wire = wire /\ SameMessage(id, wire)
    <3>1. CASE v = w
      BY <1>e, <1>r, <3>1
    <3>2. CASE v # w
      BY <1>e, <2>1, <3>2 DEF Busy, Actor
    <3> QED BY <3>1, <3>2
  <2> QED BY <1>s, <1>f, <1>t, <2>1, StillRead
<1>5. DeletedIsSafe' /\ AcceptedIsSafe'
  <2>1. \A v \in Worker : pc'[v] = "returned" => pc[v] = "returned" /\ env'[v] = env[v]
    BY <1>e DEF Actor
  <2>2. accepted' = accepted
    BY <1>f DEF historyVars
  <2> QED BY <1>f, <1>t, <2>1, <2>2, StillSafe
<1>7. StampsAreTrue'
  BY <1>s, <1>e, <1>f, StillStamped DEF historyVars
<1>8. AttemptsCounted'
  <2>1. ASSUME used'.faults = 0, NEW v \in Worker, Busy(v)'
        PROVE  \/ /\ Busy(v) /\ env'[v].wire = env[v].wire
                  /\ pc'[v] \in PastAttempt => pc[v] \in PastAttempt
               \/ \E wire : /\ env'[v].wire = wire /\ Counted(wire, Consumes[v])
                            /\ pc'[v] \notin PastAttempt
    <3>1. CASE v = w
      BY <1>e, <1>f, <1>r, <2>1, <3>1 DEF PastAttempt
    <3>2. CASE v # w
      BY <1>e, <2>1, <3>2 DEF Busy, Actor
    <3> QED BY <3>1, <3>2
  <2> QED BY <1>s, <1>f, <1>t, <2>1, StillCounted DEF historyVars
<1> QED BY <1>t, <1>1, <1>2, <1>4, <1>5, <1>7, <1>8 DEF IInv

LEMMA AckIInv ==
  ASSUME IInv, NEW w \in Worker, Ack(w)
  PROVE  IInv'
<1>s. setup' = setup
  BY DEF Ack
<1>w. w \in Actor /\ w \notin Message
  BY Deployment DEF IInv
<1>f. /\ UNCHANGED <<nextId, routed, command, historyVars>>
      /\ pc[w] = "returned"
      /\ env' = [env EXCEPT ![w] = NoEnvelope]
      /\ ran' = [ran EXCEPT ![w] = {}]
      /\ inFlight' = [inFlight EXCEPT ![w] = @ \ {env[w].id}]
      /\ pc' = [pc EXCEPT ![w] = "idle"] \/ pc' = [pc EXCEPT ![w] = "stopped"]
      /\ rows' = Without(env[w].id) \/ rows' = rows
  BY DEF Ack, Settled, Delete, Unchanged, Goto
<1>a. /\ env[w].id \in Nat /\ \A r \in rows : r.id = env[w].id => r.wire = Carried(w)
      /\ Safe(DutyOf(Carried(w)), env[w].id + 1)
  BY <1>f, HasEnvelope DEF Busy, IInv, DeletedIsSafe
<1>t. /\ rows' \subseteq Row /\ nextId' \in Nat /\ RowFacts' /\ RowsSafe
      /\ \A id, wire : SameMessage(id, wire) => SameMessage(id, wire)'
      /\ rows' \subseteq rows
  <2>1. rows' \subseteq rows /\ UNCHANGED <<setup, nextId>> /\ Done \subseteq Done'
    BY <1>s, <1>f DEF Without, Done, historyVars
  <2>2. ASSUME rows' = rows PROVE RowsSafe
    BY <2>1, <2>2 DEF RowsSafe, Safe, RowsOf
  <2>3. ASSUME rows' = Without(env[w].id) PROVE RowsSafe
    <3>1. PICK n \in Nat : n = env[w].id
      BY <1>a
    <3>2. rows' = Without(n)
      BY <2>3, <3>1
    <3>3. \A r \in rows : r.id = n => Safe(DutyOf(r.wire), n + 1) \/ DutyOf(r.wire) \in Done'
      BY <1>a, <3>1
    <3> QED BY <2>1, <3>2, <3>3, DeletedRow
  <2> QED BY <1>s, <1>f, <2>1, <2>2, <2>3, SameTable
<1>u. UsedUp
  BY NoFault, FaultFacts DEF Ack
<1>e. /\ pc'[w] \in {"idle", "stopped"}
      /\ \A b \in Actor : b # w => pc'[b] = pc[b] /\ env'[b] = env[b] /\ ran'[b] = ran[b]
  BY <1>f, <1>w DEF IInv, TypeOK
<1>1. TypeOK'
  <2>1. pc' \in [Actor -> {"start", "route", "handle", "resend", "deadletter",
                          "returned", "threw", "idle", "stopped"}]
    BY <1>f, <1>w, <1>u, Deployment DEF IInv, TypeOK, historyVars, UsedUp
  <2>2. env' \in [Actor -> Envelope \union {NoEnvelope}]
    BY <1>f, <1>w, <1>u, Deployment DEF IInv, TypeOK, historyVars, UsedUp
  <2>3. ran' \in [Actor -> SUBSET {HandlerNames[h] : h \in Handler}]
    BY <1>f, <1>w, <1>u, Deployment DEF IInv, TypeOK, historyVars, UsedUp
  <2>4. routed' \in [Message -> Nat] /\ inFlight' \in [Worker -> SUBSET Nat]
    BY <1>f, <1>w, <1>u, Deployment DEF IInv, TypeOK, historyVars, UsedUp
  <2>5. command' \in [stage : {"none", "retry", "remove", "retried"},
                      todo : SUBSET [id : Nat, wire : Wire]]
    BY <1>f, <1>w, <1>u, Deployment DEF IInv, TypeOK, historyVars, UsedUp
  <2>6. used' \in [{"faults", "failures", "commands"} -> Nat]
    BY <1>f, <1>w, <1>u, Deployment DEF IInv, TypeOK, historyVars, UsedUp
  <2>7. accepted' \subseteq Duty /\ completed' \subseteq Duty /\ discarded' \subseteq Duty
    BY <1>f, <1>w, <1>u, Deployment DEF IInv, TypeOK, historyVars, UsedUp
  <2>8. ranOk' \subseteq Duty \X Handler /\ attempts' \in [Duty -> Nat]
    BY <1>f, <1>w, <1>u, Deployment DEF IInv, TypeOK, historyVars, UsedUp
  <2> QED BY <1>s, <1>t, <2>1, <2>2, <2>3, <2>4, <2>5, <2>6, <2>7, <2>8, SetupFixed
     DEF IInv, TypeOK
<1>2. Callers' /\ Workers'
  <2>1. WorkerFits(w)'
    BY <1>e DEF WorkerFits, Busy
  <2>2. accepted' = accepted
    BY <1>f DEF historyVars
  <2> QED BY <1>e, <1>f, <1>s, <1>w, <2>1, <2>2, StillFits, Deployment DEF IInv
<1>r. \A v \in Worker : Busy(v)' => Busy(v) /\ env'[v] = env[v] /\ pc'[v] = pc[v] /\ v # w
  BY <1>e DEF Busy, Actor
<1>4. EnvelopeFacts' /\ SnapshotFacts'
  BY <1>s, <1>f, <1>t, <1>r, StillRead
<1>5. DeletedIsSafe' /\ AcceptedIsSafe'
  <2>1. \A v \in Worker : pc'[v] = "returned" => pc[v] = "returned" /\ env'[v] = env[v]
    BY <1>e DEF Actor
  <2>2. accepted' = accepted
    BY <1>f DEF historyVars
  <2> QED BY <1>f, <1>t, <2>1, <2>2, StillSafe
<1>7. StampsAreTrue'
  BY <1>s, <1>e, <1>f, StillStamped DEF historyVars
<1>8. AttemptsCounted'
  <2>1. used'.faults = 0 =>
          \A q \in rows' : (\E o \in rows : o.wire = q.wire /\ o.at = q.at) \/ Counted(q.wire, q.at)
    BY <1>t
  <2> QED BY <1>s, <1>f, <1>u, <1>r, <2>1, StillCounted DEF historyVars, UsedUp
<1> QED BY <1>t, <1>1, <1>2, <1>4, <1>5, <1>7, <1>8 DEF IInv

LEMMA RejectIInv ==
  ASSUME IInv, NEW w \in Worker, Reject(w)
  PROVE  IInv'
<1>s. setup' = setup
  BY DEF Reject
<1>w. w \in Actor /\ w \notin Message
  BY Deployment DEF IInv
<1> DEFINE copy == [Carried(w) EXCEPT !.count = @ + 1]
<1>f. /\ UNCHANGED <<routed, command, historyVars>>
      /\ pc[w] = "threw"
      /\ env' = [env EXCEPT ![w] = NoEnvelope]
      /\ ran' = [ran EXCEPT ![w] = {}]
      /\ inFlight' = [inFlight EXCEPT ![w] = @ \ {env[w].id}]
      /\ pc' = [pc EXCEPT ![w] = "idle"] \/ pc' = [pc EXCEPT ![w] = "stopped"]
      /\ \/ /\ rows' = Without(env[w].id) \union {NewRow(Consumes[w], copy)}
            /\ nextId' = nextId + 1
         \/ rows' = rows /\ nextId' = nextId
  BY DEF Reject, Settled, Redeliver, Unchanged, Goto
<1>a. /\ env[w].id \in Nat /\ Carried(w) \in Wire /\ DutyOf(Carried(w)) \in Duty
      /\ \A r \in rows : r.id = env[w].id => r.wire = Carried(w)
      /\ Fits(Carried(w), Consumes[w]) /\ Consumes[w] \in Transport
      /\ Carried(w).count \in Nat /\ MaxRetries \in Nat
      /\ Busy(w)
  BY <1>f, HasEnvelope, WireFields, Deployment DEF Busy, IInv, Workers, WorkerFits
<1>b. PICK c \in Wire, t \in Transport :
        /\ c = copy /\ t = Consumes[w] /\ Fits(c, t)
        /\ DutyOf(c) = DutyOf(Carried(w)) /\ c.count = Carried(w).count + 1
  <2>1. PICK wire \in Wire : wire = Carried(w)
    BY <1>a
  <2>2. LET q == [wire EXCEPT !.count = @ + 1] IN
          /\ q \in Wire /\ q.msg = wire.msg /\ q.home = wire.home
          /\ q.count = wire.count + 1 /\ q.delayed = wire.delayed
          /\ q.handled = wire.handled /\ q.failedFrom = wire.failedFrom
    <3>1. PICK alias \in Aliases : TRUE
      BY DEF Aliases
    <3> QED BY <3>1, Copies
  <2>3. /\ copy \in Wire /\ copy.msg = wire.msg /\ copy.home = wire.home
        /\ copy.count = wire.count + 1 /\ copy.delayed = wire.delayed
        /\ copy.handled = wire.handled /\ copy.failedFrom = wire.failedFrom
    BY <2>1, <2>2
  <2> HIDE DEF copy
  <2>4. Fits(copy, Consumes[w])
    BY <1>a, <2>1, <2>3 DEF Fits
  <2> QED BY <1>a, <2>1, <2>3, <2>4 DEF DutyOf
<1>t. /\ rows' \subseteq Row /\ nextId' \in Nat /\ RowFacts' /\ RowsSafe
      /\ \A id, wire : SameMessage(id, wire) => SameMessage(id, wire)'
      /\ \A r \in rows' : r \in rows \/ (r.wire = c /\ r.at = t)
  <2>1. Done \subseteq Done'
    BY <1>f DEF Done, historyVars
  <2>2. CASE rows' = rows /\ nextId' = nextId
    <3>1. RowsSafe
      BY <2>1, <2>2 DEF RowsSafe, Safe, RowsOf
    <3> QED BY <1>s, <2>2, <3>1, SameTable
  <2>3. CASE /\ rows' = Without(env[w].id) \union {NewRow(Consumes[w], copy)}
             /\ nextId' = nextId + 1
    <3>1. PICK R : R = Without(env[w].id)
      OBVIOUS
    <3>2. R \subseteq rows /\ \A r \in rows \ R : DutyOf(r.wire) = DutyOf(c)
      BY <1>a, <1>b, <3>1 DEF Without
    <3>3. rows' = R \union {NewRow(t, c)} /\ nextId' = nextId + 1
      BY <1>b, <2>3, <3>1
    <3>4. /\ rows' \subseteq Row /\ nextId' \in Nat /\ RowFacts' /\ RowsSafe
          /\ \A id, wire : SameMessage(id, wire) => SameMessage(id, wire)'
      BY <1>s, <1>b, <2>1, <3>2, <3>3, AddedRow
    <3>5. \A r \in rows' : r \in rows \/ (r.wire = c /\ r.at = t)
      BY <3>2, <3>3 DEF NewRow
    <3> QED BY <3>4, <3>5
  <2> QED BY <1>f, <2>2, <2>3
<1>u. UsedUp
  BY NoFault, FaultFacts DEF Reject
<1>e. /\ pc'[w] \in {"idle", "stopped"}
      /\ \A b \in Actor : b # w => pc'[b] = pc[b] /\ env'[b] = env[b] /\ ran'[b] = ran[b]
  BY <1>f, <1>w DEF IInv, TypeOK
<1>1. TypeOK'
  <2>1. pc' \in [Actor -> {"start", "route", "handle", "resend", "deadletter",
                          "returned", "threw", "idle", "stopped"}]
    BY <1>f, <1>w, <1>u, Deployment DEF IInv, TypeOK, historyVars, UsedUp
  <2>2. env' \in [Actor -> Envelope \union {NoEnvelope}]
    BY <1>f, <1>w, <1>u, Deployment DEF IInv, TypeOK, historyVars, UsedUp
  <2>3. ran' \in [Actor -> SUBSET {HandlerNames[h] : h \in Handler}]
    BY <1>f, <1>w, <1>u, Deployment DEF IInv, TypeOK, historyVars, UsedUp
  <2>4. routed' \in [Message -> Nat] /\ inFlight' \in [Worker -> SUBSET Nat]
    BY <1>f, <1>w, <1>u, Deployment DEF IInv, TypeOK, historyVars, UsedUp
  <2>5. command' \in [stage : {"none", "retry", "remove", "retried"},
                      todo : SUBSET [id : Nat, wire : Wire]]
    BY <1>f, <1>w, <1>u, Deployment DEF IInv, TypeOK, historyVars, UsedUp
  <2>6. used' \in [{"faults", "failures", "commands"} -> Nat]
    BY <1>f, <1>w, <1>u, Deployment DEF IInv, TypeOK, historyVars, UsedUp
  <2>7. accepted' \subseteq Duty /\ completed' \subseteq Duty /\ discarded' \subseteq Duty
    BY <1>f, <1>w, <1>u, Deployment DEF IInv, TypeOK, historyVars, UsedUp
  <2>8. ranOk' \subseteq Duty \X Handler /\ attempts' \in [Duty -> Nat]
    BY <1>f, <1>w, <1>u, Deployment DEF IInv, TypeOK, historyVars, UsedUp
  <2> QED BY <1>s, <1>t, <2>1, <2>2, <2>3, <2>4, <2>5, <2>6, <2>7, <2>8, SetupFixed
     DEF IInv, TypeOK
<1>2. Callers' /\ Workers'
  <2>1. WorkerFits(w)'
    BY <1>e DEF WorkerFits, Busy
  <2>2. accepted' = accepted
    BY <1>f DEF historyVars
  <2> QED BY <1>e, <1>f, <1>s, <1>w, <2>1, <2>2, StillFits, Deployment DEF IInv
<1>r. \A v \in Worker : Busy(v)' => Busy(v) /\ env'[v] = env[v] /\ pc'[v] = pc[v] /\ v # w
  BY <1>e DEF Busy, Actor
<1>4. EnvelopeFacts' /\ SnapshotFacts'
  BY <1>s, <1>f, <1>t, <1>r, StillRead
<1>5. DeletedIsSafe' /\ AcceptedIsSafe'
  <2>1. \A v \in Worker : pc'[v] = "returned" => pc[v] = "returned" /\ env'[v] = env[v]
    BY <1>e DEF Actor
  <2>2. accepted' = accepted
    BY <1>f DEF historyVars
  <2> QED BY <1>f, <1>t, <2>1, <2>2, StillSafe
<1>7. StampsAreTrue'
  BY <1>s, <1>e, <1>f, StillStamped DEF historyVars
<1>8. AttemptsCounted'
  <2>1. used'.faults = 0 =>
          \A q \in rows' : (\E o \in rows : o.wire = q.wire /\ o.at = q.at) \/ Counted(q.wire, q.at)
    <3>1. used'.faults = 0 => Counted(c, t)
      <4>1. used'.faults = 0 =>
              /\ Counted(Carried(w), Consumes[w])
              /\ Carried(w).count < attempts[DutyOf(Carried(w))]
        BY <1>a, <1>f, <1>u DEF IInv, AttemptsCounted, PastAttempt, Tried, UsedUp
      <4>2. attempts[DutyOf(Carried(w))] \in Nat
        BY <1>a DEF IInv, TypeOK
      <4> QED BY <1>a, <1>b, <4>1, <4>2 DEF Counted, Tried
    <3> QED BY <1>t, <3>1
  <2> QED BY <1>s, <1>f, <1>u, <1>r, <2>1, StillCounted DEF historyVars, UsedUp
<1> QED BY <1>t, <1>1, <1>2, <1>4, <1>5, <1>7, <1>8 DEF IInv

LEMMA CrashIInv ==
  ASSUME IInv, NEW w \in Worker, Crash(w)
  PROVE  IInv'
<1>s. setup' = setup
  BY DEF Crash
<1>w. w \in Actor /\ w \notin Message
  BY Deployment DEF IInv
<1>f. /\ UNCHANGED <<rows, nextId, routed, command, historyVars>>
      /\ env' = [env EXCEPT ![w] = NoEnvelope]
      /\ ran' = [ran EXCEPT ![w] = {}]
      /\ inFlight' = [inFlight EXCEPT ![w] = {}]
      /\ pc' = [pc EXCEPT ![w] = "stopped"]
  BY DEF Crash, Goto
<1>t. /\ rows' \subseteq Row /\ nextId' \in Nat /\ RowFacts' /\ RowsSafe
      /\ \A id, wire : SameMessage(id, wire) => SameMessage(id, wire)'
      /\ rows' = rows
  <2>1. RowsSafe /\ rows' = rows /\ nextId' = nextId
    BY <1>f DEF RowsSafe, Safe, RowsOf, Done, historyVars
  <2> QED BY <1>s, <2>1, SameTable
<1>u. UsedUp
  BY FaultFacts DEF Crash
<1>e. /\ pc'[w] \in {"idle", "stopped"}
      /\ \A b \in Actor : b # w => pc'[b] = pc[b] /\ env'[b] = env[b] /\ ran'[b] = ran[b]
  BY <1>f, <1>w DEF IInv, TypeOK
<1>1. TypeOK'
  <2>1. pc' \in [Actor -> {"start", "route", "handle", "resend", "deadletter",
                          "returned", "threw", "idle", "stopped"}]
    BY <1>f, <1>w, <1>u, Deployment DEF IInv, TypeOK, historyVars, UsedUp
  <2>2. env' \in [Actor -> Envelope \union {NoEnvelope}]
    BY <1>f, <1>w, <1>u, Deployment DEF IInv, TypeOK, historyVars, UsedUp
  <2>3. ran' \in [Actor -> SUBSET {HandlerNames[h] : h \in Handler}]
    BY <1>f, <1>w, <1>u, Deployment DEF IInv, TypeOK, historyVars, UsedUp
  <2>4. routed' \in [Message -> Nat] /\ inFlight' \in [Worker -> SUBSET Nat]
    BY <1>f, <1>w, <1>u, Deployment DEF IInv, TypeOK, historyVars, UsedUp
  <2>5. command' \in [stage : {"none", "retry", "remove", "retried"},
                      todo : SUBSET [id : Nat, wire : Wire]]
    BY <1>f, <1>w, <1>u, Deployment DEF IInv, TypeOK, historyVars, UsedUp
  <2>6. used' \in [{"faults", "failures", "commands"} -> Nat]
    BY <1>f, <1>w, <1>u, Deployment DEF IInv, TypeOK, historyVars, UsedUp
  <2>7. accepted' \subseteq Duty /\ completed' \subseteq Duty /\ discarded' \subseteq Duty
    BY <1>f, <1>w, <1>u, Deployment DEF IInv, TypeOK, historyVars, UsedUp
  <2>8. ranOk' \subseteq Duty \X Handler /\ attempts' \in [Duty -> Nat]
    BY <1>f, <1>w, <1>u, Deployment DEF IInv, TypeOK, historyVars, UsedUp
  <2> QED BY <1>s, <1>t, <2>1, <2>2, <2>3, <2>4, <2>5, <2>6, <2>7, <2>8, SetupFixed
     DEF IInv, TypeOK
<1>2. Callers' /\ Workers'
  <2>1. WorkerFits(w)'
    BY <1>e DEF WorkerFits, Busy
  <2>2. accepted' = accepted
    BY <1>f DEF historyVars
  <2> QED BY <1>e, <1>f, <1>s, <1>w, <2>1, <2>2, StillFits, Deployment DEF IInv
<1>r. \A v \in Worker : Busy(v)' => Busy(v) /\ env'[v] = env[v] /\ pc'[v] = pc[v] /\ v # w
  BY <1>e DEF Busy, Actor
<1>4. EnvelopeFacts' /\ SnapshotFacts'
  BY <1>s, <1>f, <1>t, <1>r, StillRead
<1>5. DeletedIsSafe' /\ AcceptedIsSafe'
  <2>1. \A v \in Worker : pc'[v] = "returned" => pc[v] = "returned" /\ env'[v] = env[v]
    BY <1>e DEF Actor
  <2>2. accepted' = accepted
    BY <1>f DEF historyVars
  <2> QED BY <1>f, <1>t, <2>1, <2>2, StillSafe
<1>7. StampsAreTrue'
  BY <1>s, <1>e, <1>f, StillStamped DEF historyVars
<1>8. AttemptsCounted'
  <2>1. used'.faults = 0 =>
          \A q \in rows' : (\E o \in rows : o.wire = q.wire /\ o.at = q.at) \/ Counted(q.wire, q.at)
    BY <1>t
  <2> QED BY <1>s, <1>f, <1>u, <1>r, <2>1, StillCounted DEF historyVars, UsedUp
<1> QED BY <1>t, <1>1, <1>2, <1>4, <1>5, <1>7, <1>8 DEF IInv

LEMMA RestartIInv ==
  ASSUME IInv, NEW w \in Worker, Restart(w)
  PROVE  IInv'
<1>s. setup' = setup
  BY DEF Restart
<1>w. w \in Actor /\ w \notin Message
  BY Deployment DEF IInv
<1>f. /\ UNCHANGED <<rows, nextId, env, ran, routed, inFlight, command, used, historyVars>>
      /\ pc[w] = "stopped" /\ pc' = [pc EXCEPT ![w] = "idle"]
  BY DEF Restart, Goto
<1>t. /\ rows' \subseteq Row /\ nextId' \in Nat /\ RowFacts' /\ RowsSafe
      /\ \A id, wire : SameMessage(id, wire) => SameMessage(id, wire)'
      /\ rows' = rows
  <2>1. RowsSafe /\ rows' = rows /\ nextId' = nextId
    BY <1>f DEF RowsSafe, Safe, RowsOf, Done, historyVars
  <2> QED BY <1>s, <2>1, SameTable
<1>u. UsedUp
  BY <1>f, NoFault
<1>e. /\ pc'[w] \in {"idle", "stopped"}
      /\ \A b \in Actor : b # w => pc'[b] = pc[b] /\ env'[b] = env[b] /\ ran'[b] = ran[b]
  BY <1>f, <1>w DEF IInv, TypeOK
<1>1. TypeOK'
  <2>1. pc' \in [Actor -> {"start", "route", "handle", "resend", "deadletter",
                          "returned", "threw", "idle", "stopped"}]
    BY <1>f, <1>w, <1>u, Deployment DEF IInv, TypeOK, historyVars, UsedUp
  <2>2. env' \in [Actor -> Envelope \union {NoEnvelope}]
    BY <1>f, <1>w, <1>u, Deployment DEF IInv, TypeOK, historyVars, UsedUp
  <2>3. ran' \in [Actor -> SUBSET {HandlerNames[h] : h \in Handler}]
    BY <1>f, <1>w, <1>u, Deployment DEF IInv, TypeOK, historyVars, UsedUp
  <2>4. routed' \in [Message -> Nat] /\ inFlight' \in [Worker -> SUBSET Nat]
    BY <1>f, <1>w, <1>u, Deployment DEF IInv, TypeOK, historyVars, UsedUp
  <2>5. command' \in [stage : {"none", "retry", "remove", "retried"},
                      todo : SUBSET [id : Nat, wire : Wire]]
    BY <1>f, <1>w, <1>u, Deployment DEF IInv, TypeOK, historyVars, UsedUp
  <2>6. used' \in [{"faults", "failures", "commands"} -> Nat]
    BY <1>f, <1>w, <1>u, Deployment DEF IInv, TypeOK, historyVars, UsedUp
  <2>7. accepted' \subseteq Duty /\ completed' \subseteq Duty /\ discarded' \subseteq Duty
    BY <1>f, <1>w, <1>u, Deployment DEF IInv, TypeOK, historyVars, UsedUp
  <2>8. ranOk' \subseteq Duty \X Handler /\ attempts' \in [Duty -> Nat]
    BY <1>f, <1>w, <1>u, Deployment DEF IInv, TypeOK, historyVars, UsedUp
  <2> QED BY <1>s, <1>t, <2>1, <2>2, <2>3, <2>4, <2>5, <2>6, <2>7, <2>8, SetupFixed
     DEF IInv, TypeOK
<1>2. Callers' /\ Workers'
  <2>1. WorkerFits(w)'
    BY <1>e DEF WorkerFits, Busy
  <2>2. accepted' = accepted
    BY <1>f DEF historyVars
  <2> QED BY <1>e, <1>f, <1>s, <1>w, <2>1, <2>2, StillFits, Deployment DEF IInv
<1>r. \A v \in Worker : Busy(v)' => Busy(v) /\ env'[v] = env[v] /\ pc'[v] = pc[v] /\ v # w
  BY <1>e DEF Busy, Actor
<1>4. EnvelopeFacts' /\ SnapshotFacts'
  BY <1>s, <1>f, <1>t, <1>r, StillRead
<1>5. DeletedIsSafe' /\ AcceptedIsSafe'
  <2>1. \A v \in Worker : pc'[v] = "returned" => pc[v] = "returned" /\ env'[v] = env[v]
    BY <1>e DEF Actor
  <2>2. accepted' = accepted
    BY <1>f DEF historyVars
  <2> QED BY <1>f, <1>t, <2>1, <2>2, StillSafe
<1>7. StampsAreTrue'
  BY <1>s, <1>e, <1>f, StillStamped DEF historyVars
<1>8. AttemptsCounted'
  <2>1. used'.faults = 0 =>
          \A q \in rows' : (\E o \in rows : o.wire = q.wire /\ o.at = q.at) \/ Counted(q.wire, q.at)
    BY <1>t
  <2> QED BY <1>s, <1>f, <1>u, <1>r, <2>1, StillCounted DEF historyVars, UsedUp
<1> QED BY <1>t, <1>1, <1>2, <1>4, <1>5, <1>7, <1>8 DEF IInv

-----------------------------------------------------------------------------
(* The commands                                                            *)

LEMMA StartCommandIInv ==
  ASSUME IInv, StartCommand
  PROVE  IInv'
<1>s. setup' = setup
  BY DEF StartCommand
<1>f. /\ UNCHANGED <<rows, nextId, pipelineVars, historyVars>>
      /\ Failure # NoTransport
      /\ used' = [used EXCEPT !.commands = @ + 1]
  BY DEF StartCommand
<1>0. PICK S \in SUBSET rows, c \in {"retry", "remove"} :
        command' = [stage |-> c, todo |-> {[id |-> r.id, wire |-> r.wire] : r \in S}]
  BY DEF StartCommand, FailedRows
<1>u. /\ used' \in [{"faults", "failures", "commands"} -> Nat]
      /\ used'.commands # 0 /\ used'.commands \in Nat /\ used'.faults = used.faults
  <2> DEFINE k == used.commands + 1
  <2>1. k \in Nat /\ k # 0 /\ used' = [used EXCEPT !.commands = k]
    BY <1>f DEF IInv, TypeOK
  <2> HIDE DEF k
  <2> QED BY <2>1 DEF IInv, TypeOK
<1>y. {[id |-> r.id, wire |-> r.wire] : r \in S} \in SUBSET [id : Nat, wire : Wire]
  <2>1. \A r \in S : r.id \in Nat /\ r.wire \in Wire
    BY RowFields DEF IInv, TypeOK
  <2> QED BY <2>1
<1>a. \A e \in command'.todo : \E r \in rows : e.id = r.id /\ e.wire = r.wire /\ e = [id |-> r.id, wire |-> r.wire]
  BY <1>0
<1>t. /\ rows' \subseteq Row /\ nextId' \in Nat /\ RowFacts' /\ RowsSafe
      /\ \A id, wire : SameMessage(id, wire) => SameMessage(id, wire)'
      /\ rows' = rows
  <2>1. RowsSafe /\ rows' = rows /\ nextId' = nextId
    BY <1>f DEF RowsSafe, Safe, RowsOf, Done, historyVars
  <2> QED BY <1>s, <2>1, SameTable
<1>1. TypeOK'
  <2>1. pc' \in [Actor -> {"start", "route", "handle", "resend", "deadletter",
                          "returned", "threw", "idle", "stopped"}]
    BY <1>f, <1>u, Deployment DEF IInv, TypeOK, historyVars, pipelineVars
  <2>2. env' \in [Actor -> Envelope \union {NoEnvelope}]
    BY <1>f, <1>u, Deployment DEF IInv, TypeOK, historyVars, pipelineVars
  <2>3. ran' \in [Actor -> SUBSET {HandlerNames[h] : h \in Handler}]
    BY <1>f, <1>u, Deployment DEF IInv, TypeOK, historyVars, pipelineVars
  <2>4. routed' \in [Message -> Nat] /\ inFlight' \in [Worker -> SUBSET Nat]
    BY <1>f, <1>u, Deployment DEF IInv, TypeOK, historyVars, pipelineVars
  <2>5. command' \in [stage : {"none", "retry", "remove", "retried"},
                      todo : SUBSET [id : Nat, wire : Wire]]
    BY <1>0, <1>y
  <2>6. used' \in [{"faults", "failures", "commands"} -> Nat]
    BY <1>f, <1>u, Deployment DEF IInv, TypeOK, historyVars, pipelineVars
  <2>7. accepted' \subseteq Duty /\ completed' \subseteq Duty /\ discarded' \subseteq Duty
    BY <1>f, <1>u, Deployment DEF IInv, TypeOK, historyVars, pipelineVars
  <2>8. ranOk' \subseteq Duty \X Handler /\ attempts' \in [Duty -> Nat]
    BY <1>f, <1>u, Deployment DEF IInv, TypeOK, historyVars, pipelineVars
  <2> QED BY <1>s, <1>t, <2>1, <2>2, <2>3, <2>4, <2>5, <2>6, <2>7, <2>8, SetupFixed
     DEF IInv, TypeOK
<1>2. Callers' /\ Workers'
  <2>1. accepted' = accepted
    BY <1>f DEF historyVars
  <2> QED BY <1>s, <1>f, <2>1, StillFits DEF pipelineVars
<1>4. EnvelopeFacts' /\ SnapshotFacts'
  <2>1. ASSUME NEW e \in command'.todo
        PROVE  /\ SameMessage(e.id, e.wire)
               /\ e.wire.failedFrom # NoTransport => Fits(e.wire, Failure)
               /\ \A f \in command'.todo : e.id = f.id => e = f
    <3>1. PICK r \in rows : e.id = r.id /\ e.wire = r.wire /\ e = [id |-> r.id, wire |-> r.wire]
      BY <1>a, <2>1
    <3>2. SameMessage(e.id, e.wire) /\ Fits(e.wire, r.at)
      BY <3>1, RowFields DEF IInv, TypeOK, RowFacts, SameMessage
    <3>3. e.wire.failedFrom # NoTransport => Fits(e.wire, Failure)
      BY <3>2 DEF Fits
    <3>4. \A f \in command'.todo : e.id = f.id => e = f
      BY <1>a, <3>1 DEF IInv, RowFacts
    <3> QED BY <3>2, <3>3, <3>4
  <2> QED BY <1>s, <1>f, <1>t, <2>1, StillRead DEF pipelineVars, Busy
<1>5. DeletedIsSafe' /\ AcceptedIsSafe'
  <2>1. accepted' = accepted
    BY <1>f DEF historyVars
  <2>2. command'.stage # "retried"
    BY <1>0
  <2> QED BY <1>f, <1>t, <2>1, <2>2, StillSafe DEF pipelineVars
<1>7. StampsAreTrue'
  BY <1>s, <1>f, StillStamped DEF historyVars, pipelineVars
<1>8. AttemptsCounted'
  <2> SUFFICES ASSUME used.faults = 0 PROVE AttemptsCounted'
    BY <1>u DEF AttemptsCounted
  <2>1. /\ attempts' = attempts /\ rows' = rows /\ pc' = pc /\ env' = env
        /\ Failure' = Failure /\ MaxRetries' = MaxRetries /\ Consumes' = Consumes
    BY <1>f, <1>s, SetupFixed DEF pipelineVars, historyVars
  <2>2. \A wire, alias : Counted(wire, alias)' <=> Counted(wire, alias)
    BY <2>1 DEF Counted, Tried
  <2>3. used'.commands > 0
    BY <1>u
  <2>4. \A r \in rows' : Counted(r.wire, r.at)'
    BY <2>1, <2>2 DEF IInv, AttemptsCounted
  <2>5. \A w \in Worker : Busy(w)' =>
          /\ Counted(Carried(w), Consumes[w])'
          /\ (pc[w] \in PastAttempt => Carried(w).count < Tried(Carried(w)))'
    BY <2>1, SetupFixed DEF IInv, AttemptsCounted, Busy, Carried, Counted, Tried
  <2> QED BY <1>u, <2>3, <2>4, <2>5 DEF AttemptsCounted
<1> QED BY <1>t, <1>1, <1>2, <1>4, <1>5, <1>7, <1>8 DEF IInv

LEMMA ResendToOriginIInv ==
  ASSUME IInv, ResendToOrigin
  PROVE  IInv'
<1>s. setup' = setup
  BY DEF ResendToOrigin
<1>0. PICK e \in command.todo :
        /\ NextTodo(e)
        /\ \/ /\ e.wire.failedFrom # NoTransport
              /\ Insert(e.wire.failedFrom, Revived(e.wire))
              /\ command' = [command EXCEPT !.stage = "retried"]
              /\ UsedUp
           \/ /\ e.wire.failedFrom # NoTransport
              /\ Insert(e.wire.failedFrom, Revived(e.wire)) \/ Unchanged
              /\ command' = Idle
              /\ UsedUp
           \/ Unchanged /\ command' = Idle /\ UsedUp
  BY NoFault, FaultFacts DEF ResendToOrigin
<1>f. /\ UNCHANGED <<pipelineVars, historyVars>>
      /\ command.stage = "retry" /\ command # Idle
  BY DEF ResendToOrigin, Idle
<1>u. UsedUp
  BY <1>0
<1>a. /\ e.id \in Nat /\ e.wire \in Wire /\ SameMessage(e.id, e.wire)
      /\ e.wire.failedFrom # NoTransport => Fits(e.wire, Failure)
      /\ \A x \in command.todo : x.id \in Nat /\ x.wire \in Wire /\ (x.id = e.id => x = e)
  BY <1>0 DEF IInv, TypeOK, SnapshotFacts
<1>b. PICK c \in Wire : /\ c = Revived(e.wire) /\ c.msg = e.wire.msg /\ c.home = e.wire.home
                       /\ c.count = 0 /\ c.handled = e.wire.handled
                       /\ c.failedFrom = NoTransport
  <2>1. NoTransport \in Aliases
    BY DEF Aliases
  <2> QED BY <1>a, <2>1, Copies DEF Revived
<1>c. e.wire.failedFrom # NoTransport =>
        /\ e.wire.failedFrom \in Transport \ {Failure}
        /\ Fits(c, e.wire.failedFrom) /\ DutyOf(c) = DutyOf(e.wire)
        /\ Counted(c, e.wire.failedFrom)
  <2> SUFFICES ASSUME e.wire.failedFrom # NoTransport
               PROVE  /\ e.wire.failedFrom \in Transport \ {Failure}
                      /\ Fits(c, e.wire.failedFrom) /\ DutyOf(c) = DutyOf(e.wire)
                      /\ Counted(c, e.wire.failedFrom)
    OBVIOUS
  <2>1. e.wire.failedFrom = e.wire.home /\ e.wire.home \in Transport \ {Failure}
    BY <1>a DEF Fits
  <2>2. Fits(c, e.wire.failedFrom) /\ DutyOf(c) = DutyOf(e.wire)
    BY <1>a, <1>b, <2>1 DEF Fits, DutyOf
  <2>3. attempts[DutyOf(c)] \in Nat
    BY <1>b, WireFields DEF IInv, TypeOK
  <2> QED BY <1>b, <2>1, <2>2, <2>3 DEF Counted, Tried
<1>k. command' = [command EXCEPT !.stage = "retried"] \/ command' = Idle
  BY <1>0
<1>t. /\ rows' \subseteq Row /\ nextId' \in Nat /\ RowFacts' /\ RowsSafe
      /\ \A id, wire : SameMessage(id, wire) => SameMessage(id, wire)'
      /\ \A r \in rows' : (\E o \in rows : o.wire = r.wire /\ o.at = r.at) \/ Counted(r.wire, r.at)
      /\ command' # Idle => \A n \in Nat : n <= nextId => Safe(DutyOf(e.wire), n)'
  <2>1. Done \subseteq Done'
    BY <1>f DEF Done, historyVars
  <2>2. CASE Unchanged /\ command' = Idle
    <3>1. rows' = rows /\ nextId' = nextId
      BY <2>2 DEF Unchanged
    <3>2. RowsSafe
      BY <2>1, <3>1 DEF RowsSafe, Safe, RowsOf
    <3> QED BY <1>s, <2>2, <3>1, <3>2, SameTable
  <2>3. CASE e.wire.failedFrom # NoTransport /\ Insert(e.wire.failedFrom, Revived(e.wire))
    <3>1. PICK t \in Transport : /\ t = e.wire.failedFrom
                                /\ Fits(c, t) /\ DutyOf(c) = DutyOf(e.wire) /\ Counted(c, t)
      BY <1>c, <2>3
    <3>2. rows' = rows \union {NewRow(t, c)} /\ nextId' = nextId + 1
      BY <1>b, <2>3, <3>1 DEF Insert
    <3>3. rows \subseteq rows /\ \A r \in rows \ rows : DutyOf(r.wire) = DutyOf(c)
      OBVIOUS
    <3>4. /\ rows' \subseteq Row /\ nextId' \in Nat /\ RowFacts' /\ RowsSafe
          /\ \A id, wire : SameMessage(id, wire) => SameMessage(id, wire)'
          /\ \A n \in Nat : n <= nextId => Safe(DutyOf(c), n)'
      BY <1>s, <2>1, <3>1, <3>2, <3>3, AddedRow
    <3>5. NewRow(t, c).wire = c /\ NewRow(t, c).at = t
      BY DEF NewRow
    <3>6. PICK d : d = DutyOf(c) /\ d = DutyOf(e.wire)
      BY <3>1
    <3>7. \A n \in Nat : n <= nextId => Safe(d, n)'
      BY <3>4, <3>6
    <3>8. command' # Idle => \A n \in Nat : n <= nextId => Safe(DutyOf(e.wire), n)'
      BY <3>6, <3>7
    <3> QED BY <3>1, <3>2, <3>4, <3>5, <3>8
  <2> QED BY <1>0, <2>2, <2>3
<1>1. TypeOK'
  <2>1. pc' \in [Actor -> {"start", "route", "handle", "resend", "deadletter",
                          "returned", "threw", "idle", "stopped"}]
    BY <1>f, <1>u, Deployment DEF IInv, TypeOK, historyVars, pipelineVars, UsedUp
  <2>2. env' \in [Actor -> Envelope \union {NoEnvelope}]
    BY <1>f, <1>u, Deployment DEF IInv, TypeOK, historyVars, pipelineVars, UsedUp
  <2>3. ran' \in [Actor -> SUBSET {HandlerNames[h] : h \in Handler}]
    BY <1>f, <1>u, Deployment DEF IInv, TypeOK, historyVars, pipelineVars, UsedUp
  <2>4. routed' \in [Message -> Nat] /\ inFlight' \in [Worker -> SUBSET Nat]
    BY <1>f, <1>u, Deployment DEF IInv, TypeOK, historyVars, pipelineVars, UsedUp
  <2>5. command' \in [stage : {"none", "retry", "remove", "retried"},
                      todo : SUBSET [id : Nat, wire : Wire]]
    BY <1>k DEF IInv, TypeOK, Idle
  <2>6. used' \in [{"faults", "failures", "commands"} -> Nat]
    BY <1>f, <1>u, Deployment DEF IInv, TypeOK, historyVars, pipelineVars, UsedUp
  <2>7. accepted' \subseteq Duty /\ completed' \subseteq Duty /\ discarded' \subseteq Duty
    BY <1>f, <1>u, Deployment DEF IInv, TypeOK, historyVars, pipelineVars, UsedUp
  <2>8. ranOk' \subseteq Duty \X Handler /\ attempts' \in [Duty -> Nat]
    BY <1>f, <1>u, Deployment DEF IInv, TypeOK, historyVars, pipelineVars, UsedUp
  <2> QED BY <1>s, <1>t, <2>1, <2>2, <2>3, <2>4, <2>5, <2>6, <2>7, <2>8, SetupFixed
     DEF IInv, TypeOK
<1>2. Callers' /\ Workers'
  <2>1. accepted' = accepted
    BY <1>f DEF historyVars
  <2> QED BY <1>s, <1>f, <2>1, StillFits DEF pipelineVars
<1>4. EnvelopeFacts' /\ SnapshotFacts'
  <2>1. command'.todo \subseteq command.todo
    BY <1>k DEF IInv, TypeOK, Idle
  <2> QED BY <1>s, <1>f, <1>t, <2>1, StillRead DEF pipelineVars, Busy
<1>5. DeletedIsSafe' /\ AcceptedIsSafe'
  <2>1. accepted' = accepted
    BY <1>f DEF historyVars
  <2>2. ASSUME command'.stage = "retried", NEW x \in command'.todo, NextTodo(x)'
        PROVE  Safe(DutyOf(x.wire), x.id + 1)'
    <3>1. command'.todo = command.todo /\ command' # Idle
      BY <1>k, <2>2 DEF IInv, TypeOK, Idle
    <3>2. x.id <= e.id /\ e.id <= x.id
      BY <1>0, <2>2, <3>1 DEF NextTodo
    <3>3. x = e
      BY <1>a, <2>2, <3>1, <3>2
    <3>4. PICK n \in Nat : n = e.id + 1 /\ n <= nextId
      BY <1>a DEF SameMessage, IInv, TypeOK
    <3>5. PICK d : d = DutyOf(e.wire)
      OBVIOUS
    <3>6. Safe(d, n)'
      BY <1>t, <3>1, <3>4, <3>5
    <3>7. d = DutyOf(x.wire) /\ n = x.id + 1
      BY <3>3, <3>4, <3>5
    <3> QED BY <3>6, <3>7 DEF Safe, RowsOf
  <2> QED BY <1>f, <1>t, <2>1, <2>2, StillSafe DEF pipelineVars
<1>7. StampsAreTrue'
  BY <1>s, <1>f, StillStamped DEF historyVars, pipelineVars
<1>8. AttemptsCounted'
  BY <1>s, <1>f, <1>t, <1>u, StillCounted DEF pipelineVars, historyVars, UsedUp, Busy
<1> QED BY <1>t, <1>1, <1>2, <1>4, <1>5, <1>7, <1>8 DEF IInv

LEMMA RemoveFailedIInv ==
  ASSUME IInv, RemoveFailed
  PROVE  IInv'
<1>s. setup' = setup
  BY DEF RemoveFailed
<1>0. PICK e \in command.todo :
        /\ NextTodo(e)
        /\ \/ Delete(e.id) /\ command' = After(e) /\ UsedUp
           \/ command' = Idle /\ (Delete(e.id) \/ Unchanged) /\ UsedUp
  BY NoFault, FaultFacts DEF RemoveFailed
<1>f. /\ UNCHANGED <<pipelineVars, accepted, completed, ranOk, attempts>>
      /\ command.stage \in {"retried", "remove"} /\ command # Idle
      /\ discarded' = discarded \union
           {DutyOf(r.wire) : r \in IF command.stage = "remove" THEN rows \ rows' ELSE {}}
      /\ nextId' = nextId
      /\ rows' = Without(e.id) \/ rows' = rows
  BY <1>0 DEF RemoveFailed, Idle, Delete, Unchanged
<1>u. UsedUp
  BY <1>0
<1>a. e.id \in Nat /\ e.wire \in Wire /\ SameMessage(e.id, e.wire)
  BY <1>0 DEF IInv, TypeOK, SnapshotFacts
<1>k. /\ command'.stage # "retried" /\ command'.todo \subseteq command.todo
      /\ command'.stage \in {"none", "retry", "remove"} /\ DOMAIN command' = {"stage", "todo"}
      /\ command' = [stage |-> command'.stage, todo |-> command'.todo]
  BY <1>0 DEF After, Idle
<1>d. \A r \in rows : DutyOf(r.wire) \in Duty
  BY RowFields, WireFields DEF IInv, TypeOK
<1>t. /\ rows' \subseteq Row /\ nextId' \in Nat /\ RowFacts' /\ RowsSafe
      /\ \A id, wire : SameMessage(id, wire) => SameMessage(id, wire)'
      /\ rows' \subseteq rows
  <2>1. rows' \subseteq rows /\ UNCHANGED <<setup, nextId>> /\ Done \subseteq Done'
    BY <1>s, <1>f DEF Without, Done
  <2>2. ASSUME rows' = rows PROVE RowsSafe
    BY <2>1, <2>2 DEF RowsSafe, Safe, RowsOf
  <2>3. ASSUME rows' = Without(e.id) PROVE RowsSafe
    <3>1. PICK n \in Nat : n = e.id
      BY <1>a
    <3>2. rows' = Without(n)
      BY <2>3, <3>1
    <3>3. ASSUME NEW r \in rows, r.id = n
          PROVE  Safe(DutyOf(r.wire), n + 1) \/ DutyOf(r.wire) \in Done'
      <4>1. CASE command.stage = "retried"
        <5>1. Safe(DutyOf(e.wire), e.id + 1)
          BY <1>0, <4>1 DEF IInv, DeletedIsSafe
        <5> QED BY <1>a, <3>1, <3>3, <5>1 DEF SameMessage
      <4>2. CASE command.stage = "remove"
        <5>1. r \in rows \ rows'
          BY <3>2, <3>3 DEF Without
        <5> QED BY <1>f, <4>2, <5>1 DEF Done
      <4> QED BY <1>f, <4>1, <4>2
    <3> QED BY <2>1, <3>2, <3>3, DeletedRow
  <2> QED BY <1>s, <1>f, <2>1, <2>2, <2>3, SameTable
<1>1. TypeOK'
  <2>1. pc' \in [Actor -> {"start", "route", "handle", "resend", "deadletter",
                          "returned", "threw", "idle", "stopped"}]
    BY <1>f, <1>u, <1>d, Deployment DEF IInv, TypeOK, pipelineVars, UsedUp
  <2>2. env' \in [Actor -> Envelope \union {NoEnvelope}]
    BY <1>f, <1>u, <1>d, Deployment DEF IInv, TypeOK, pipelineVars, UsedUp
  <2>3. ran' \in [Actor -> SUBSET {HandlerNames[h] : h \in Handler}]
    BY <1>f, <1>u, <1>d, Deployment DEF IInv, TypeOK, pipelineVars, UsedUp
  <2>4. routed' \in [Message -> Nat] /\ inFlight' \in [Worker -> SUBSET Nat]
    BY <1>f, <1>u, <1>d, Deployment DEF IInv, TypeOK, pipelineVars, UsedUp
  <2>5. command' \in [stage : {"none", "retry", "remove", "retried"},
                      todo : SUBSET [id : Nat, wire : Wire]]
    BY <1>k DEF IInv, TypeOK
  <2>6. used' \in [{"faults", "failures", "commands"} -> Nat]
    BY <1>f, <1>u, <1>d, Deployment DEF IInv, TypeOK, pipelineVars, UsedUp
  <2>7. accepted' \subseteq Duty /\ completed' \subseteq Duty /\ discarded' \subseteq Duty
    BY <1>f, <1>u, <1>d, Deployment DEF IInv, TypeOK, pipelineVars, UsedUp
  <2>8. ranOk' \subseteq Duty \X Handler /\ attempts' \in [Duty -> Nat]
    BY <1>f, <1>u, <1>d, Deployment DEF IInv, TypeOK, pipelineVars, UsedUp
  <2> QED BY <1>s, <1>t, <2>1, <2>2, <2>3, <2>4, <2>5, <2>6, <2>7, <2>8, SetupFixed
     DEF IInv, TypeOK
<1>2. Callers' /\ Workers'
  <2>1. accepted' = accepted
    BY <1>f DEF historyVars
  <2> QED BY <1>s, <1>f, <2>1, StillFits DEF pipelineVars
<1>4. EnvelopeFacts' /\ SnapshotFacts'
  BY <1>s, <1>f, <1>k, <1>t, StillRead DEF pipelineVars, Busy
<1>5. DeletedIsSafe' /\ AcceptedIsSafe'
  <2>1. accepted' = accepted
    BY <1>f DEF historyVars
  <2> QED BY <1>f, <1>k, <1>t, <2>1, StillSafe DEF pipelineVars
<1>7. StampsAreTrue'
  BY <1>s, <1>f, StillStamped DEF historyVars, pipelineVars
<1>8. AttemptsCounted'
  <2>1. used.faults = 0 => used.commands > 0
    BY <1>f DEF IInv, AttemptsCounted
  <2> QED BY <1>s, <1>f, <1>t, <1>u, <2>1, StillCounted DEF pipelineVars, UsedUp, Busy
<1> QED BY <1>t, <1>1, <1>2, <1>4, <1>5, <1>7, <1>8 DEF IInv

-----------------------------------------------------------------------------
(* Every step keeps the invariant.                                         *)

LEMMA StutterIInv ==
  ASSUME IInv, UNCHANGED vars
  PROVE  IInv'
<1>s. setup' = setup
  BY DEF vars
<1>f. UNCHANGED <<rows, nextId, pc, env, ran, routed, inFlight, command, used,
                  accepted, completed, discarded, ranOk, attempts>>
  BY DEF vars, pipelineVars, historyVars
<1>t. /\ rows' \subseteq Row /\ nextId' \in Nat /\ RowFacts' /\ RowsSafe
      /\ \A id, wire : SameMessage(id, wire) => SameMessage(id, wire)'
  <2>1. RowsSafe
    BY <1>f DEF RowsSafe, Safe, RowsOf, Done
  <2> QED BY <1>s, <1>f, <2>1, SameTable
<1>1. TypeOK'
  BY <1>s, <1>f, SetupFixed DEF IInv, TypeOK
<1>2. Callers' /\ Workers'
  BY <1>s, <1>f, StillFits
<1>4. EnvelopeFacts' /\ SnapshotFacts'
  BY <1>s, <1>f, <1>t, StillRead DEF Busy
<1>5. DeletedIsSafe' /\ AcceptedIsSafe'
  BY <1>f, <1>t, StillSafe
<1>7. StampsAreTrue'
  BY <1>s, <1>f, StillStamped
<1>8. AttemptsCounted'
  BY <1>s, <1>f, <1>t, StillCounted DEF Busy
<1> QED BY <1>t, <1>1, <1>2, <1>4, <1>5, <1>7, <1>8 DEF IInv

LEMMA NextIInv == IInv /\ [Next]_vars => IInv'
<1> SUFFICES ASSUME IInv, [Next]_vars PROVE IInv'
  OBVIOUS
<1>1. ASSUME NEW a \in Actor,
             Enter(a) \/ MiddlewareThrows(a) \/ HandlerSucceeds(a) \/ HandlerFails(a)
      PROVE  IInv'
  BY <1>1, EnterIInv, MiddlewareThrowsIInv, HandlerSucceedsIInv, HandlerFailsIInv
<1>2. ASSUME NEW m \in Message, Route(m) PROVE IInv'
  BY <1>2, RouteIInv
<1>3. ASSUME NEW w \in Worker,
             \/ Receive(w) \/ Ack(w) \/ Reject(w) \/ Restart(w) \/ Crash(w)
             \/ ResendForRetry(w) \/ SendToFailureTransport(w)
      PROVE  IInv'
  BY <1>3, ReceiveIInv, AckIInv, RejectIInv, RestartIInv, CrashIInv, ResendForRetryIInv,
     SendToFailureTransportIInv
<1>4. ASSUME NEW r \in rows, BecomeDue(r) \/ Expire(r) PROVE IInv'
  BY <1>4, BecomeDueIInv, ExpireIInv
<1>5. ASSUME StartCommand \/ ResendToOrigin \/ RemoveFailed PROVE IInv'
  BY <1>5, StartCommandIInv, ResendToOriginIInv, RemoveFailedIInv
<1>6. Worker \subseteq Actor /\ Message \subseteq Actor
  BY DEF Actor
<1>7. CASE UNCHANGED vars
  BY <1>7, StutterIInv
<1>8. CASE Next
  BY <1>8, <1>1, <1>2, <1>3, <1>4, <1>5, <1>6 DEF Next, Dispatching, Working
<1> QED BY <1>7, <1>8

LEMMA Invariance == Spec => []IInv
BY InitIInv, NextIInv, PTL DEF Spec

-----------------------------------------------------------------------------
(* The theorems                                                            *)

(* Every state is of the declared type.                                    *)
THEOREM TypeCorrect == Spec => []TypeOK
<1>1. IInv => TypeOK
  BY DEF IInv
<1> QED BY <1>1, Invariance, PTL

(* At least once, for every deployment and any number of faults: what a    *)
(* transport accepted stays in its table until all handlers finished or it *)
(* was dropped or removed on purpose, through crashes, failed acks and     *)
(* rejects, lost replies, expired claims, retries, dead-lettering and the  *)
(* messenger:failed:* commands; and a dispatch() that returned was         *)
(* accepted on all of its routes.                                          *)
THEOREM NothingLost == Spec => []NoLoss
<1>1. IInv => NoLoss
  BY DEF IInv, AcceptedIsSafe, Safe, NoLoss, Callers, CallerFits
<1> QED BY <1>1, Invariance, PTL

(* What is in the failure transport names the transport it came from, has  *)
(* used up its retries and is visible at once, and nothing outside of it   *)
(* is marked as failed.                                                    *)
THEOREM DeadLettersAreReplayable == Spec => []DeadLettersReplayable
<1>1. IInv => DeadLettersReplayable
  <2> SUFFICES ASSUME IInv, NEW r \in rows
               PROVE  IF r.at = Failure
                        THEN /\ r.wire.failedFrom \in Transport \ {Failure}
                             /\ r.wire.failedFrom = r.wire.home
                             /\ r.due
                             /\ r.wire.count >= MaxRetries
                        ELSE r.wire.failedFrom = NoTransport
    BY DEF DeadLettersReplayable
  <2>1. Fits(r.wire, r.at) /\ (r.at = Failure => r.due)
    BY DEF IInv, RowFacts
  <2> QED BY <2>1 DEF Fits
<1> QED BY <1>1, Invariance, PTL

(* Where names tell the handlers of a message apart, it counts as handled  *)
(* only when each of them succeeded for it.                                *)
THEOREM HandledMeansAllRan == Spec => [](DistinctNames => AllHandlersRan)
<1>1. IInv => (DistinctNames => AllHandlersRan)
  BY DEF IInv, StampsAreTrue
<1> QED BY <1>1, Invariance, PTL
=============================================================================
