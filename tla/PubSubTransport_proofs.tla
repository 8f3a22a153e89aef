------------------------ MODULE PubSubTransport_proofs ------------------------
(***************************************************************************)
(* Theorems about PubSubTransport, for every deployment: any number of     *)
(* processes, loops, messages and leases, and any bound on rejections,     *)
(* troubles and slow handlers.                                             *)
(*                                                                         *)
(* Ids are the service's: whatever has the same id is the same message     *)
(* (IdFacts), also long after its row is gone from the backlog.  The copy  *)
(* that reject() publishes has a later id than what it acknowledges, and   *)
(* that makes acknowledgements safe to send in any order (AckedIsSafe).    *)
(* ReadyForAll counts wake-ups; OnceEach and CloseFacts are what close()   *)
(* relies on.                                                              *)
(***************************************************************************)
EXTENDS PubSubTransport, FiniteSetTheorems, TLAPS

Buffered(p) == {buffer[p][i] : i \in 1..Len(buffer[p])}
Held        == {hand[c] : c \in {d \in Consumer : hand[d] # Nothing}}

(* Every delivery that some process still remembers.                       *)
Known == Held \union UNION {Buffered(p) \union inFlight[p] \union acking[p] : p \in Process}

(* Loops of the deployment run, the others do not; a process crashes with  *)
(* all of its loops; and while it has no stream it has no messages.        *)
Places ==
  /\ \A c \in Consumer \ setup.loops : pc[c] = "returned"
  /\ \A c \in setup.loops : pc[c] = "crashed" =>
       /\ stream[home[c]] = "none" /\ acking[home[c]] = {}
       /\ \A d \in setup.loops : home[d] = home[c] => pc[d] = "crashed"
  /\ \A p \in Process : stream[p] \in {"none", "starting", "failed"} =>
       /\ buffer[p] = <<>> /\ inFlight[p] = {}
       /\ \A c \in At(p) : pc[c] \notin {"waiting", "handle", "publishing"}

(* One id, one message.                                                    *)
IdFacts ==
  /\ \A r, s \in backlog : r.id = s.id => r = s
  /\ \A r \in backlog : r.id < nextId
  /\ \A d \in Known :
       /\ d.id < nextId
       /\ \A r \in backlog : r.id = d.id => r.msg = d.msg
       /\ \A e \in Known : e.id = d.id => e.msg = d.msg

(* What is about to be acknowledged was handled, or has a later copy.      *)
AckedIsSafe ==
  \A p \in Process : \A d \in acking[p] :
    d.msg \in done \/ \E r \in backlog : r.msg = d.msg /\ r.id > d.id

Ready(p) == {c \in In(p, "loop") : ~ShouldStop(c)}

(* Whoever waits need not stop; and where one waits, there is a loop about *)
(* to run, and to take a message, for every message of the buffer.         *)
ReadyForAll ==
  /\ \A c \in Consumer : pc[c] = "waiting" => ~ShouldStop(c)
  /\ \A p \in Process :
       stream[p] = "open" /\ In(p, "waiting") # {} => Len(buffer[p]) <= Cardinality(Ready(p))

(* The lease that d was delivered under, unless d is acknowledged.         *)
StillLeased(p, d) == \A r \in backlog : Of(d, r) => Leases(p, d, r)

(* Without slow handlers a process never has a message twice: it keeps the *)
(* lease of all it has, and what is in flight is what is handled.          *)
OnceEach ==
  used["slow"] = 0 =>
    \A p \in Process :
      /\ \A i, j \in 1..Len(buffer[p]) : buffer[p][i].id = buffer[p][j].id => i = j
      /\ \A c \in At(p) : hand[c] # Nothing =>
           /\ \A i \in 1..Len(buffer[p]) : buffer[p][i].id # hand[c].id
           /\ \A d \in At(p) : hand[d] # Nothing /\ hand[d].id = hand[c].id => c = d
           /\ pc[c] = "handle" => hand[c] \in inFlight[p]
      /\ \A d \in inFlight[p] : \E c \in At(p) : pc[c] = "handle" /\ hand[c] = d
      /\ stream[p] = "open" /\ closing[p] # "closed" =>
           /\ \A i \in 1..Len(buffer[p]) : StillLeased(p, buffer[p][i])
           /\ \A c \in At(p) : hand[c] # Nothing => StillLeased(p, hand[c])

(* Once close() found nothing in flight there is nothing in flight; once   *)
(* the acknowledgements were sent there are no more.                       *)
CloseFacts ==
  \A p \in Process :
    /\ closing[p] \in {"flushing", "closed"} => inFlight[p] = {} /\ In(p, "publishing") = {}
    /\ closing[p] = "closed" => acking[p] = {}

IInv ==
  /\ TypeOK
  /\ Places
  /\ IdFacts
  /\ AckedIsSafe
  /\ NoLoss
  /\ ReadyForAll
  /\ OnceEach
  /\ CloseFacts

-----------------------------------------------------------------------------
(* The invariant holds initially.                                          *)
LEMMA InitIInv == Init => IInv
<1> SUFFICES ASSUME Init PROVE IInv
  OBVIOUS
<1>0. buffer \in [Process -> Seq(Delivery)]
  BY DEF Init
<1>1. TypeOK
  BY <1>0 DEF Init, TypeOK
<1>2. Places /\ CloseFacts
  BY SetupsAssumption DEF Init, Places, CloseFacts, At, In, home
<1>3. Known = {}
  BY DEF Init, Known, Held, Buffered
<1>4. IdFacts /\ AckedIsSafe /\ NoLoss
  BY <1>3 DEF Init, IdFacts, AckedIsSafe, NoLoss
<1>5. ReadyForAll
  BY DEF Init, ReadyForAll, In, At
<1>6. OnceEach
  <2>1. \A p \in Process : Len(buffer[p]) = 0 /\ inFlight[p] = {}
    BY DEF Init
  <2>2. \A c \in Consumer : hand[c] = Nothing
    BY DEF Init
  <2> QED BY <2>1, <2>2, SetupsAssumption DEF Init, OnceEach, At
<1> QED BY <1>1, <1>2, <1>4, <1>5, <1>6 DEF IInv

-----------------------------------------------------------------------------
(* Ids and acknowledgements                                                *)

(* Forgetting deliveries, and taking rows away, keeps ids unique.          *)
LEMMA FewerIds ==
  ASSUME IdFacts, Known' \subseteq Known, backlog' \subseteq backlog, nextId' = nextId
  PROVE  IdFacts'
BY DEF IdFacts

(* A row that is leased, or whose lease expires, keeps its id.             *)
LEMMA SameIds ==
  ASSUME IdFacts, NEW r \in backlog, NEW q, q.id = r.id, q.msg = r.msg,
         backlog' = (backlog \ {r}) \union {q}, nextId' = nextId,
         \A d \in Known' : d \in Known \/ (d.id = r.id /\ d.msg = r.msg)
  PROVE  IdFacts'
<1>1. \A s \in backlog' :
        \E o \in backlog : /\ o.id = s.id /\ o.msg = s.msg
                           /\ (s = o /\ s # r) \/ (s = q /\ o = r)
  OBVIOUS
<1>2. /\ \A s, o \in backlog' : s.id = o.id => s = o
      /\ \A s \in backlog' : s.id < nextId'
  BY <1>1 DEF IdFacts
<1>3. ASSUME NEW d \in Known'
      PROVE  /\ d.id < nextId'
             /\ \A s \in backlog' : s.id = d.id => s.msg = d.msg
             /\ \A e \in Known' : e.id = d.id => e.msg = d.msg
  <2>1. CASE d \in Known
    BY <1>1, <1>3, <2>1 DEF IdFacts
  <2>2. CASE d.id = r.id /\ d.msg = r.msg
    BY <1>1, <1>3, <2>2 DEF IdFacts
  <2> QED BY <1>3, <2>1, <2>2
<1> QED BY <1>2, <1>3 DEF IdFacts

(* A copy gets an id that nobody has seen.                                 *)
LEMMA NewId ==
  ASSUME IdFacts, TypeOK, NEW m \in Message, Publish(m, backlog), Known' \subseteq Known,
         \A d \in Known : d.id \in Nat
  PROVE  /\ backlog' \subseteq Outstanding /\ nextId' \in Nat
         /\ backlog \subseteq backlog'
         /\ IdFacts'
         /\ \E s \in backlog' : s.msg = m /\ s.id = nextId
         /\ \A s \in backlog' : s \in backlog \/ s.id = nextId
<1> DEFINE q == [id |-> nextId, msg |-> m, n |-> 0, owner |-> NoOne]
<1>1. q \in Outstanding /\ q.id = nextId /\ q.msg = m
  BY DEF TypeOK, Outstanding
<1>2. backlog' = backlog \union {q} /\ nextId' = nextId + 1 /\ nextId \in Nat
  BY DEF Publish, TypeOK
<1> HIDE DEF q
<1>3. backlog \subseteq Outstanding /\ backlog' \subseteq Outstanding
  BY <1>1, <1>2 DEF TypeOK
<1>4. \A s \in backlog' : s.id < nextId'
  BY <1>1, <1>2, <1>3 DEF IdFacts, Outstanding
<1>5. \A s, o \in backlog' : s.id = o.id => s = o
  BY <1>1, <1>2, <1>3 DEF IdFacts, Outstanding
<1>6. IdFacts'
  BY <1>1, <1>2, <1>3, <1>4, <1>5 DEF IdFacts, Outstanding
<1> QED BY <1>1, <1>2, <1>3, <1>6

(* Deliveries are typed.                                                   *)
LEMMA KnownType == TypeOK => Known \subseteq Delivery
BY DEF TypeOK, Known, Held, Buffered

LEMMA KnownParts ==
  /\ \A c \in Consumer : hand[c] # Nothing => hand[c] \in Known
  /\ \A p \in Process : Buffered(p) \subseteq Known /\ inFlight[p] \subseteq Known
                       /\ acking[p] \subseteq Known
BY DEF Known, Held

LEMMA NothingNew ==
  ASSUME NEW S,
         \A c \in Consumer : hand'[c] \in S \union {Nothing},
         \A p \in Process : Buffered(p)' \subseteq S /\ inFlight'[p] \subseteq S
                           /\ acking'[p] \subseteq S
  PROVE  Known' \subseteq S
BY DEF Known, Held

(* The first message of a buffer, and the rest.                            *)
LEMMA HeadAndTail ==
  ASSUME TypeOK, NEW p \in Process, buffer[p] # <<>>
  PROVE  /\ Head(buffer[p]) \in Delivery /\ Head(buffer[p]) \in Buffered(p)
         /\ Tail(buffer[p]) \in Seq(Delivery)
         /\ Len(buffer[p]) \in Nat \ {0} /\ Len(Tail(buffer[p])) = Len(buffer[p]) - 1
         /\ Head(buffer[p]) = buffer[p][1]
         /\ \A i \in 1..Len(Tail(buffer[p])) :
              i + 1 \in 1..Len(buffer[p]) /\ Tail(buffer[p])[i] = buffer[p][i + 1]
<1>1. buffer[p] \in Seq(Delivery)
  BY DEF TypeOK
<1>2. /\ Head(buffer[p]) \in Delivery /\ Tail(buffer[p]) \in Seq(Delivery)
      /\ Len(buffer[p]) \in Nat \ {0} /\ Len(Tail(buffer[p])) = Len(buffer[p]) - 1
      /\ Head(buffer[p]) = buffer[p][1]
  BY <1>1
<1>3. \A i \in 1..Len(Tail(buffer[p])) :
        i + 1 \in 1..Len(buffer[p]) /\ Tail(buffer[p])[i] = buffer[p][i + 1]
  BY <1>1, <1>2
<1> QED BY <1>2, <1>3 DEF Buffered

-----------------------------------------------------------------------------
(* Wake-ups                                                                *)

LEMMA ReadyFinite ==
  ASSUME TypeOK, NEW p \in Process
  PROVE  /\ IsFiniteSet(Ready(p)) /\ Cardinality(Ready(p)) \in Nat
         /\ Len(buffer[p]) \in Nat
<1>1. IsFiniteSet(setup.loops) /\ Ready(p) \subseteq setup.loops
  BY SetupsAssumption DEF TypeOK, Ready, In, At
<1>2. IsFiniteSet(Ready(p))
  BY <1>1, FS_Subset
<1> QED BY <1>2, FS_CardinalityType DEF TypeOK

(* Where a loop waits after the step, one waited before, the buffer is not *)
(* longer and no loop that was ready is gone; or there is nothing to take. *)
LEMMA StillReady ==
  ASSUME IInv, TypeOK',
         \A c \in Consumer : pc'[c] = "waiting" => ~ShouldStop(c)',
         \A p \in Process :
           stream'[p] = "open" /\ In(p, "waiting")' # {} =>
             \/ buffer'[p] = <<>>
             \/ /\ stream[p] = "open" /\ In(p, "waiting") # {}
                /\ Len(buffer'[p]) <= Len(buffer[p])
                /\ Ready(p) \subseteq Ready(p)'
  PROVE  ReadyForAll'
<1> SUFFICES ASSUME NEW p \in Process, stream'[p] = "open", In(p, "waiting")' # {}
             PROVE  Len(buffer'[p]) <= Cardinality(Ready(p)')
  BY DEF ReadyForAll
<1>1. IsFiniteSet(Ready(p)') /\ Cardinality(Ready(p)') \in Nat /\ Len(buffer'[p]) \in Nat
  <2>1. IsFiniteSet(setup'.loops) /\ Ready(p)' \subseteq setup'.loops
    BY SetupsAssumption DEF TypeOK, Ready, In, At
  <2>2. IsFiniteSet(Ready(p)')
    BY <2>1, FS_Subset
  <2> QED BY <2>2, FS_CardinalityType DEF TypeOK
<1>2. Cardinality(Ready(p)) \in Nat /\ Len(buffer[p]) \in Nat
  BY ReadyFinite DEF IInv
<1>3. CASE buffer'[p] = <<>>
  BY <1>1, <1>3
<1>4. CASE /\ stream[p] = "open" /\ In(p, "waiting") # {}
           /\ Len(buffer'[p]) <= Len(buffer[p])
           /\ Ready(p) \subseteq Ready(p)'
  <2>1. Cardinality(Ready(p)) <= Cardinality(Ready(p)')
    BY <1>1, <1>4, FS_Subset
  <2>2. Len(buffer[p]) <= Cardinality(Ready(p))
    BY <1>4 DEF IInv, ReadyForAll
  <2> QED BY <1>1, <1>2, <1>4, <2>1, <2>2
<1> QED BY <1>3, <1>4

(* A step that gives no message, adds only rows that nobody knows of, and  *)
(* opens no stream but where there are no messages, leaves it at one       *)
(* delivery for each.                                                      *)
LEMMA StillOnce ==
  ASSUME IInv, UNCHANGED <<setup, buffer, inFlight>>,
         \A s \in backlog' : s \in backlog \/ \A d \in Known : d.id # s.id,
         used'["slow"] = 0 => used["slow"] = 0,
         \A c \in Consumer : hand'[c] = hand[c] \/ (hand'[c] = Nothing /\ pc[c] # "handle"),
         \A c \in Consumer : pc'[c] = "handle" <=> pc[c] = "handle",
         \A p \in Process :
           stream'[p] = "open" /\ closing'[p] # "closed" =>
             stream[p] = "open" /\ closing[p] # "closed"
  PROVE  OnceEach'
<1>1. \A p \in Process : \A i \in 1..Len(buffer[p]) : buffer[p][i] \in Known
  BY KnownParts DEF Buffered
<1>2. setup.loops \subseteq Consumer /\ \A c \in Consumer : hand[c] # Nothing => hand[c] \in Known
  BY KnownParts, SetupsAssumption DEF IInv, TypeOK
<1>3. \A p \in Process, d \in Known : StillLeased(p, d) => StillLeased(p, d)'
  BY DEF StillLeased, Of
<1> QED BY <1>1, <1>2, <1>3 DEF IInv, OnceEach, At, home, StillLeased

-----------------------------------------------------------------------------
(* A step that leaves the backlog alone, and that acknowledges only what   *)
(* was handled, has to respect what is remembered and the phases of close()*)
LEMMA QuietIInv ==
  ASSUME IInv, TypeOK', Places', ReadyForAll', OnceEach', CloseFacts',
         UNCHANGED <<backlog, nextId, sent>>,
         done \subseteq done',
         Known' \subseteq Known,
         \A p \in Process : \A d \in acking'[p] : d \in acking[p] \/ d.msg \in done'
  PROVE  IInv'
<1>1. IdFacts'
  BY FewerIds DEF IInv
<1>2. AckedIsSafe' /\ NoLoss'
  BY DEF IInv, AckedIsSafe, NoLoss
<1> QED BY <1>1, <1>2 DEF IInv

LEMMA StartIInv ==
  ASSUME IInv, NEW c \in Consumer, Start(c)
  PROVE  IInv'
<1> USE DEF IInv, Start, At, In, ShouldStop, Goto, SendTo,
            serviceVars, clientVars, loopVars
<1>1. TypeOK'
  BY SetupsAssumption DEF TypeOK, home
<1>2. Places'
  BY SetupsAssumption DEF TypeOK, Places, home
<1>3. ReadyForAll'
  <2>1. \A e \in Consumer : pc'[e] = "waiting" => ~ShouldStop(e)'
    BY SetupsAssumption DEF TypeOK, ReadyForAll, home
  <2>2. \A q \in Process :
          stream'[q] = "open" /\ In(q, "waiting")' # {} =>
            \/ buffer'[q] = <<>>
            \/ /\ stream[q] = "open" /\ In(q, "waiting") # {}
               /\ Len(buffer'[q]) <= Len(buffer[q])
               /\ Ready(q) \subseteq Ready(q)'
    BY SetupsAssumption DEF TypeOK, ReadyForAll, Places, Ready, home
  <2> QED BY <1>1, <2>1, <2>2, StillReady
<1>4. OnceEach'
  BY SetupsAssumption DEF TypeOK, Places, OnceEach, home, StillLeased, Leases, Of
<1>5. CloseFacts'
  BY SetupsAssumption DEF TypeOK, Places, CloseFacts, home
<1>6. Known' \subseteq Known
  BY SetupsAssumption DEF TypeOK, Known, Held, Buffered, home
<1>7. \A q \in Process : \A d \in acking'[q] : d \in acking[q] \/ d.msg \in done'
  BY SetupsAssumption DEF TypeOK, home, IdFacts, Known, Held
<1> QED BY <1>1, <1>2, <1>3, <1>4, <1>5, <1>6, <1>7, QuietIInv

LEMMA StreamOpensIInv ==
  ASSUME IInv, NEW p \in Process, StreamOpens(p)
  PROVE  IInv'
<1> USE DEF IInv, StreamOpens, At, In, ShouldStop, Goto, SendTo,
            serviceVars, clientVars, loopVars
<1>1. TypeOK'
  BY SetupsAssumption DEF TypeOK, home
<1>2. Places'
  BY SetupsAssumption DEF TypeOK, Places, home
<1>3. ReadyForAll'
  <2>1. \A e \in Consumer : pc'[e] = "waiting" => ~ShouldStop(e)'
    BY SetupsAssumption DEF TypeOK, ReadyForAll, home
  <2>2. buffer'[p] = <<>>
    BY DEF TypeOK, Places
  <2>3. ASSUME NEW q \in Process, q # p
        PROVE  /\ stream'[q] = stream[q] /\ In(q, "waiting")' = In(q, "waiting")
               /\ buffer'[q] = buffer[q] /\ Len(buffer[q]) \in Nat
               /\ Ready(q) \subseteq Ready(q)'
    BY <2>3, SetupsAssumption DEF TypeOK, Ready, home
  <2> QED BY <1>1, <2>1, <2>2, <2>3, StillReady
<1>4. OnceEach'
  <2>1. /\ UNCHANGED <<setup, buffer, inFlight, hand, closing, backlog, used>>
        /\ \A q \in Process : stream'[q] = IF q = p THEN "open" ELSE stream[q]
        /\ \A c \in Consumer : pc'[c] = "handle" <=> pc[c] = "handle"
    BY DEF TypeOK
  <2>2. \A q \in Process : At(q)' = At(q) /\ At(q) \subseteq Consumer
    BY <2>1, SetupsAssumption DEF home, TypeOK
  <2>3. buffer[p] = <<>> /\ \A c \in At(p) : hand[c] = Nothing
    BY <2>2 DEF TypeOK, Places
  <2>4. \A q, d : StillLeased(q, d)' <=> StillLeased(q, d)
    BY <2>1 DEF StillLeased, Leases, Of
  <2>5. \A i : i \notin 1..Len(<<>>)
    OBVIOUS
  <2>6. OnceEach
    OBVIOUS
  <2> HIDE DEF IInv, StreamOpens, At
  <2> QED BY <2>1, <2>2, <2>3, <2>4, <2>5, <2>6 DEF OnceEach
<1>5. CloseFacts'
  BY SetupsAssumption DEF TypeOK, Places, CloseFacts, home
<1>6. Known' \subseteq Known
  BY SetupsAssumption DEF TypeOK, Known, Held, Buffered, home
<1>7. \A q \in Process : \A d \in acking'[q] : d \in acking[q] \/ d.msg \in done'
  BY SetupsAssumption DEF TypeOK, home, IdFacts, Known, Held
<1> QED BY <1>1, <1>2, <1>3, <1>4, <1>5, <1>6, <1>7, QuietIInv

LEMMA StreamFailsIInv ==
  ASSUME IInv, NEW p \in Process, StreamFails(p)
  PROVE  IInv'
<1> USE DEF IInv, StreamFails, Trouble, Spend, At, In, ShouldStop, Goto, SendTo,
            serviceVars, clientVars, loopVars
<1>1. TypeOK'
  BY SetupsAssumption DEF TypeOK, home
<1>2. Places'
  BY SetupsAssumption DEF TypeOK, Places, home
<1>3. ReadyForAll'
  <2>1. \A e \in Consumer : pc'[e] = "waiting" => pc[e] = "waiting" /\ ~ShouldStop(e)'
    BY SetupsAssumption DEF TypeOK, ReadyForAll, home
  <2>2. stream'[p] # "open" /\ \A q \in Process \ {p} : stream'[q] = stream[q] /\ In(q, "waiting")' = In(q, "waiting")
            /\ buffer'[q] = buffer[q] /\ Ready(q)' = Ready(q)
    BY SetupsAssumption DEF TypeOK, Places, Ready, home
  <2>3. \A q \in Process : Len(buffer[q]) \in Nat
    BY ReadyFinite
  <2> QED BY <1>1, <2>1, <2>2, <2>3, StillReady
<1>4. OnceEach'
  <2>1. \A e \in Consumer : pc'[e] = "handle" <=> pc[e] = "handle"
    BY DEF TypeOK
  <2>2. \A q \in Process :
          stream'[q] = "open" /\ closing'[q] # "closed" =>
            stream[q] = "open" /\ closing[q] # "closed"
    BY DEF TypeOK
  <2>3. used'["slow"] = used["slow"]
    BY DEF TypeOK
  <2>4. UNCHANGED <<setup, buffer, inFlight>>
    OBVIOUS
  <2>5. \A s \in backlog' : s \in backlog \/ \A d \in Known : d.id # s.id
    OBVIOUS
  <2>6. \A e \in Consumer : hand'[e] = hand[e] \/ (hand'[e] = Nothing /\ pc[e] # "handle")
    OBVIOUS
  <2> QED BY <2>1, <2>2, <2>3, <2>4, <2>5, <2>6, StillOnce
<1>5. CloseFacts'
  BY SetupsAssumption DEF TypeOK, Places, CloseFacts, home
<1>6. Known' \subseteq Known
  BY SetupsAssumption DEF TypeOK, Known, Held, Buffered, home
<1>7. \A q \in Process : \A d \in acking'[q] : d \in acking[q] \/ d.msg \in done'
  BY SetupsAssumption DEF TypeOK, home, IdFacts, Known, Held
<1> QED BY <1>1, <1>2, <1>3, <1>4, <1>5, <1>6, <1>7, QuietIInv

LEMMA StreamErrorIInv ==
  ASSUME IInv, NEW p \in Process, StreamError(p)
  PROVE  IInv'
<1> USE DEF IInv, StreamError, Trouble, Spend, At, In, ShouldStop, Goto, SendTo,
            serviceVars, clientVars, loopVars
<1>1. TypeOK'
  BY SetupsAssumption DEF TypeOK, home
<1>2. Places'
  BY SetupsAssumption DEF TypeOK, Places, home
<1>3. ReadyForAll'
  <2>1. \A e \in Consumer : pc'[e] = "waiting" => ~ShouldStop(e)'
    BY SetupsAssumption DEF TypeOK, ReadyForAll, home
  <2>2. \A q \in Process :
          stream'[q] = "open" /\ In(q, "waiting")' # {} =>
            \/ buffer'[q] = <<>>
            \/ /\ stream[q] = "open" /\ In(q, "waiting") # {}
               /\ Len(buffer'[q]) <= Len(buffer[q])
               /\ Ready(q) \subseteq Ready(q)'
    BY SetupsAssumption DEF TypeOK, ReadyForAll, Places, Ready, home
  <2> QED BY <1>1, <2>1, <2>2, StillReady
<1>4. OnceEach'
  <2>1. \A e \in Consumer : pc'[e] = "handle" <=> pc[e] = "handle"
    BY DEF TypeOK
  <2>2. \A q \in Process :
          stream'[q] = "open" /\ closing'[q] # "closed" =>
            stream[q] = "open" /\ closing[q] # "closed"
    BY DEF TypeOK
  <2>3. used'["slow"] = used["slow"]
    BY DEF TypeOK
  <2>4. UNCHANGED <<setup, buffer, inFlight>>
    OBVIOUS
  <2>5. \A s \in backlog' : s \in backlog \/ \A d \in Known : d.id # s.id
    OBVIOUS
  <2>6. \A e \in Consumer : hand'[e] = hand[e] \/ (hand'[e] = Nothing /\ pc[e] # "handle")
    OBVIOUS
  <2> QED BY <2>1, <2>2, <2>3, <2>4, <2>5, <2>6, StillOnce
<1>5. CloseFacts'
  BY SetupsAssumption DEF TypeOK, Places, CloseFacts, home
<1>6. Known' \subseteq Known
  BY SetupsAssumption DEF TypeOK, Known, Held, Buffered, home
<1>7. \A q \in Process : \A d \in acking'[q] : d \in acking[q] \/ d.msg \in done'
  BY SetupsAssumption DEF TypeOK, home, IdFacts, Known, Held
<1> QED BY <1>1, <1>2, <1>3, <1>4, <1>5, <1>6, <1>7, QuietIInv

LEMMA ReturnIInv ==
  ASSUME IInv, NEW c \in Consumer, Return(c)
  PROVE  IInv'
<1> USE DEF IInv, Return, At, In, ShouldStop, Goto, SendTo,
            serviceVars, clientVars, loopVars
<1>1. TypeOK'
  BY SetupsAssumption DEF TypeOK, home
<1>2. Places'
  BY SetupsAssumption DEF TypeOK, Places, home
<1>3. ReadyForAll'
  <2>1. \A e \in Consumer : pc'[e] = "waiting" => ~ShouldStop(e)'
    BY SetupsAssumption DEF TypeOK, ReadyForAll, home
  <2>2. \A q \in Process :
          stream'[q] = "open" /\ In(q, "waiting")' # {} =>
            \/ buffer'[q] = <<>>
            \/ /\ stream[q] = "open" /\ In(q, "waiting") # {}
               /\ Len(buffer'[q]) <= Len(buffer[q])
               /\ Ready(q) \subseteq Ready(q)'
    BY SetupsAssumption DEF TypeOK, ReadyForAll, Places, Ready, home
  <2> QED BY <1>1, <2>1, <2>2, StillReady
<1>4. OnceEach'
  <2>1. \A e \in Consumer : pc'[e] = "handle" <=> pc[e] = "handle"
    BY DEF TypeOK
  <2>2. \A q \in Process :
          stream'[q] = "open" /\ closing'[q] # "closed" =>
            stream[q] = "open" /\ closing[q] # "closed"
    BY DEF TypeOK
  <2>3. used'["slow"] = used["slow"]
    BY DEF TypeOK
  <2>4. UNCHANGED <<setup, buffer, inFlight>>
    OBVIOUS
  <2>5. \A s \in backlog' : s \in backlog \/ \A d \in Known : d.id # s.id
    OBVIOUS
  <2>6. \A e \in Consumer : hand'[e] = hand[e] \/ (hand'[e] = Nothing /\ pc[e] # "handle")
    OBVIOUS
  <2> QED BY <2>1, <2>2, <2>3, <2>4, <2>5, <2>6, StillOnce
<1>5. CloseFacts'
  BY SetupsAssumption DEF TypeOK, Places, CloseFacts, home
<1>6. Known' \subseteq Known
  BY SetupsAssumption DEF TypeOK, Known, Held, Buffered, home
<1>7. \A q \in Process : \A d \in acking'[q] : d \in acking[q] \/ d.msg \in done'
  BY SetupsAssumption DEF TypeOK, home, IdFacts, Known, Held
<1> QED BY <1>1, <1>2, <1>3, <1>4, <1>5, <1>6, <1>7, QuietIInv

LEMMA ThrowIInv ==
  ASSUME IInv, NEW c \in Consumer, Throw(c)
  PROVE  IInv'
<1> USE DEF IInv, Throw, At, In, ShouldStop, Goto, SendTo,
            serviceVars, clientVars, loopVars
<1>1. TypeOK'
  BY SetupsAssumption DEF TypeOK, home
<1>2. Places'
  BY SetupsAssumption DEF TypeOK, Places, home
<1>3. ReadyForAll'
  <2>1. \A e \in Consumer : pc'[e] = "waiting" => ~ShouldStop(e)'
    BY SetupsAssumption DEF TypeOK, ReadyForAll, home
  <2>2. \A q \in Process :
          stream'[q] = "open" /\ In(q, "waiting")' # {} =>
            \/ buffer'[q] = <<>>
            \/ /\ stream[q] = "open" /\ In(q, "waiting") # {}
               /\ Len(buffer'[q]) <= Len(buffer[q])
               /\ Ready(q) \subseteq Ready(q)'
    BY SetupsAssumption DEF TypeOK, ReadyForAll, Places, Ready, home
  <2> QED BY <1>1, <2>1, <2>2, StillReady
<1>4. OnceEach'
  <2>1. \A e \in Consumer : pc'[e] = "handle" <=> pc[e] = "handle"
    BY DEF TypeOK
  <2>2. \A q \in Process :
          stream'[q] = "open" /\ closing'[q] # "closed" =>
            stream[q] = "open" /\ closing[q] # "closed"
    BY DEF TypeOK
  <2>3. used'["slow"] = used["slow"]
    BY DEF TypeOK
  <2>4. UNCHANGED <<setup, buffer, inFlight>>
    OBVIOUS
  <2>5. \A s \in backlog' : s \in backlog \/ \A d \in Known : d.id # s.id
    OBVIOUS
  <2>6. \A e \in Consumer : hand'[e] = hand[e] \/ (hand'[e] = Nothing /\ pc[e] # "handle")
    OBVIOUS
  <2> QED BY <2>1, <2>2, <2>3, <2>4, <2>5, <2>6, StillOnce
<1>5. CloseFacts'
  BY SetupsAssumption DEF TypeOK, Places, CloseFacts, home
<1>6. Known' \subseteq Known
  BY SetupsAssumption DEF TypeOK, Known, Held, Buffered, home
<1>7. \A q \in Process : \A d \in acking'[q] : d \in acking[q] \/ d.msg \in done'
  BY SetupsAssumption DEF TypeOK, home, IdFacts, Known, Held
<1> QED BY <1>1, <1>2, <1>3, <1>4, <1>5, <1>6, <1>7, QuietIInv

LEMMA WaitIInv ==
  ASSUME IInv, NEW c \in Consumer, Wait(c)
  PROVE  IInv'
<1> USE DEF IInv, Wait, MayTake, At, In, ShouldStop, Goto, SendTo,
            serviceVars, clientVars, loopVars
<1>1. TypeOK'
  BY SetupsAssumption DEF TypeOK, home
<1>2. Places'
  BY SetupsAssumption DEF TypeOK, Places, home
<1>3. ReadyForAll'
  <2>1. \A e \in Consumer : pc'[e] = "waiting" => ~ShouldStop(e)'
    BY SetupsAssumption DEF TypeOK, ReadyForAll, home
  <2>2. \A q \in Process :
          stream'[q] = "open" /\ In(q, "waiting")' # {} =>
            \/ buffer'[q] = <<>>
            \/ /\ stream[q] = "open" /\ In(q, "waiting") # {}
               /\ Len(buffer'[q]) <= Len(buffer[q])
               /\ Ready(q) \subseteq Ready(q)'
    BY SetupsAssumption DEF TypeOK, ReadyForAll, Places, Ready, home
  <2> QED BY <1>1, <2>1, <2>2, StillReady
<1>4. OnceEach'
  <2>1. \A e \in Consumer : pc'[e] = "handle" <=> pc[e] = "handle"
    BY DEF TypeOK
  <2>2. \A q \in Process :
          stream'[q] = "open" /\ closing'[q] # "closed" =>
            stream[q] = "open" /\ closing[q] # "closed"
    BY DEF TypeOK
  <2>3. used'["slow"] = used["slow"]
    BY DEF TypeOK
  <2>4. UNCHANGED <<setup, buffer, inFlight>>
    OBVIOUS
  <2>5. \A s \in backlog' : s \in backlog \/ \A d \in Known : d.id # s.id
    OBVIOUS
  <2>6. \A e \in Consumer : hand'[e] = hand[e] \/ (hand'[e] = Nothing /\ pc[e] # "handle")
    OBVIOUS
  <2> QED BY <2>1, <2>2, <2>3, <2>4, <2>5, <2>6, StillOnce
<1>5. CloseFacts'
  BY SetupsAssumption DEF TypeOK, Places, CloseFacts, home
<1>6. Known' \subseteq Known
  BY SetupsAssumption DEF TypeOK, Known, Held, Buffered, home
<1>7. \A q \in Process : \A d \in acking'[q] : d \in acking[q] \/ d.msg \in done'
  BY SetupsAssumption DEF TypeOK, home, IdFacts, Known, Held
<1> QED BY <1>1, <1>2, <1>3, <1>4, <1>5, <1>6, <1>7, QuietIInv

LEMMA YieldIInv ==
  ASSUME IInv, NEW c \in Consumer, Yield(c)
  PROVE  IInv'
<1> USE DEF IInv, Yield, MayTake, At, In, ShouldStop, Goto, SendTo,
            serviceVars, clientVars, loopVars
<1> DEFINE p == home[c]
           d == Head(buffer[p])
<1>0. p \in Process /\ c \in setup.loops /\ c \in Consumer /\ setup.loops \subseteq Consumer
  BY SetupsAssumption DEF TypeOK, Places, home
<1>a. /\ d \in Delivery /\ d \in Buffered(p)
      /\ Tail(buffer[p]) \in Seq(Delivery)
      /\ Len(buffer[p]) \in Nat \ {0} /\ Len(Tail(buffer[p])) = Len(buffer[p]) - 1
      /\ d = buffer[p][1]
      /\ \A i \in 1..Len(Tail(buffer[p])) :
           i + 1 \in 1..Len(buffer[p]) /\ Tail(buffer[p])[i] = buffer[p][i + 1]
  BY <1>0, HeadAndTail
<1>b. /\ buffer' = [buffer EXCEPT ![p] = Tail(buffer[p])]
      /\ \A q \in Process : buffer'[q] = IF q = p THEN Tail(buffer[p]) ELSE buffer[q]
  BY DEF TypeOK
<1>c. /\ inFlight' = [inFlight EXCEPT ![p] = {e \in @ : e.id # d.id} \union {d}]
      /\ hand' = [hand EXCEPT ![c] = d]
      /\ pc' = [pc EXCEPT ![c] = "handle"]
      /\ UNCHANGED <<setup, serviceVars, stream, acking, closing, aborted, used, sent, done>>
      /\ pc[c] = "loop" /\ hand[c] = Nothing /\ stream[p] = "open" /\ closing[p] = "open"
  BY DEF TypeOK, IdFacts
<1> HIDE DEF d
<1>d. /\ \A e \in Consumer : hand'[e] = IF e = c THEN d ELSE hand[e]
      /\ \A e \in Consumer : pc'[e] = IF e = c THEN "handle" ELSE pc[e]
  BY <1>0, <1>c DEF TypeOK
<1>e. /\ \A q \in Process : q # p => inFlight'[q] = inFlight[q]
      /\ inFlight'[p] = {e \in inFlight[p] : e.id # d.id} \union {d}
  BY <1>0, <1>c DEF TypeOK
<1>f. d # Nothing
  BY <1>a, NamesAssumption DEF Delivery
<1> HIDE DEF Yield
<1>1. TypeOK'
  <2>1. buffer' \in [Process -> Seq(Delivery)]
    BY <1>a, <1>b DEF TypeOK
  <2>2. inFlight' \in [Process -> SUBSET Delivery]
    BY <1>0, <1>a, <1>c DEF TypeOK
  <2>3. hand' \in [Consumer -> Delivery \union {Nothing}]
    BY <1>a, <1>c DEF TypeOK
  <2>4. \A q \in Process : \A e, f \in inFlight'[q] : e.id = f.id => e = f
    <3>1. ASSUME NEW q \in Process, q # p, NEW e \in inFlight'[q], NEW f \in inFlight'[q], e.id = f.id
          PROVE  e = f
      BY <1>e, <3>1 DEF TypeOK
    <3>2. ASSUME NEW e \in inFlight'[p], NEW f \in inFlight'[p], e.id = f.id
          PROVE  e = f
      BY <1>0, <1>e, <3>2 DEF TypeOK
    <3> QED BY <3>1, <3>2
  <2>5. \A e \in Consumer : hand'[e] # Nothing <=> pc'[e] \in {"handle", "publishing"}
    BY <1>d, <1>f, <1>c DEF TypeOK
  <2> QED BY <1>c, <2>1, <2>2, <2>3, <2>4, <2>5 DEF TypeOK
<1>2. Places'
  <2>1. /\ \A e \in Consumer \ setup'.loops : pc'[e] = "returned"
        /\ \A e \in setup'.loops : pc'[e] = "crashed" =>
             /\ stream'[home[e]] = "none" /\ acking'[home[e]] = {}
             /\ \A f \in setup'.loops : home[f] = home[e] => pc'[f] = "crashed"
    BY <1>0, <1>c, <1>d DEF TypeOK, Places, home
  <2>2. ASSUME NEW q \in Process, stream'[q] \in {"none", "starting", "failed"}
        PROVE  /\ buffer'[q] = <<>> /\ inFlight'[q] = {}
               /\ \A e \in At(q) : pc'[e] \notin {"waiting", "handle", "publishing"}
    <3>1. q # p
      BY <1>c, <2>2
    <3>2. \A e \in At(q) : e \in Consumer /\ e # c
      BY <1>0, <3>1
    <3> QED BY <1>b, <1>c, <1>d, <1>e, <2>2, <3>1, <3>2 DEF Places
  <2> QED BY <1>c, <2>1, <2>2 DEF Places, home
<1>3. ReadyForAll'
  <2>1. \A e \in Consumer : pc'[e] = "waiting" => ~ShouldStop(e)'
    BY <1>c, <1>d DEF TypeOK, ReadyForAll, home
  <2>2. ASSUME NEW q \in Process, stream'[q] = "open", In(q, "waiting")' # {}
        PROVE  Len(buffer'[q]) <= Cardinality(Ready(q)')
    <3>1. stream[q] = "open" /\ In(q, "waiting") # {}
      BY <2>2, <1>c, <1>d DEF TypeOK, home
    <3>2. /\ Len(buffer[q]) <= Cardinality(Ready(q))
          /\ IsFiniteSet(Ready(q)) /\ Cardinality(Ready(q)) \in Nat
      BY <3>1, ReadyFinite DEF ReadyForAll
    <3>3. Ready(q)' = Ready(q) \ {c}
      BY <1>c, <1>d DEF TypeOK, Ready, home
    <3>4. CASE q = p
      <4>1. c \in Ready(q)
        BY <1>0, <1>c, <3>4 DEF Ready, Yield
      <4>2. Cardinality(Ready(q)') = Cardinality(Ready(q)) - 1
        BY <3>2, <3>3, <4>1, FS_RemoveElement
      <4>3. Len(buffer'[q]) = Len(buffer[q]) - 1 /\ Len(buffer[q]) \in Nat
        BY <1>0, <1>a, <1>b, <3>4
      <4> QED BY <3>2, <4>2, <4>3
    <3>5. CASE q # p
      <4>1. Ready(q)' = Ready(q) /\ buffer'[q] = buffer[q]
        BY <1>b, <3>3, <3>5 DEF Ready, home
      <4> QED BY <3>2, <4>1
    <3> QED BY <3>4, <3>5
  <2> QED BY <2>1, <2>2 DEF ReadyForAll
<1>4. OnceEach'
  <2> SUFFICES ASSUME used["slow"] = 0, NEW q \in Process
               PROVE  /\ \A i, j \in 1..Len(buffer'[q]) : buffer'[q][i].id = buffer'[q][j].id => i = j
                      /\ \A e \in At(q) : hand'[e] # Nothing =>
                           /\ \A i \in 1..Len(buffer'[q]) : buffer'[q][i].id # hand'[e].id
                           /\ \A f \in At(q) : hand'[f] # Nothing /\ hand'[f].id = hand'[e].id => e = f
                           /\ pc'[e] = "handle" => hand'[e] \in inFlight'[q]
                      /\ \A f \in inFlight'[q] : \E e \in At(q) : pc'[e] = "handle" /\ hand'[e] = f
                      /\ stream[q] = "open" /\ closing[q] # "closed" =>
                           /\ \A i \in 1..Len(buffer'[q]) : StillLeased(q, buffer'[q][i])
                           /\ \A e \in At(q) : hand'[e] # Nothing => StillLeased(q, hand'[e])
    <3>1. UNCHANGED <<setup, backlog, stream, closing, used, home>>
      BY <1>c DEF home
    <3> QED BY <3>1 DEF OnceEach, StillLeased
  <2>1. CASE q # p
    <3>1. \A e \in At(q) : e \in Consumer /\ hand'[e] = hand[e] /\ pc'[e] = pc[e]
      BY <1>0, <1>d, <2>1
    <3>2. buffer'[q] = buffer[q] /\ inFlight'[q] = inFlight[q]
      BY <1>b, <1>e, <2>1
    <3> QED BY <3>1, <3>2 DEF OnceEach
  <2>2. CASE q = p
    <3>a. \A i, j \in 1..Len(buffer[p]) : buffer[p][i].id = buffer[p][j].id => i = j
      BY <1>0 DEF OnceEach
    <3>0. /\ \A i \in 1..Len(buffer'[p]) : i + 1 \in 1..Len(buffer[p]) /\ i + 1 # 1
                                             /\ buffer'[p][i] = buffer[p][i + 1]
          /\ 1 \in 1..Len(buffer[p]) /\ d = buffer[p][1]
          /\ \A i \in 1..Len(buffer'[p]) : i \in Nat
      <4>1. buffer'[p] = Tail(buffer[p])
        BY <1>0, <1>b
      <4> QED BY <1>a, <4>1
    <3>b. \A i, j \in 1..Len(buffer'[p]) : buffer'[p][i].id = buffer'[p][j].id => i = j
      <4> SUFFICES ASSUME NEW i \in 1..Len(buffer'[p]), NEW j \in 1..Len(buffer'[p]),
                          buffer'[p][i].id = buffer'[p][j].id
                   PROVE  i = j
        OBVIOUS
      <4>0. /\ i + 1 \in 1..Len(buffer[p]) /\ j + 1 \in 1..Len(buffer[p])
            /\ buffer[p][i + 1].id = buffer[p][j + 1].id
        BY <3>0
      <4>1. i + 1 = j + 1
        BY <3>a, <4>0
      <4> QED BY <3>0, <4>1
    <3>c. \A i \in 1..Len(buffer'[p]) : buffer'[p][i].id # d.id
      BY <3>0, <3>a, SMTT(30)
    <3>1. /\ \A i, j \in 1..Len(buffer'[p]) : buffer'[p][i].id = buffer'[p][j].id => i = j
          /\ \A i \in 1..Len(buffer'[p]) : buffer'[p][i].id # d.id
      BY <3>b, <3>c
    <3>2. \A e \in At(p) : hand[e] # Nothing => hand[e].id # d.id
      BY <1>0, <3>0 DEF OnceEach
    <3>3. \A e \in At(p) : hand'[e] # Nothing =>
            /\ \A i \in 1..Len(buffer'[p]) : buffer'[p][i].id # hand'[e].id
            /\ \A f \in At(p) : hand'[f] # Nothing /\ hand'[f].id = hand'[e].id => e = f
            /\ pc'[e] = "handle" => hand'[e] \in inFlight'[p]
      <4> SUFFICES ASSUME NEW e \in At(p), hand'[e] # Nothing
                   PROVE  /\ \A i \in 1..Len(buffer'[p]) : buffer'[p][i].id # hand'[e].id
                          /\ \A f \in At(p) : hand'[f] # Nothing /\ hand'[f].id = hand'[e].id => e = f
                          /\ pc'[e] = "handle" => hand'[e] \in inFlight'[p]
        OBVIOUS
      <4>0. At(p) \subseteq Consumer
        BY <1>0
      <4>1. CASE e = c
        BY <1>0, <1>d, <1>e, <3>1, <3>2, <4>0, <4>1
      <4>2. CASE e # c
        <5>1. hand'[e] = hand[e] /\ pc'[e] = pc[e] /\ hand[e].id # d.id
          BY <1>d, <3>2, <4>0, <4>2
        <5>2. \A i \in 1..Len(buffer'[p]) : buffer'[p][i].id # hand'[e].id
          BY <1>0, <3>0, <5>1, SMTT(30) DEF OnceEach
        <5>3. \A f \in At(p) : hand'[f] # Nothing /\ hand'[f].id = hand'[e].id => e = f
          BY <1>0, <1>d, <4>0, <5>1 DEF OnceEach
        <5>4. pc'[e] = "handle" => hand'[e] \in inFlight'[p]
          BY <1>0, <1>e, <5>1 DEF OnceEach
        <5> QED BY <5>2, <5>3, <5>4
      <4> QED BY <4>1, <4>2
    <3>4. \A f \in inFlight'[p] : \E e \in At(p) : pc'[e] = "handle" /\ hand'[e] = f
      BY <1>0, <1>c, <1>d, <1>e, <3>2, KnownParts DEF OnceEach
    <3>5. stream[p] = "open" /\ closing[p] # "closed" =>
            /\ \A i \in 1..Len(buffer'[p]) : StillLeased(p, buffer'[p][i])
            /\ \A e \in At(p) : hand'[e] # Nothing => StillLeased(p, hand'[e])
      BY <1>0, <1>d, <3>0 DEF OnceEach
    <3> QED BY <2>2, <3>1, <3>3, <3>4, <3>5
  <2> QED BY <2>1, <2>2
<1>5. CloseFacts'
  BY <1>c, <1>d, <1>e DEF TypeOK, CloseFacts, home
<1>6. Known' \subseteq Known
  <2>1. d \in Known
    BY <1>0, <1>a, KnownParts
  <2>2. \A q \in Process : Buffered(q)' \subseteq Buffered(q)
    BY <1>a, <1>b DEF Buffered
  <2>3. \A q \in Process : /\ Buffered(q)' \subseteq Known /\ inFlight'[q] \subseteq Known
                           /\ acking'[q] \subseteq Known
    BY <1>0, <1>c, <1>e, <2>1, <2>2, KnownParts
  <2>4. \A e \in Consumer : hand'[e] \in Known \union {Nothing}
    BY <1>d, <2>1, KnownParts
  <2> QED BY <2>3, <2>4, NothingNew
<1>7. \A q \in Process : \A e \in acking'[q] : e \in acking[q] \/ e.msg \in done'
  BY <1>c
<1>8. UNCHANGED <<backlog, nextId, sent>> /\ done \subseteq done'
  BY <1>c
<1> QED BY <1>1, <1>2, <1>3, <1>4, <1>5, <1>6, <1>7, <1>8, QuietIInv

LEMMA DiscardIInv ==
  ASSUME IInv, NEW c \in Consumer, Discard(c)
  PROVE  IInv'
<1> USE DEF IInv, Discard, MayTake, At, In, ShouldStop, Goto, SendTo,
            serviceVars, clientVars, loopVars
<1> DEFINE p == home[c]
           d == Head(buffer[p])
<1>0. p \in Process /\ c \in setup.loops /\ c \in Consumer /\ setup.loops \subseteq Consumer
  BY SetupsAssumption DEF TypeOK, Places, home
<1>a. /\ d \in Delivery /\ d \in Buffered(p)
      /\ Tail(buffer[p]) \in Seq(Delivery)
      /\ Len(buffer[p]) \in Nat \ {0} /\ Len(Tail(buffer[p])) = Len(buffer[p]) - 1
      /\ d = buffer[p][1]
      /\ \A i \in 1..Len(Tail(buffer[p])) :
           i + 1 \in 1..Len(buffer[p]) /\ Tail(buffer[p])[i] = buffer[p][i + 1]
  BY <1>0, HeadAndTail
<1>b. /\ buffer' = [buffer EXCEPT ![p] = Tail(buffer[p])]
      /\ \A q \in Process : buffer'[q] = IF q = p THEN Tail(buffer[p]) ELSE buffer[q]
  BY DEF TypeOK
<1>c. /\ acking' = [acking EXCEPT ![p] = @ \union {d}]
      /\ done' = done \union {d.msg}
      /\ UNCHANGED <<setup, serviceVars, stream, inFlight, closing, loopVars, aborted, used, sent>>
      /\ pc[c] = "loop" /\ stream[p] = "open" /\ closing[p] = "open"
  BY DEF TypeOK, IdFacts
<1> HIDE DEF d
<1>d. /\ \A q \in Process : acking'[q] = IF q = p THEN acking[q] \union {d} ELSE acking[q]
      /\ d.msg \in Message
  <2>1. d \in Delivery /\ acking \in [Process -> SUBSET Delivery]
    BY <1>0, <1>a DEF TypeOK
  <2> QED BY <1>c, <2>1 DEF Delivery
<1> HIDE DEF Discard
<1>1. TypeOK'
  <2>1. buffer' \in [Process -> Seq(Delivery)]
    BY <1>a, <1>b DEF TypeOK
  <2>2. acking' \in [Process -> SUBSET Delivery]
    BY <1>0, <1>a, <1>c DEF TypeOK
  <2> QED BY <1>c, <1>d, <2>1, <2>2 DEF TypeOK
<1>2. Places'
  <2>1. /\ \A e \in Consumer \ setup'.loops : pc'[e] = "returned"
        /\ \A e \in setup'.loops : pc'[e] = "crashed" =>
             /\ stream'[home[e]] = "none" /\ acking'[home[e]] = {}
             /\ \A f \in setup'.loops : home[f] = home[e] => pc'[f] = "crashed"
    BY <1>0, <1>c, <1>d DEF TypeOK, Places, home
  <2>2. ASSUME NEW q \in Process, stream'[q] \in {"none", "starting", "failed"}
        PROVE  /\ buffer'[q] = <<>> /\ inFlight'[q] = {}
               /\ \A e \in At(q) : pc'[e] \notin {"waiting", "handle", "publishing"}
    <3>1. q # p
      BY <1>c, <2>2
    <3>2. \A e \in At(q) : e \in Consumer /\ e # c
      BY <1>0, <3>1
    <3> QED BY <1>b, <1>c, <2>2, <3>1, <3>2 DEF Places
  <2> QED BY <1>c, <2>1, <2>2 DEF Places, home
<1>3. ReadyForAll'
  <2>1. \A e \in Consumer : pc'[e] = "waiting" => ~ShouldStop(e)'
    BY <1>c, <1>d DEF TypeOK, ReadyForAll, home
  <2>2. \A q \in Process :
          /\ stream'[q] = stream[q] /\ In(q, "waiting")' = In(q, "waiting")
          /\ Len(buffer'[q]) <= Len(buffer[q])
          /\ Ready(q) \subseteq Ready(q)'
    BY <1>a, <1>b, <1>c, ReadyFinite DEF TypeOK, Ready, home
  <2> QED BY <1>1, <2>1, <2>2, StillReady
<1>4. OnceEach'
  <2> SUFFICES ASSUME used["slow"] = 0, NEW q \in Process
               PROVE  /\ \A i, j \in 1..Len(buffer'[q]) : buffer'[q][i].id = buffer'[q][j].id => i = j
                      /\ \A e \in At(q) : hand[e] # Nothing =>
                           \A i \in 1..Len(buffer'[q]) : buffer'[q][i].id # hand[e].id
                      /\ stream[q] = "open" /\ closing[q] # "closed" =>
                           \A i \in 1..Len(buffer'[q]) : StillLeased(q, buffer'[q][i])
    BY <1>c DEF OnceEach, home, StillLeased, Leases, Of
  <2>1. CASE q # p
    BY <1>b, <2>1 DEF OnceEach
  <2>2. CASE q = p
    <3>a. \A i, j \in 1..Len(buffer[p]) : buffer[p][i].id = buffer[p][j].id => i = j
      BY <1>0 DEF OnceEach
    <3>0. \A i \in 1..Len(buffer'[p]) : /\ i \in Nat /\ i + 1 \in 1..Len(buffer[p])
                                        /\ buffer'[p][i] = buffer[p][i + 1]
      <4>1. buffer'[p] = Tail(buffer[p])
        BY <1>0, <1>b
      <4> QED BY <1>a, <4>1
    <3>1. \A i, j \in 1..Len(buffer'[p]) : buffer'[p][i].id = buffer'[p][j].id => i = j
      <4> SUFFICES ASSUME NEW i \in 1..Len(buffer'[p]), NEW j \in 1..Len(buffer'[p]),
                          buffer'[p][i].id = buffer'[p][j].id
                   PROVE  i = j
        OBVIOUS
      <4>0. /\ i + 1 \in 1..Len(buffer[p]) /\ j + 1 \in 1..Len(buffer[p])
            /\ buffer[p][i + 1].id = buffer[p][j + 1].id
        BY <3>0
      <4>1. i + 1 = j + 1
        BY <3>a, <4>0
      <4> QED BY <3>0, <4>1
    <3>2. \A e \in At(p) : hand[e] # Nothing =>
            \A i \in 1..Len(buffer'[p]) : buffer'[p][i].id # hand[e].id
      BY <1>0, <3>0, SMTT(30) DEF OnceEach
    <3>3. stream[p] = "open" /\ closing[p] # "closed" =>
            \A i \in 1..Len(buffer'[p]) : StillLeased(p, buffer'[p][i])
      BY <1>0, <3>0 DEF OnceEach
    <3> QED BY <2>2, <3>1, <3>2, <3>3
  <2> QED BY <2>1, <2>2
<1>5. CloseFacts'
  BY <1>c, <1>d DEF TypeOK, CloseFacts, home
<1>6. Known' \subseteq Known
  <2>1. d \in Known
    BY <1>0, <1>a, KnownParts
  <2>2. \A q \in Process : Buffered(q)' \subseteq Buffered(q)
    BY <1>a, <1>b DEF Buffered
  <2>3. \A q \in Process : /\ Buffered(q)' \subseteq Known /\ inFlight'[q] \subseteq Known
                           /\ acking'[q] \subseteq Known
    BY <1>c, <1>d, <2>1, <2>2, KnownParts
  <2>4. \A e \in Consumer : hand'[e] \in Known \union {Nothing}
    BY <1>c, KnownParts
  <2> QED BY <2>3, <2>4, NothingNew
<1>7. \A q \in Process : \A e \in acking'[q] : e \in acking[q] \/ e.msg \in done'
  BY <1>c, <1>d
<1>8. UNCHANGED <<backlog, nextId, sent>> /\ done \subseteq done'
  BY <1>c
<1> QED BY <1>1, <1>2, <1>3, <1>4, <1>5, <1>6, <1>7, <1>8, QuietIInv

LEMMA AbortIInv ==
  ASSUME IInv, NEW c \in Consumer, Abort(c)
  PROVE  IInv'
<1> USE DEF IInv, Abort, At, In, ShouldStop, Goto, SendTo,
            serviceVars, clientVars, loopVars
<1>1. TypeOK'
  BY SetupsAssumption DEF TypeOK, home
<1>2. Places'
  BY SetupsAssumption DEF TypeOK, Places, home
<1>3. ReadyForAll'
  <2>1. \A e \in Consumer : pc'[e] = "waiting" => ~ShouldStop(e)'
    BY SetupsAssumption DEF TypeOK, ReadyForAll, home
  <2>2. \A q \in Process :
          stream'[q] = "open" /\ In(q, "waiting")' # {} =>
            \/ buffer'[q] = <<>>
            \/ /\ stream[q] = "open" /\ In(q, "waiting") # {}
               /\ Len(buffer'[q]) <= Len(buffer[q])
               /\ Ready(q) \subseteq Ready(q)'
    BY SetupsAssumption DEF TypeOK, ReadyForAll, Places, Ready, home
  <2> QED BY <1>1, <2>1, <2>2, StillReady
<1>4. OnceEach'
  <2>1. \A e \in Consumer : pc'[e] = "handle" <=> pc[e] = "handle"
    BY DEF TypeOK
  <2>2. \A q \in Process :
          stream'[q] = "open" /\ closing'[q] # "closed" =>
            stream[q] = "open" /\ closing[q] # "closed"
    BY DEF TypeOK
  <2>3. used'["slow"] = used["slow"]
    BY DEF TypeOK
  <2>4. UNCHANGED <<setup, buffer, inFlight>>
    OBVIOUS
  <2>5. \A s \in backlog' : s \in backlog \/ \A d \in Known : d.id # s.id
    OBVIOUS
  <2>6. \A e \in Consumer : hand'[e] = hand[e] \/ (hand'[e] = Nothing /\ pc[e] # "handle")
    OBVIOUS
  <2> QED BY <2>1, <2>2, <2>3, <2>4, <2>5, <2>6, StillOnce
<1>5. CloseFacts'
  BY SetupsAssumption DEF TypeOK, Places, CloseFacts, home
<1>6. Known' \subseteq Known
  BY SetupsAssumption DEF TypeOK, Known, Held, Buffered, home
<1>7. \A q \in Process : \A d \in acking'[q] : d \in acking[q] \/ d.msg \in done'
  BY SetupsAssumption DEF TypeOK, home, IdFacts, Known, Held
<1> QED BY <1>1, <1>2, <1>3, <1>4, <1>5, <1>6, <1>7, QuietIInv

LEMMA AckIInv ==
  ASSUME IInv, NEW c \in Consumer, Ack(c)
  PROVE  IInv'
<1> USE DEF IInv, Ack, Settled, AskNext, At, In, ShouldStop, Goto, SendTo,
            serviceVars, clientVars, loopVars
<1> DEFINE p == home[c]
           S == Settled(c)
<1>0. /\ p \in Process /\ c \in setup.loops /\ setup.loops \subseteq Consumer
      /\ hand[c] \in Delivery /\ hand[c] # Nothing
  BY SetupsAssumption DEF TypeOK, Places, home
<1>a. /\ S = {d \in inFlight[p] : d.id = hand[c].id}
      /\ S \subseteq Delivery /\ S \subseteq inFlight[p]
      /\ \A d \in S : d.id = hand[c].id /\ d.msg = hand[c].msg
  <2>1. S = {d \in inFlight[p] : d.id = hand[c].id} /\ S \subseteq Delivery
    BY <1>0 DEF TypeOK
  <2> QED BY <1>0, <2>1, KnownParts DEF IdFacts
<1> HIDE DEF S
<1>b. /\ inFlight' = [inFlight EXCEPT ![p] = @ \ S]
      /\ acking' = [acking EXCEPT ![p] = @ \union S]
      /\ done' = done \union {hand[c].msg}
      /\ pc' = [pc EXCEPT ![c] = "loop"] /\ hand' = [hand EXCEPT ![c] = Nothing]
      /\ UNCHANGED <<setup, serviceVars, stream, buffer, closing, aborted, used, sent>>
      /\ pc[c] = "handle"
  BY DEF S
<1>c. /\ \A e \in Consumer : hand'[e] = IF e = c THEN Nothing ELSE hand[e]
      /\ \A e \in Consumer : pc'[e] = IF e = c THEN "loop" ELSE pc[e]
  BY <1>0, <1>b DEF TypeOK
<1>d. /\ \A q \in Process : q # p => inFlight'[q] = inFlight[q] /\ acking'[q] = acking[q]
      /\ inFlight'[p] = inFlight[p] \ S /\ acking'[p] = acking[p] \union S
  BY <1>0, <1>b DEF TypeOK
<1> HIDE DEF Ack
<1>1. TypeOK'
  <2>1. /\ acking' \in [Process -> SUBSET Delivery]
        /\ inFlight' \in [Process -> SUBSET Delivery]
    BY <1>0, <1>a, <1>b DEF TypeOK
  <2>2. \A q \in Process : \A e, f \in inFlight'[q] : e.id = f.id => e = f
    BY <1>0, <1>d DEF TypeOK
  <2>3. hand[c].msg \in Message
    BY <1>0 DEF Delivery
  <2> QED BY <1>b, <1>c, <2>1, <2>2, <2>3 DEF TypeOK
<1>2. Places'
  BY <1>0, <1>b, <1>c, <1>d DEF TypeOK, Places, home
<1>3. ReadyForAll'
  <2>1. \A e \in Consumer : pc'[e] = "waiting" => ~ShouldStop(e)'
    BY <1>b, <1>c, <1>d DEF TypeOK, ReadyForAll, home
  <2>2. \A q \in Process :
          /\ stream'[q] = stream[q] /\ In(q, "waiting")' = In(q, "waiting")
          /\ Len(buffer'[q]) <= Len(buffer[q])
          /\ Ready(q) \subseteq Ready(q)'
    BY <1>b, <1>c, ReadyFinite DEF TypeOK, Ready, home
  <2> QED BY <1>1, <2>1, <2>2, StillReady
<1>4. OnceEach'
  <2> SUFFICES ASSUME used["slow"] = 0, NEW q \in Process
               PROVE  /\ \A e \in At(q) : hand'[e] # Nothing =>
                           /\ hand'[e] = hand[e]
                           /\ \A i \in 1..Len(buffer[q]) : buffer[q][i].id # hand'[e].id
                           /\ \A f \in At(q) : hand'[f] # Nothing /\ hand'[f].id = hand'[e].id => e = f
                           /\ pc'[e] = "handle" => hand'[e] \in inFlight'[q]
                      /\ \A f \in inFlight'[q] : \E e \in At(q) : pc'[e] = "handle" /\ hand'[e] = f
    BY <1>b DEF OnceEach, home, StillLeased, Leases, Of
  <2>1. \A e \in At(q) : hand'[e] # Nothing => hand'[e] = hand[e] /\ e # c
    BY <1>c, SetupsAssumption DEF TypeOK
  <2>2. \A e \in At(q) : hand'[e] # Nothing =>
                           /\ \A i \in 1..Len(buffer[q]) : buffer[q][i].id # hand'[e].id
                           /\ \A f \in At(q) : hand'[f] # Nothing /\ hand'[f].id = hand'[e].id => e = f
    BY <2>1 DEF OnceEach
  <2>3. ASSUME NEW e \in At(q), hand'[e] # Nothing, pc'[e] = "handle"
        PROVE  hand'[e] \in inFlight'[q]
    <3>1. pc[e] = "handle" /\ hand[e] \in inFlight[q] /\ e # c /\ hand[e] # Nothing
      BY <1>c, <2>1, <2>3, SetupsAssumption DEF TypeOK, OnceEach
    <3>2. q = p => hand[e].id # hand[c].id
      BY <1>0, <3>1, <2>3 DEF OnceEach
    <3> QED BY <1>0, <1>a, <1>d, <2>1, <2>3, <3>1, <3>2
  <2>4. ASSUME NEW f \in inFlight'[q]
        PROVE  \E e \in At(q) : pc'[e] = "handle" /\ hand'[e] = f
    <3>1. f \in inFlight[q] /\ (q = p => f.id # hand[c].id)
      BY <1>0, <1>a, <1>d, <2>4
    <3>2. PICK e \in At(q) : pc[e] = "handle" /\ hand[e] = f
      BY <3>1 DEF OnceEach
    <3>3. e # c /\ e \in Consumer
      BY <3>1, <3>2, SetupsAssumption DEF TypeOK
    <3> QED BY <1>c, <3>2, <3>3
  <2> QED BY <2>1, <2>2, <2>3, <2>4
<1>5. CloseFacts'
  BY <1>a, <1>b, <1>c, <1>d DEF TypeOK, CloseFacts, home
<1>6. Known' \subseteq Known
  <2>1. \A q \in Process : /\ Buffered(q)' \subseteq Known /\ inFlight'[q] \subseteq Known
                           /\ acking'[q] \subseteq Known
    BY <1>0, <1>a, <1>b, <1>d, KnownParts DEF Buffered
  <2>2. \A e \in Consumer : hand'[e] \in Known \union {Nothing}
    BY <1>c, KnownParts
  <2> QED BY <2>1, <2>2, NothingNew
<1>7. \A q \in Process : \A e \in acking'[q] : e \in acking[q] \/ e.msg \in done'
  BY <1>0, <1>a, <1>b, <1>d
<1>8. UNCHANGED <<backlog, nextId, sent>> /\ done \subseteq done'
  BY <1>b
<1> QED BY <1>1, <1>2, <1>3, <1>4, <1>5, <1>6, <1>7, <1>8, QuietIInv

LEMMA RejectIInv ==
  ASSUME IInv, NEW c \in Consumer, Reject(c)
  PROVE  IInv'
<1> USE DEF IInv, Reject, Settled, AskNext, Spend, At, In, ShouldStop, Goto, SendTo,
            serviceVars, clientVars, loopVars
<1> DEFINE p == home[c]
           S == Settled(c)
<1>0. /\ p \in Process /\ c \in setup.loops /\ setup.loops \subseteq Consumer
      /\ hand[c] \in Delivery /\ hand[c] # Nothing
  BY SetupsAssumption DEF TypeOK, Places, home
<1>a. /\ S = {d \in inFlight[p] : d.id = hand[c].id}
      /\ S \subseteq Delivery /\ S \subseteq inFlight[p]
      /\ \A d \in S : d.id = hand[c].id /\ d.msg = hand[c].msg
  <2>1. S = {d \in inFlight[p] : d.id = hand[c].id} /\ S \subseteq Delivery
    BY <1>0 DEF TypeOK
  <2> QED BY <1>0, <2>1, KnownParts DEF IdFacts
<1> HIDE DEF S
<1>b. /\ inFlight' = [inFlight EXCEPT ![p] = @ \ S]
      /\ \/ S = {} /\ pc' = [pc EXCEPT ![c] = "loop"] /\ hand' = [hand EXCEPT ![c] = Nothing]
         \/ \E d \in S : pc' = [pc EXCEPT ![c] = "publishing"] /\ hand' = [hand EXCEPT ![c] = d]
      /\ UNCHANGED <<setup, serviceVars, stream, buffer, acking, closing, aborted, sent, done>>
      /\ pc[c] = "handle"
  BY DEF S
<1>c. /\ \A e \in Consumer : e # c => hand'[e] = hand[e] /\ pc'[e] = pc[e]
      /\ \/ S = {} /\ pc'[c] = "loop" /\ hand'[c] = Nothing
         \/ hand'[c] \in S /\ pc'[c] = "publishing"
  BY <1>0, <1>b DEF TypeOK
<1>d. /\ \A q \in Process : q # p => inFlight'[q] = inFlight[q]
      /\ inFlight'[p] = inFlight[p] \ S
  BY <1>0, <1>b DEF TypeOK
<1>e. used' \in [{"rejects", "troubles", "slow"} -> Nat] /\ used'["slow"] = used["slow"]
  BY DEF TypeOK
<1>f. /\ pc' \in [Consumer -> {"idle", "starting", "loop", "waiting", "handle", "publishing",
                               "returned", "threw", "crashed"}]
      /\ hand' \in [Consumer -> Delivery \union {Nothing}]
  <2>1. CASE S = {} /\ pc' = [pc EXCEPT ![c] = "loop"] /\ hand' = [hand EXCEPT ![c] = Nothing]
    BY <2>1 DEF TypeOK
  <2>2. ASSUME NEW d \in S, pc' = [pc EXCEPT ![c] = "publishing"], hand' = [hand EXCEPT ![c] = d]
        PROVE  /\ pc' \in [Consumer -> {"idle", "starting", "loop", "waiting", "handle", "publishing",
                               "returned", "threw", "crashed"}]
               /\ hand' \in [Consumer -> Delivery \union {Nothing}]
    BY <1>a, <2>2 DEF TypeOK
  <2> QED BY <1>b, <2>1, <2>2
<1> HIDE DEF Reject
<1>1. TypeOK'
  <2>1. inFlight' \in [Process -> SUBSET Delivery]
    BY <1>0, <1>a, <1>b DEF TypeOK
  <2>2. \A q \in Process : \A e, f \in inFlight'[q] : e.id = f.id => e = f
    BY <1>0, <1>d DEF TypeOK
  <2>3. \A e \in Consumer : hand'[e] # Nothing <=> pc'[e] \in {"handle", "publishing"}
    BY <1>a, <1>c, NamesAssumption, SMTT(30) DEF TypeOK, Delivery
  <2> QED BY <1>b, <1>e, <1>f, <2>1, <2>2, <2>3 DEF TypeOK
<1>2. Places'
  BY <1>0, <1>b, <1>c, <1>d DEF TypeOK, Places, home
<1>3. ReadyForAll'
  <2>1. \A e \in Consumer : pc'[e] = "waiting" => ~ShouldStop(e)'
    BY <1>b, <1>c DEF TypeOK, ReadyForAll, home
  <2>2. ASSUME NEW q \in Process
        PROVE  /\ stream'[q] = stream[q] /\ In(q, "waiting")' = In(q, "waiting")
               /\ Len(buffer'[q]) <= Len(buffer[q])
               /\ Ready(q) \subseteq Ready(q)'
    <3>1. \A e \in setup.loops : e \in Consumer /\ (e # c => pc'[e] = pc[e])
      BY <1>0, <1>c
    <3>2. pc'[c] # "waiting" /\ pc[c] = "handle"
      BY <1>b, <1>c
    <3> QED BY <1>b, <3>1, <3>2, ReadyFinite DEF Ready, home
  <2> QED BY <1>1, <2>1, <2>2, StillReady
<1>4. OnceEach'
  <2> SUFFICES ASSUME used["slow"] = 0, NEW q \in Process
               PROVE  /\ \A e \in At(q) : hand'[e] # Nothing =>
                           /\ hand[e] # Nothing /\ hand'[e].id = hand[e].id
                           /\ (stream[q] = "open" /\ closing[q] # "closed"
                                 => StillLeased(q, hand'[e]))
                           /\ pc'[e] = "handle" => hand'[e] \in inFlight'[q]
                      /\ \A f \in inFlight'[q] : \E e \in At(q) : pc'[e] = "handle" /\ hand'[e] = f
    BY <1>b, <1>e DEF OnceEach, home, StillLeased, Leases, Of
  <2>0. hand[c] \in inFlight[p] /\ (hand'[c] # Nothing => hand'[c] = hand[c])
    BY <1>0, <1>a, <1>b, <1>c, <1>d DEF OnceEach, TypeOK
  <2>1. \A e \in At(q) : hand'[e] # Nothing => hand'[e] = hand[e] /\ hand[e] # Nothing
    BY <1>c, <2>0, SetupsAssumption DEF TypeOK
  <2>2. \A e \in At(q) : hand'[e] # Nothing =>
                           (stream[q] = "open" /\ closing[q] # "closed" => StillLeased(q, hand'[e]))
    BY <2>1 DEF OnceEach
  <2>3. ASSUME NEW e \in At(q), hand'[e] # Nothing, pc'[e] = "handle"
        PROVE  hand'[e] \in inFlight'[q]
    <3>1. pc[e] = "handle" /\ hand[e] \in inFlight[q] /\ e # c /\ hand[e] # Nothing
      BY <1>c, <2>1, <2>3, SetupsAssumption DEF TypeOK, OnceEach
    <3>2. q = p => hand[e].id # hand[c].id
      BY <1>0, <3>1, <2>3 DEF OnceEach
    <3> QED BY <1>0, <1>a, <1>d, <2>1, <2>3, <3>1, <3>2
  <2>4. ASSUME NEW f \in inFlight'[q]
        PROVE  \E e \in At(q) : pc'[e] = "handle" /\ hand'[e] = f
    <3>1. f \in inFlight[q] /\ (q = p => f.id # hand[c].id)
      BY <1>0, <1>a, <1>d, <2>4
    <3>2. PICK e \in At(q) : pc[e] = "handle" /\ hand[e] = f
      BY <3>1 DEF OnceEach
    <3>3. e # c /\ e \in Consumer
      BY <3>1, <3>2, SetupsAssumption DEF TypeOK
    <3> QED BY <1>c, <3>2, <3>3
  <2> QED BY <2>1, <2>2, <2>3, <2>4
<1>5. CloseFacts'
  <2>1. ASSUME NEW q \in Process, closing[q] \in {"flushing", "closed"}
        PROVE  inFlight'[q] = {} /\ In(q, "publishing")' = {}
    <3>1. inFlight[q] = {} /\ In(q, "publishing") = {}
      BY <2>1 DEF CloseFacts
    <3>2. inFlight'[q] = {}
      BY <1>d, <3>1
    <3>3. \A e \in setup.loops : e \in Consumer /\ (e # c => pc'[e] = pc[e])
      BY <1>0, <1>c
    <3>4. q = p => pc'[c] # "publishing"
      BY <1>a, <1>c, <3>1
    <3> QED BY <1>b, <3>1, <3>2, <3>3, <3>4 DEF home
  <2> QED BY <1>b, <2>1 DEF CloseFacts, home
<1>6. Known' \subseteq Known
  <2>1. \A q \in Process : /\ Buffered(q)' \subseteq Known /\ inFlight'[q] \subseteq Known
                           /\ acking'[q] \subseteq Known
    BY <1>0, <1>a, <1>b, <1>d, KnownParts DEF Buffered
  <2>2. \A e \in Consumer : hand'[e] \in Known \union {Nothing}
    BY <1>0, <1>a, <1>c, KnownParts
  <2> QED BY <2>1, <2>2, NothingNew
<1>7. \A q \in Process : \A e \in acking'[q] : e \in acking[q] \/ e.msg \in done'
  BY <1>b
<1>8. UNCHANGED <<backlog, nextId, sent>> /\ done \subseteq done'
  BY <1>b
<1> QED BY <1>1, <1>2, <1>3, <1>4, <1>5, <1>6, <1>7, <1>8, QuietIInv

LEMMA CloseIInv ==
  ASSUME IInv, NEW p \in Process, Close(p)
  PROVE  IInv'
<1> USE DEF IInv, Close, At, In, ShouldStop, Goto, SendTo,
            serviceVars, clientVars, loopVars
<1>1. TypeOK'
  BY SetupsAssumption DEF TypeOK, home
<1>2. Places'
  BY SetupsAssumption DEF TypeOK, Places, home
<1>3. ReadyForAll'
  <2>1. \A e \in Consumer : pc'[e] = "waiting" => pc[e] = "waiting" /\ ~ShouldStop(e) /\ e \notin In(p, "waiting")
    BY SetupsAssumption DEF TypeOK, ReadyForAll
  <2>2. \A e \in Consumer : pc'[e] = "waiting" => home[e] # p
    BY <2>1 DEF TypeOK, Places
  <2>3. \A e \in Consumer : pc'[e] = "waiting" => ~ShouldStop(e)'
    BY <2>1, <2>2, SetupsAssumption DEF TypeOK, home
  <2>4. In(p, "waiting")' = {} /\ \A q \in Process \ {p} : stream'[q] = stream[q] /\ In(q, "waiting")' = In(q, "waiting")
            /\ buffer'[q] = buffer[q] /\ Ready(q)' = Ready(q)
    BY SetupsAssumption DEF TypeOK, Places, Ready, home
  <2>5. \A q \in Process : Len(buffer[q]) \in Nat
    BY ReadyFinite
  <2> QED BY <1>1, <2>3, <2>4, <2>5, StillReady
<1>4. OnceEach'
  <2>1. \A e \in Consumer : pc'[e] = "handle" <=> pc[e] = "handle"
    BY DEF TypeOK
  <2>2. \A q \in Process :
          stream'[q] = "open" /\ closing'[q] # "closed" =>
            stream[q] = "open" /\ closing[q] # "closed"
    BY DEF TypeOK
  <2>3. used'["slow"] = used["slow"]
    BY DEF TypeOK
  <2>4. UNCHANGED <<setup, buffer, inFlight>>
    OBVIOUS
  <2>5. \A s \in backlog' : s \in backlog \/ \A d \in Known : d.id # s.id
    OBVIOUS
  <2>6. \A e \in Consumer : hand'[e] = hand[e] \/ (hand'[e] = Nothing /\ pc[e] # "handle")
    OBVIOUS
  <2> QED BY <2>1, <2>2, <2>3, <2>4, <2>5, <2>6, StillOnce
<1>5. CloseFacts'
  BY SetupsAssumption DEF TypeOK, Places, CloseFacts, home
<1>6. Known' \subseteq Known
  BY SetupsAssumption DEF TypeOK, Known, Held, Buffered, home
<1>7. \A q \in Process : \A d \in acking'[q] : d \in acking[q] \/ d.msg \in done'
  BY SetupsAssumption DEF TypeOK, home, IdFacts, Known, Held
<1> QED BY <1>1, <1>2, <1>3, <1>4, <1>5, <1>6, <1>7, QuietIInv

LEMMA CloseSubscriptionIInv ==
  ASSUME IInv, NEW p \in Process, CloseSubscription(p)
  PROVE  IInv'
<1> USE DEF IInv, CloseSubscription, Drained, At, In, ShouldStop, Goto, SendTo,
            serviceVars, clientVars, loopVars
<1>1. TypeOK'
  BY SetupsAssumption DEF TypeOK, home
<1>2. Places'
  BY SetupsAssumption DEF TypeOK, Places, home
<1>3. ReadyForAll'
  <2>1. \A e \in Consumer : pc'[e] = "waiting" => ~ShouldStop(e)'
    BY SetupsAssumption DEF TypeOK, ReadyForAll, home
  <2>2. \A q \in Process :
          stream'[q] = "open" /\ In(q, "waiting")' # {} =>
            \/ buffer'[q] = <<>>
            \/ /\ stream[q] = "open" /\ In(q, "waiting") # {}
               /\ Len(buffer'[q]) <= Len(buffer[q])
               /\ Ready(q) \subseteq Ready(q)'
    BY SetupsAssumption DEF TypeOK, ReadyForAll, Places, Ready, home
  <2> QED BY <1>1, <2>1, <2>2, StillReady
<1>4. OnceEach'
  <2>1. \A e \in Consumer : pc'[e] = "handle" <=> pc[e] = "handle"
    BY DEF TypeOK
  <2>2. \A q \in Process :
          stream'[q] = "open" /\ closing'[q] # "closed" =>
            stream[q] = "open" /\ closing[q] # "closed"
    BY DEF TypeOK
  <2>3. used'["slow"] = used["slow"]
    BY DEF TypeOK
  <2>4. UNCHANGED <<setup, buffer, inFlight>>
    OBVIOUS
  <2>5. \A s \in backlog' : s \in backlog \/ \A d \in Known : d.id # s.id
    OBVIOUS
  <2>6. \A e \in Consumer : hand'[e] = hand[e] \/ (hand'[e] = Nothing /\ pc[e] # "handle")
    OBVIOUS
  <2> QED BY <2>1, <2>2, <2>3, <2>4, <2>5, <2>6, StillOnce
<1>5. CloseFacts'
  BY SetupsAssumption DEF TypeOK, Places, CloseFacts, home
<1>6. Known' \subseteq Known
  BY SetupsAssumption DEF TypeOK, Known, Held, Buffered, home
<1>7. \A q \in Process : \A d \in acking'[q] : d \in acking[q] \/ d.msg \in done'
  BY SetupsAssumption DEF TypeOK, home, IdFacts, Known, Held
<1> QED BY <1>1, <1>2, <1>3, <1>4, <1>5, <1>6, <1>7, QuietIInv

LEMMA CloseClientIInv ==
  ASSUME IInv, NEW p \in Process, CloseClient(p)
  PROVE  IInv'
<1> USE DEF IInv, CloseClient, At, In, ShouldStop, Goto, SendTo,
            serviceVars, clientVars, loopVars
<1>1. TypeOK'
  BY SetupsAssumption DEF TypeOK, home
<1>2. Places'
  BY SetupsAssumption DEF TypeOK, Places, home
<1>3. ReadyForAll'
  <2>1. \A e \in Consumer : pc'[e] = "waiting" => ~ShouldStop(e)'
    BY SetupsAssumption DEF TypeOK, ReadyForAll, home
  <2>2. \A q \in Process :
          stream'[q] = "open" /\ In(q, "waiting")' # {} =>
            \/ buffer'[q] = <<>>
            \/ /\ stream[q] = "open" /\ In(q, "waiting") # {}
               /\ Len(buffer'[q]) <= Len(buffer[q])
               /\ Ready(q) \subseteq Ready(q)'
    BY SetupsAssumption DEF TypeOK, ReadyForAll, Places, Ready, home
  <2> QED BY <1>1, <2>1, <2>2, StillReady
<1>4. OnceEach'
  <2>1. \A e \in Consumer : pc'[e] = "handle" <=> pc[e] = "handle"
    BY DEF TypeOK
  <2>2. \A q \in Process :
          stream'[q] = "open" /\ closing'[q] # "closed" =>
            stream[q] = "open" /\ closing[q] # "closed"
    BY DEF TypeOK
  <2>3. used'["slow"] = used["slow"]
    BY DEF TypeOK
  <2>4. UNCHANGED <<setup, buffer, inFlight>>
    OBVIOUS
  <2>5. \A s \in backlog' : s \in backlog \/ \A d \in Known : d.id # s.id
    OBVIOUS
  <2>6. \A e \in Consumer : hand'[e] = hand[e] \/ (hand'[e] = Nothing /\ pc[e] # "handle")
    OBVIOUS
  <2> QED BY <2>1, <2>2, <2>3, <2>4, <2>5, <2>6, StillOnce
<1>5. CloseFacts'
  BY SetupsAssumption DEF TypeOK, Places, CloseFacts, home
<1>6. Known' \subseteq Known
  BY SetupsAssumption DEF TypeOK, Known, Held, Buffered, home
<1>7. \A q \in Process : \A d \in acking'[q] : d \in acking[q] \/ d.msg \in done'
  BY SetupsAssumption DEF TypeOK, home, IdFacts, Known, Held
<1> QED BY <1>1, <1>2, <1>3, <1>4, <1>5, <1>6, <1>7, QuietIInv

LEMMA CrashIInv ==
  ASSUME IInv, NEW p \in Process, Crash(p)
  PROVE  IInv'
<1> USE DEF IInv, Crash, Alive, Gone, Trouble, Spend, At, In, ShouldStop, Goto, SendTo,
            serviceVars, clientVars, loopVars
<1>1. TypeOK'
  BY SetupsAssumption DEF TypeOK, home
<1>2. Places'
  BY SetupsAssumption DEF TypeOK, Places, home
<1>3. ReadyForAll'
  <2>1. \A e \in Consumer : pc'[e] = "waiting" => ~ShouldStop(e)'
    BY SetupsAssumption DEF TypeOK, ReadyForAll, home
  <2>2. \A q \in Process :
          stream'[q] = "open" /\ In(q, "waiting")' # {} =>
            \/ buffer'[q] = <<>>
            \/ /\ stream[q] = "open" /\ In(q, "waiting") # {}
               /\ Len(buffer'[q]) <= Len(buffer[q])
               /\ Ready(q) \subseteq Ready(q)'
    BY SetupsAssumption DEF TypeOK, ReadyForAll, Places, Ready, home
  <2> QED BY <1>1, <2>1, <2>2, StillReady
<1>4. OnceEach'
  BY SetupsAssumption DEF TypeOK, Places, OnceEach, home, StillLeased, Leases, Of
<1>5. CloseFacts'
  BY SetupsAssumption DEF TypeOK, Places, CloseFacts, home
<1>6. Known' \subseteq Known
  <2>1. \A e \in Consumer : hand'[e] \in Known \union {Nothing}
    BY KnownParts
  <2>2. \A q \in Process : Buffered(q)' \subseteq Known /\ inFlight'[q] \subseteq Known
                           /\ acking'[q] \subseteq Known
    BY KnownParts DEF Buffered, TypeOK
  <2> QED BY <2>1, <2>2, NothingNew
<1>7. \A q \in Process : \A d \in acking'[q] : d \in acking[q] \/ d.msg \in done'
  BY SetupsAssumption DEF TypeOK, home, IdFacts, Known, Held
<1> QED BY <1>1, <1>2, <1>3, <1>4, <1>5, <1>6, <1>7, QuietIInv

LEMMA ExitIInv ==
  ASSUME IInv, NEW p \in Process, Exit(p)
  PROVE  IInv'
<1> USE DEF IInv, Exit, Alive, Gone, At, In, ShouldStop, Goto, SendTo,
            serviceVars, clientVars, loopVars
<1>1. TypeOK'
  BY SetupsAssumption DEF TypeOK, home
<1>2. Places'
  BY SetupsAssumption DEF TypeOK, Places, home
<1>3. ReadyForAll'
  <2>1. \A e \in Consumer : pc'[e] = "waiting" => ~ShouldStop(e)'
    BY SetupsAssumption DEF TypeOK, ReadyForAll, home
  <2>2. \A q \in Process :
          stream'[q] = "open" /\ In(q, "waiting")' # {} =>
            \/ buffer'[q] = <<>>
            \/ /\ stream[q] = "open" /\ In(q, "waiting") # {}
               /\ Len(buffer'[q]) <= Len(buffer[q])
               /\ Ready(q) \subseteq Ready(q)'
    BY SetupsAssumption, SMTT(30) DEF TypeOK, ReadyForAll, Places, Ready, home
  <2> QED BY <1>1, <2>1, <2>2, StillReady
<1>4. OnceEach'
  BY SetupsAssumption DEF TypeOK, Places, OnceEach, home, StillLeased, Leases, Of
<1>5. CloseFacts'
  BY SetupsAssumption DEF TypeOK, Places, CloseFacts, home
<1>6. Known' \subseteq Known
  <2>1. \A e \in Consumer : hand'[e] \in Known \union {Nothing}
    BY KnownParts
  <2>2. \A q \in Process : Buffered(q)' \subseteq Known /\ inFlight'[q] \subseteq Known
                           /\ acking'[q] \subseteq Known
    BY KnownParts DEF Buffered, TypeOK
  <2> QED BY <2>1, <2>2, NothingNew
<1>7. \A q \in Process : \A d \in acking'[q] : d \in acking[q] \/ d.msg \in done'
  BY SetupsAssumption DEF TypeOK, home, IdFacts, Known, Held
<1> QED BY <1>1, <1>2, <1>3, <1>4, <1>5, <1>6, <1>7, QuietIInv

LEMMA RestartIInv ==
  ASSUME IInv, NEW p \in Process, Restart(p)
  PROVE  IInv'
<1> USE DEF IInv, Restart, At, In, ShouldStop, Goto, SendTo,
            serviceVars, clientVars, loopVars
<1>0. \A e \in At(p) : pc[e] = "crashed" /\ hand[e] = Nothing
  BY SetupsAssumption DEF TypeOK, Places
<1>1. TypeOK'
  BY <1>0 DEF TypeOK
<1>2. Places'
  BY SetupsAssumption DEF TypeOK, Places, home
<1>3. ReadyForAll'
  <2>1. \A e \in Consumer : pc'[e] = "waiting" => ~ShouldStop(e)'
    BY SetupsAssumption DEF TypeOK, ReadyForAll, home
  <2>a. \A e \in setup.loops : /\ e \in Consumer
                               /\ home[e] = p => pc'[e] = "idle"
                               /\ home[e] # p => pc'[e] = pc[e] /\ aborted'[e] = aborted[e]
    BY SetupsAssumption DEF TypeOK
  <2>2. In(p, "waiting")' = {}
    BY <2>a DEF home
  <2>3. ASSUME NEW q \in Process, q # p
        PROVE  /\ stream'[q] = stream[q] /\ In(q, "waiting")' = In(q, "waiting")
               /\ buffer'[q] = buffer[q] /\ Len(buffer[q]) \in Nat
               /\ Ready(q) \subseteq Ready(q)'
    <3>1. stream'[q] = stream[q] /\ closing'[q] = closing[q] /\ buffer'[q] = buffer[q] /\ setup' = setup
      BY <2>3 DEF TypeOK
    <3>2. Len(buffer[q]) \in Nat
      BY ReadyFinite
    <3>3. In(q, "waiting")' = In(q, "waiting")
      BY <2>3, <2>a, <3>1 DEF home
    <3>4. ASSUME NEW e \in Ready(q) PROVE e \in Ready(q)'
      <4>1. e \in setup.loops /\ home[e] = q /\ pc[e] = "loop" /\ ~aborted[e] /\ closing[q] = "open"
        BY <3>4 DEF Ready
      <4>2. pc'[e] = "loop" /\ ~aborted'[e] /\ home' = home
        BY <2>3, <2>a, <4>1, <3>1 DEF home
      <4> QED BY <3>1, <4>1, <4>2 DEF Ready
    <3> QED BY <3>1, <3>2, <3>3, <3>4
  <2> QED BY <1>1, <2>1, <2>2, <2>3, StillReady
<1>4. OnceEach'
  BY SetupsAssumption DEF TypeOK, Places, OnceEach, home, StillLeased, Leases, Of
<1>5. CloseFacts'
  BY SetupsAssumption DEF TypeOK, Places, CloseFacts, home
<1>6. Known' \subseteq Known
  BY SetupsAssumption DEF TypeOK, Known, Held, Buffered, home
<1>7. \A q \in Process : \A d \in acking'[q] : d \in acking[q] \/ d.msg \in done'
  BY SetupsAssumption DEF TypeOK, home, IdFacts, Known, Held
<1> QED BY <1>1, <1>2, <1>3, <1>4, <1>5, <1>6, <1>7, QuietIInv

-----------------------------------------------------------------------------
(* The backlog                                                             *)

LEMMA SendIInv ==
  ASSUME IInv, NEW m \in Message, Send(m)
  PROVE  IInv'
<1>0. UNCHANGED <<setup, clientVars, closing, loopVars, aborted, used, done>>
  BY DEF Send
<1>1. Known' = Known
  BY <1>0 DEF Known, Held, Buffered, clientVars, loopVars
<1>2. /\ backlog' \subseteq Outstanding /\ nextId' \in Nat
      /\ backlog \subseteq backlog'
      /\ IdFacts'
      /\ \E s \in backlog' : s.msg = m /\ s.id = nextId
      /\ \A s \in backlog' : s \in backlog \/ s.id = nextId
  BY <1>1, NewId, KnownType DEF Send, IInv, Delivery
<1>3. TypeOK' /\ Places' /\ ReadyForAll' /\ CloseFacts'
  BY <1>0, <1>2 DEF Send, IInv, TypeOK, Places, ReadyForAll, CloseFacts, Ready, ShouldStop, In, At,
                    home, clientVars, loopVars
<1>4. AckedIsSafe' /\ NoLoss'
  BY <1>0, <1>2 DEF Send, IInv, AckedIsSafe, NoLoss, clientVars
<1>5. OnceEach'
  <2>1. \A s \in backlog' : s \in backlog \/ \A d \in Known : d.id # s.id
    BY <1>2, KnownType DEF IInv, IdFacts, TypeOK, Delivery
  <2>2. UNCHANGED <<setup, buffer, inFlight>>
    BY <1>0 DEF clientVars
  <2>3. used'["slow"] = 0 => used["slow"] = 0
    BY <1>0
  <2>4. \A e \in Consumer : hand'[e] = hand[e] \/ (hand'[e] = Nothing /\ pc[e] # "handle")
    BY <1>0 DEF loopVars
  <2>5. \A e \in Consumer : pc'[e] = "handle" <=> pc[e] = "handle"
    BY <1>0 DEF loopVars
  <2>6. \A x \in Process :
          stream'[x] = "open" /\ closing'[x] # "closed" =>
            stream[x] = "open" /\ closing[x] # "closed"
    BY <1>0 DEF clientVars
  <2> QED BY <2>1, <2>2, <2>3, <2>4, <2>5, <2>6, StillOnce
<1> QED BY <1>2, <1>3, <1>4, <1>5 DEF IInv

LEMMA DeliverIInv ==
  ASSUME IInv, NEW r \in backlog, NEW p \in Process, Deliver(p, r)
  PROVE  IInv'
<1> DEFINE q == [r EXCEPT !.n = @ + 1, !.owner = p]
           d == [id |-> r.id, msg |-> r.msg, n |-> r.n + 1]
<1>0. r \in Outstanding /\ r.id \in Nat /\ r.msg \in Message /\ r.n \in Nat
  BY DEF IInv, TypeOK, Outstanding
<1>a. /\ q \in Outstanding /\ q.id = r.id /\ q.msg = r.msg /\ q.n = r.n + 1 /\ q.owner = p
      /\ r.n + 1 \in Nat
  <2> DEFINE k == r.n + 1
  <2>1. k \in Nat
    BY <1>0
  <2>2. q = [r EXCEPT !.n = k, !.owner = p]
    OBVIOUS
  <2> HIDE DEF k, q
  <2>3. /\ q \in Outstanding /\ q.id = r.id /\ q.msg = r.msg /\ q.n = k /\ q.owner = p
    BY <1>0, <2>1, <2>2 DEF Outstanding
  <2> QED BY <2>1, <2>3 DEF k
<1>b. d \in Delivery /\ d.id = r.id /\ d.msg = r.msg /\ d.n = r.n + 1
  BY <1>0, <1>a DEF Delivery
<1>c. r.owner = NoOne /\ p # NoOne
  BY NamesAssumption DEF Deliver
<1>1. /\ q \in Outstanding /\ q.id = r.id /\ q.msg = r.msg /\ q.n = d.n /\ q.owner = p
      /\ d \in Delivery /\ d.id = r.id /\ d.msg = r.msg
      /\ r.owner = NoOne /\ p # NoOne
  BY <1>a, <1>b, <1>c
<1>2. /\ stream[p] = "open" /\ closing[p] # "closed"
      /\ backlog' = (backlog \ {r}) \union {q}
      /\ buffer' = [buffer EXCEPT ![p] = Append(@, d)]
      /\ UNCHANGED <<setup, created, nextId, stream, inFlight, acking, closing, hand, aborted,
                    used, sent, done>>
  BY DEF Deliver, Arrive
<1>3. \/ In(p, "waiting") = {} /\ pc' = pc
      \/ \E c \in In(p, "waiting") : pc' = [pc EXCEPT ![c] = "loop"]
  BY DEF Deliver, Arrive, WakeOne, Goto
<1> HIDE DEF q, d
<1>4. /\ buffer' \in [Process -> Seq(Delivery)]
      /\ buffer'[p] = Append(buffer[p], d) /\ buffer[p] \in Seq(Delivery)
      /\ \A x \in Process : x # p => buffer'[x] = buffer[x]
  BY <1>1, <1>2 DEF IInv, TypeOK
<1>5. /\ Len(buffer[p]) \in Nat /\ Len(buffer'[p]) = Len(buffer[p]) + 1
      /\ \A i \in 1..Len(buffer'[p]) :
           \/ i \in 1..Len(buffer[p]) /\ buffer'[p][i] = buffer[p][i]
           \/ i = Len(buffer[p]) + 1 /\ buffer'[p][i] = d
  BY <1>1, <1>4
<1>6. /\ setup.loops \subseteq Consumer
      /\ \A c \in Consumer : pc'[c] = pc[c] \/ (pc[c] = "waiting" /\ pc'[c] = "loop")
  <2>1. setup.loops \subseteq Consumer
    BY SetupsAssumption DEF IInv, TypeOK
  <2>2. ASSUME NEW c \in In(p, "waiting"), pc' = [pc EXCEPT ![c] = "loop"]
        PROVE  \A e \in Consumer : pc'[e] = pc[e] \/ (pc[e] = "waiting" /\ pc'[e] = "loop")
    BY <2>2 DEF IInv, TypeOK, In
  <2> QED BY <1>3, <2>1, <2>2
<1>7. TypeOK'
  <2>1. backlog' \subseteq Outstanding
    BY <1>1, <1>2 DEF IInv, TypeOK
  <2>2. pc' \in [Consumer -> {"idle", "starting", "loop", "waiting", "handle", "publishing",
                             "returned", "threw", "crashed"}]
    BY <1>3, <1>6 DEF IInv, TypeOK
  <2>3. \A c \in Consumer : hand'[c] # Nothing <=> pc'[c] \in {"handle", "publishing"}
    BY <1>2, <1>6 DEF IInv, TypeOK
  <2> QED BY <1>2, <1>4, <2>1, <2>2, <2>3 DEF IInv, TypeOK
<1>8. Places' /\ CloseFacts'
  <2>1. CloseFacts'
    BY <1>2, <1>6 DEF IInv, CloseFacts, In, At, home
  <2>2. \A c \in Consumer \ setup'.loops : pc'[c] = "returned"
    BY <1>2, <1>6 DEF IInv, Places
  <2>3. \A c \in setup.loops : (pc'[c] = "crashed" <=> pc[c] = "crashed") /\ home' = home
    BY <1>2, <1>6 DEF home
  <2>4. \A c \in setup'.loops : pc'[c] = "crashed" =>
          /\ stream'[home'[c]] = "none" /\ acking'[home'[c]] = {}
          /\ \A e \in setup'.loops : home'[e] = home'[c] => pc'[e] = "crashed"
    BY <1>2, <2>3 DEF IInv, Places
  <2>5. \A x \in Process : stream'[x] \in {"none", "starting", "failed"} =>
          /\ buffer'[x] = <<>> /\ inFlight'[x] = {}
          /\ \A c \in At(x)' : pc'[c] \notin {"waiting", "handle", "publishing"}
    BY <1>2, <1>4, <1>6 DEF IInv, Places, At, home
  <2> QED BY <2>1, <2>2, <2>4, <2>5 DEF Places
<1>9. /\ \A x \in Process : Buffered(x)' \subseteq Known \union {d}
      /\ \A x \in Process : inFlight'[x] \subseteq Known \union {d} /\ acking'[x] \subseteq Known \union {d}
  <2>1. \A x \in Process : Buffered(x)' \subseteq Buffered(x) \union {d}
    BY <1>4, <1>5 DEF Buffered
  <2> QED BY <1>2, <2>1, KnownParts
<1>10. IdFacts'
  <2>1. \A c \in Consumer : hand'[c] \in (Known \union {d}) \union {Nothing}
    BY <1>2, KnownParts
  <2>2. Known' \subseteq Known \union {d}
    BY <1>9, <2>1, NothingNew
  <2>3. \A e \in Known' : e \in Known \/ (e.id = r.id /\ e.msg = r.msg)
    BY <1>1, <2>2
  <2>4. nextId' = nextId /\ IdFacts
    BY <1>2 DEF IInv
  <2> QED BY <1>1, <1>2, <2>3, <2>4, SameIds
<1>11. AckedIsSafe' /\ NoLoss'
  <2>1. \A s \in backlog : \E o \in backlog' : o.id = s.id /\ o.msg = s.msg
    BY <1>1, <1>2
  <2> QED BY <1>2, <2>1 DEF IInv, AckedIsSafe, NoLoss
<1>12. ReadyForAll'
  <2>1. \A c \in Consumer : pc'[c] = "waiting" => ~ShouldStop(c)'
    BY <1>2, <1>6 DEF IInv, ReadyForAll, ShouldStop, home
  <2>2. ASSUME NEW x \in Process, x # p
        PROVE  /\ stream'[x] = stream[x] /\ buffer'[x] = buffer[x]
               /\ In(x, "waiting")' = In(x, "waiting") /\ Ready(x)' = Ready(x)
    <3>1. \A c \in At(x) : pc'[c] = pc[c]
      BY <1>3, <1>6, <2>2 DEF In, At, IInv, TypeOK
    <3> QED BY <1>2, <1>4, <2>2, <3>1 DEF In, Ready, ShouldStop, At, home
  <2>3. ASSUME In(p, "waiting")' # {}
        PROVE  Len(buffer'[p]) <= Cardinality(Ready(p)')
    <3>1. PICK c \in In(p, "waiting") : pc' = [pc EXCEPT ![c] = "loop"]
      <4>1. In(p, "waiting") # {}
        BY <1>2, <1>6, <2>3 DEF In, At, home
      <4> QED BY <1>3, <4>1
    <3>2. /\ Len(buffer[p]) <= Cardinality(Ready(p))
          /\ IsFiniteSet(Ready(p)) /\ Cardinality(Ready(p)) \in Nat
      BY <1>2, <3>1, ReadyFinite DEF IInv, ReadyForAll
    <3>3. c \in setup.loops /\ c \in Consumer /\ home[c] = p /\ pc[c] = "waiting" /\ ~ShouldStop(c)
      BY <1>6, <3>1 DEF In, At, IInv, ReadyForAll
    <3>4. c \notin Ready(p)
      BY <3>3 DEF Ready, In
    <3>5. Ready(p)' = Ready(p) \union {c}
      <4>1. \A e \in setup.loops : pc'[e] = IF e = c THEN "loop" ELSE pc[e]
        BY <1>6, <3>1 DEF IInv, TypeOK
      <4>2. \A e : ShouldStop(e)' <=> ShouldStop(e)
        BY <1>2 DEF ShouldStop, home
      <4> QED BY <1>2, <3>3, <4>1, <4>2 DEF Ready, In, At, home
    <3>6. Cardinality(Ready(p)') = Cardinality(Ready(p)) + 1
      BY <3>2, <3>4, <3>5, FS_AddElement
    <3> QED BY <1>5, <3>2, <3>6
  <2> QED BY <2>1, <2>2, <2>3 DEF IInv, ReadyForAll
<1>13. OnceEach'
  <2> DEFINE Still(x, e) == \A s \in backlog' : Of(e, s) => Leases(x, e, s)
  <2> SUFFICES ASSUME used["slow"] = 0, NEW x \in Process
               PROVE  /\ \A i, j \in 1..Len(buffer'[x]) : buffer'[x][i].id = buffer'[x][j].id => i = j
                      /\ \A c \in At(x) : hand[c] # Nothing =>
                           /\ \A i \in 1..Len(buffer'[x]) : buffer'[x][i].id # hand[c].id
                           /\ \A e \in At(x) : hand[e] # Nothing /\ hand[e].id = hand[c].id => c = e
                           /\ pc'[c] = "handle" => hand[c] \in inFlight[x]
                      /\ \A f \in inFlight[x] : \E c \in At(x) : pc'[c] = "handle" /\ hand[c] = f
                      /\ stream[x] = "open" /\ closing[x] # "closed" =>
                           /\ \A i \in 1..Len(buffer'[x]) : Still(x, buffer'[x][i])
                           /\ \A c \in At(x) : hand[c] # Nothing => Still(x, hand[c])
    <3>1. UNCHANGED <<setup, stream, closing, used, hand, inFlight>>
      BY <1>2
    <3> QED BY <3>1 DEF OnceEach, At, home, StillLeased
  <2>1. \A c \in At(x) : c \in Consumer /\ (pc'[c] = "handle" <=> pc[c] = "handle")
    BY <1>6 DEF At
  <2>2. ASSUME NEW e, StillLeased(x, e)
        PROVE  e.id # r.id /\ Still(x, e)
    <3>1. e.id # r.id
      BY <1>1, <2>2, NamesAssumption DEF StillLeased, Of, Leases
    <3> QED BY <1>1, <1>2, <2>2, <3>1 DEF StillLeased, Of
  <2>3. Still(x, d) \/ x # p
    <3>1. \A s \in backlog' : s.id = d.id => s = q
      BY <1>1, <1>2 DEF IInv, IdFacts
    <3> QED BY <1>1, <3>1 DEF StillLeased, Of, Leases
  <2> HIDE DEF Still
  <2>4. CASE x # p
    BY <1>4, <2>1, <2>2, <2>4 DEF IInv, OnceEach
  <2>5. CASE x = p
    <3>1. /\ \A i \in 1..Len(buffer[p]) : StillLeased(p, buffer[p][i])
          /\ \A c \in At(p) : hand[c] # Nothing => StillLeased(p, hand[c])
      BY <1>2 DEF IInv, OnceEach
    <3>2. /\ \A i \in 1..Len(buffer[p]) : buffer[p][i].id # d.id /\ Still(p, buffer[p][i])
          /\ \A c \in At(p) : hand[c] # Nothing => hand[c].id # d.id /\ Still(p, hand[c])
      BY <1>1, <2>2, <2>5, <3>1
    <3>a. \A i, j \in 1..Len(buffer[p]) : buffer[p][i].id = buffer[p][j].id => i = j
      BY DEF IInv, OnceEach
    <3>3. \A i, j \in 1..Len(buffer'[p]) : buffer'[p][i].id = buffer'[p][j].id => i = j
      <4> SUFFICES ASSUME NEW i \in 1..Len(buffer'[p]), NEW j \in 1..Len(buffer'[p]),
                          buffer'[p][i].id = buffer'[p][j].id
                   PROVE  i = j
        OBVIOUS
      <4>1. CASE i \in 1..Len(buffer[p]) /\ buffer'[p][i] = buffer[p][i]
        <5>1. j \in 1..Len(buffer[p]) /\ buffer'[p][j] = buffer[p][j]
          BY <1>5, <3>2, <4>1
        <5> QED BY <3>a, <4>1, <5>1
      <4>2. CASE i = Len(buffer[p]) + 1 /\ buffer'[p][i] = d
        <5>1. j = Len(buffer[p]) + 1
          BY <1>5, <3>2, <4>2
        <5> QED BY <4>2, <5>1
      <4> QED BY <1>5, <4>1, <4>2
    <3>4. \A c \in At(p) : hand[c] # Nothing =>
            \A i \in 1..Len(buffer'[p]) : buffer'[p][i].id # hand[c].id
      <4>1. \A c \in At(p) : hand[c] # Nothing =>
              \A i \in 1..Len(buffer[p]) : buffer[p][i].id # hand[c].id
        BY DEF IInv, OnceEach
      <4> QED BY <1>5, <3>2, <4>1
    <3>5. \A i \in 1..Len(buffer'[p]) : Still(p, buffer'[p][i])
      BY <1>5, <2>3, <2>5, <3>2
    <3> QED BY <2>1, <2>5, <3>2, <3>3, <3>4, <3>5 DEF IInv, OnceEach
  <2> QED BY <2>4, <2>5
<1> QED BY <1>7, <1>8, <1>10, <1>11, <1>12, <1>13 DEF IInv

LEMMA ExpireIInv ==
  ASSUME IInv, NEW r \in backlog, Expire(r)
  PROVE  IInv'
<1> DEFINE q == [r EXCEPT !.owner = NoOne]
           p == r.owner
<1>0. r \in Outstanding
  BY DEF IInv, TypeOK
<1>1. q \in Outstanding /\ q.id = r.id /\ q.msg = r.msg /\ p \in Process
  BY <1>0, NamesAssumption DEF Outstanding, Expire
<1>2. /\ backlog' = (backlog \ {r}) \union {q}
      /\ UNCHANGED <<setup, created, nextId, clientVars, closing, loopVars, aborted, sent, done>>
  BY DEF Expire
<1>a. \/ Spend("slow", setup.maxSlow)
      \/ /\ used' = used
         /\ stream[p] = "open" /\ closing[p] # "closed" => \A d \in Had(p) : ~Leases(p, d, r)
  BY DEF Expire
<1>3. /\ used' \in [{"rejects", "troubles", "slow"} -> Nat]
      /\ used'["slow"] = 0 =>
           /\ used["slow"] = 0
           /\ stream[p] = "open" /\ closing[p] # "closed" => \A d \in Had(p) : ~Leases(p, d, r)
  BY <1>a DEF Spend, IInv, TypeOK
<1> HIDE DEF q
<1>4. Known' = Known
  BY <1>2 DEF Known, Held, Buffered, clientVars, loopVars
<1>5. IdFacts'
  <2>1. \A e \in Known' : e \in Known \/ (e.id = r.id /\ e.msg = r.msg)
    BY <1>4
  <2> QED BY <1>1, <1>2, <2>1, SameIds DEF IInv
<1>6. TypeOK' /\ Places' /\ ReadyForAll' /\ CloseFacts'
  <2>1. backlog' \subseteq Outstanding
    BY <1>1, <1>2 DEF IInv, TypeOK
  <2>2. TypeOK'
    BY <1>2, <1>3, <2>1 DEF IInv, TypeOK, clientVars, loopVars
  <2>3. Places' /\ CloseFacts'
    BY <1>2 DEF IInv, Places, CloseFacts, In, At, home, clientVars, loopVars
  <2>4. ReadyForAll'
    BY <1>2 DEF IInv, ReadyForAll, Ready, ShouldStop, In, At, home, clientVars, loopVars
  <2> QED BY <2>2, <2>3, <2>4
<1>7. AckedIsSafe' /\ NoLoss'
  <2>1. \A s \in backlog : \E o \in backlog' : o.id = s.id /\ o.msg = s.msg
    BY <1>1, <1>2
  <2> QED BY <1>2, <2>1 DEF IInv, AckedIsSafe, NoLoss, clientVars
<1>8. OnceEach'
  <2> DEFINE Still(x, e) == \A s \in backlog' : Of(e, s) => Leases(x, e, s)
  <2> SUFFICES ASSUME used'["slow"] = 0, NEW x \in Process,
                      stream[x] = "open", closing[x] # "closed"
               PROVE  /\ \A i \in 1..Len(buffer[x]) : Still(x, buffer[x][i])
                      /\ \A c \in At(x) : hand[c] # Nothing => Still(x, hand[c])
    <3>1. UNCHANGED <<setup, stream, buffer, closing, pc, hand, inFlight>>
      BY <1>2 DEF clientVars, loopVars
    <3> QED BY <1>3, <3>1 DEF IInv, OnceEach, At, home, StillLeased
  <2>1. /\ \A i \in 1..Len(buffer[x]) : StillLeased(x, buffer[x][i]) /\ buffer[x][i] \in Had(x)
        /\ \A c \in At(x) : hand[c] # Nothing => StillLeased(x, hand[c]) /\ hand[c] \in Had(x)
    BY <1>3 DEF IInv, OnceEach, Had
  <2>2. ASSUME NEW d, StillLeased(x, d), d \in Had(x)
        PROVE  Still(x, d)
    <3>1. d.id # r.id
      BY <1>3, <2>2 DEF StillLeased, Of, Leases
    <3> QED BY <1>1, <1>2, <2>2, <3>1 DEF StillLeased, Of
  <2> HIDE DEF Still
  <2> QED BY <2>1, <2>2
<1> QED BY <1>5, <1>6, <1>7, <1>8 DEF IInv

(* An acknowledgement that is sent takes out a message that was handled, or*)
(* that has a later copy: of two copies the later one stays.               *)
LEMMA SendAckIInv ==
  ASSUME IInv, NEW p \in Process, NEW d \in acking[p], SendAck(p, d)
  PROVE  IInv'
<1>1. /\ acking' = [acking EXCEPT ![p] = @ \ {d}]
      /\ UNCHANGED <<setup, created, nextId, stream, buffer, inFlight, closing, loopVars,
                     aborted, sent, done>>
      /\ backlog' = {r \in backlog : ~Of(d, r)} \/ backlog' = backlog
  BY DEF SendAck
<1>2. used' \in [{"rejects", "troubles", "slow"} -> Nat] /\ used'["slow"] = used["slow"]
  BY DEF SendAck, Trouble, Spend, IInv, TypeOK
<1>3. /\ \A x \in Process : acking'[x] \subseteq acking[x]
      /\ acking' \in [Process -> SUBSET Delivery]
      /\ backlog' \subseteq backlog
  BY <1>1 DEF IInv, TypeOK
<1>4. Known' \subseteq Known
  <2>1. \A x \in Process : /\ Buffered(x)' \subseteq Known /\ inFlight'[x] \subseteq Known
                           /\ acking'[x] \subseteq Known
    BY <1>1, <1>3, KnownParts DEF Buffered
  <2>2. \A c \in Consumer : hand'[c] \in Known \union {Nothing}
    BY <1>1, KnownParts DEF loopVars
  <2> QED BY <2>1, <2>2, NothingNew
<1>5. IdFacts'
  BY <1>1, <1>3, <1>4, FewerIds DEF IInv
<1>6. TypeOK' /\ ReadyForAll'
  <2>1. TypeOK'
    BY <1>1, <1>2, <1>3 DEF IInv, TypeOK, loopVars
  <2>2. ReadyForAll'
    BY <1>1 DEF IInv, ReadyForAll, Ready, ShouldStop, In, At, home, loopVars
  <2> QED BY <2>1, <2>2
<1>7. Places' /\ CloseFacts'
  <2>1. \A x \in Process : acking[x] = {} => acking'[x] = {}
    BY <1>3
  <2>2. \A c \in setup.loops : home[c] \in Process
    BY SetupsAssumption DEF IInv, TypeOK, home
  <2> QED BY <1>1, <2>1, <2>2 DEF IInv, Places, CloseFacts, In, At, home, loopVars
<1>8. d \in Known /\ d.id \in Nat /\ \A r \in backlog : r.id \in Nat
  BY KnownParts DEF IInv, TypeOK, Delivery, Outstanding
<1>9. \A r \in backlog : \/ r \in backlog'
                         \/ r.msg \in done
                         \/ \E o \in backlog' : o.msg = r.msg /\ o.id > r.id
  <2> SUFFICES ASSUME NEW r \in backlog, r \notin backlog', r.msg \notin done
               PROVE  \E o \in backlog' : o.msg = r.msg /\ o.id > r.id
    OBVIOUS
  <2>1. r.id = d.id /\ r.msg = d.msg /\ backlog' = {s \in backlog : s.id # d.id}
    BY <1>1, <1>8 DEF Of, IInv, IdFacts
  <2>2. PICK o \in backlog : o.msg = d.msg /\ o.id > d.id
    BY <2>1 DEF IInv, AckedIsSafe
  <2> QED BY <1>8, <2>1, <2>2
<1>10. NoLoss'
  BY <1>1, <1>9 DEF IInv, NoLoss
<1>11. AckedIsSafe'
  <2> SUFFICES ASSUME NEW x \in Process, NEW e \in acking'[x], e.msg \notin done
               PROVE  \E o \in backlog' : o.msg = e.msg /\ o.id > e.id
    BY <1>1 DEF AckedIsSafe
  <2>1. PICK r \in backlog : r.msg = e.msg /\ r.id > e.id
    BY <1>3 DEF IInv, AckedIsSafe
  <2>2. e.id \in Nat
    BY <1>3 DEF IInv, TypeOK, Delivery
  <2>3. CASE r \in backlog'
    BY <2>1, <2>3
  <2>4. CASE \E o \in backlog' : o.msg = r.msg /\ o.id > r.id
    BY <1>3, <1>8, <2>1, <2>2, <2>4
  <2> QED BY <1>9, <2>1, <2>3, <2>4
<1>12. OnceEach'
  <2>1. \A s \in backlog' : s \in backlog \/ \A e \in Known : e.id # s.id
    BY <1>3
  <2>2. UNCHANGED <<setup, buffer, inFlight>>
    BY <1>1, <1>2 DEF clientVars
  <2>3. used'["slow"] = 0 => used["slow"] = 0
    BY <1>1, <1>2
  <2>4. \A e \in Consumer : hand'[e] = hand[e] \/ (hand'[e] = Nothing /\ pc[e] # "handle")
    BY <1>1, <1>2 DEF loopVars
  <2>5. \A e \in Consumer : pc'[e] = "handle" <=> pc[e] = "handle"
    BY <1>1, <1>2 DEF loopVars
  <2>6. \A x \in Process :
          stream'[x] = "open" /\ closing'[x] # "closed" =>
            stream[x] = "open" /\ closing[x] # "closed"
    BY <1>1, <1>2 DEF clientVars
  <2> QED BY <2>1, <2>2, <2>3, <2>4, <2>5, <2>6, StillOnce
<1> QED BY <1>5, <1>6, <1>7, <1>10, <1>11, <1>12 DEF IInv

LEMMA PublishedIInv ==
  ASSUME IInv, NEW c \in Consumer, Published(c)
  PROVE  IInv'
<1> DEFINE p == home[c]
           h == hand[c]
<1>0. /\ p \in Process /\ c \in setup.loops /\ setup.loops \subseteq Consumer /\ pc[c] = "publishing"
      /\ h \in Delivery /\ h \in Known /\ h.msg \in Message /\ h.id \in Nat /\ h.id < nextId
  <2>1. pc[c] = "publishing" /\ c \in setup.loops
    BY DEF Published, IInv, Places
  <2>2. h # Nothing /\ h \in Delivery /\ h \in Known
    BY <2>1, KnownParts DEF IInv, TypeOK
  <2> QED BY <2>1, <2>2, SetupsAssumption DEF IInv, TypeOK, IdFacts, Delivery, home
<1>1. /\ pc' = [pc EXCEPT ![c] = "loop"] /\ hand' = [hand EXCEPT ![c] = Nothing]
      /\ Publish(h.msg, backlog)
      /\ acking' = [acking EXCEPT ![p] = @ \union {h}]
      /\ UNCHANGED <<setup, created, stream, buffer, inFlight, closing, aborted, sent, done>>
  BY DEF Published, AskNext, Goto, clientVars
<1>2. used' \in [{"rejects", "troubles", "slow"} -> Nat] /\ used'["slow"] = used["slow"]
  BY DEF Published, Trouble, Spend, IInv, TypeOK
<1>3. /\ \A e \in Consumer : hand'[e] = IF e = c THEN Nothing ELSE hand[e]
      /\ \A e \in Consumer : pc'[e] = IF e = c THEN "loop" ELSE pc[e]
  BY <1>1 DEF IInv, TypeOK
<1>4. /\ acking' \in [Process -> SUBSET Delivery]
      /\ \A x \in Process : x # p => acking'[x] = acking[x]
      /\ acking'[p] \subseteq acking[p] \union {h}
  BY <1>0, <1>1 DEF IInv, TypeOK
<1>5. Known' \subseteq Known
  <2>1. \A x \in Process : /\ Buffered(x)' \subseteq Known /\ inFlight'[x] \subseteq Known
                           /\ acking'[x] \subseteq Known
    BY <1>0, <1>1, <1>4, KnownParts DEF Buffered
  <2>2. \A e \in Consumer : hand'[e] \in Known \union {Nothing}
    BY <1>3, KnownParts
  <2> QED BY <2>1, <2>2, NothingNew
<1>6. /\ backlog' \subseteq Outstanding /\ nextId' \in Nat
      /\ backlog \subseteq backlog'
      /\ IdFacts'
      /\ \E s \in backlog' : s.msg = h.msg /\ s.id = nextId
      /\ \A s \in backlog' : s \in backlog \/ s.id = nextId
  <2>1. \A e \in Known : e.id \in Nat
    BY KnownType DEF IInv, Delivery
  <2> QED BY <1>0, <1>1, <1>5, <2>1, NewId DEF IInv
<1>7. TypeOK'
  <2>1. \A e \in Consumer : hand'[e] # Nothing <=> pc'[e] \in {"handle", "publishing"}
    BY <1>3 DEF IInv, TypeOK
  <2>2. /\ hand' \in [Consumer -> Delivery \union {Nothing}]
        /\ pc' \in [Consumer -> {"idle", "starting", "loop", "waiting", "handle", "publishing",
                                "returned", "threw", "crashed"}]
    BY <1>1 DEF IInv, TypeOK
  <2> QED BY <1>1, <1>2, <1>4, <1>6, <2>1, <2>2 DEF IInv, TypeOK
<1>8. Places'
  <2>1. \A e \in Consumer \ setup.loops : pc'[e] = "returned"
    BY <1>0, <1>3 DEF IInv, Places
  <2>2. \A e \in setup.loops : pc[e] = "crashed" => home[e] # p
    BY <1>0 DEF IInv, Places
  <2>3. \A e \in setup.loops : home[e] \in Process
    BY SetupsAssumption DEF IInv, TypeOK, home
  <2>4. ASSUME NEW e \in setup.loops, pc'[e] = "crashed"
        PROVE  /\ stream[home[e]] = "none" /\ acking'[home[e]] = {}
               /\ \A f \in setup.loops : home[f] = home[e] => pc'[f] = "crashed"
    <3>1. pc[e] = "crashed" /\ e # c
      BY <1>0, <1>3, <2>4
    <3> QED BY <1>0, <1>3, <1>4, <2>2, <2>3, <3>1 DEF IInv, Places
  <2>5. ASSUME NEW x \in Process, stream[x] \in {"none", "starting", "failed"}
        PROVE  /\ buffer[x] = <<>> /\ inFlight[x] = {}
               /\ \A e \in At(x) : pc'[e] \notin {"waiting", "handle", "publishing"}
    BY <1>0, <1>3, <2>5 DEF IInv, Places, At
  <2> QED BY <1>1, <2>1, <2>4, <2>5 DEF Places, At, home
<1>9. AckedIsSafe' /\ NoLoss'
  <2>1. \A x \in Process : \A e \in acking'[x] : e \in acking[x] \/ e = h
    BY <1>0, <1>4
  <2> QED BY <1>0, <1>1, <2>1, <1>6 DEF IInv, AckedIsSafe, NoLoss
<1>10. ReadyForAll'
  <2>1. \A e \in Consumer : pc'[e] = "waiting" => ~ShouldStop(e)'
    BY <1>1, <1>3 DEF IInv, ReadyForAll, ShouldStop, home
  <2>2. \A x \in Process :
          /\ stream'[x] = stream[x] /\ In(x, "waiting")' = In(x, "waiting")
          /\ Len(buffer'[x]) <= Len(buffer[x])
          /\ Ready(x) \subseteq Ready(x)'
    BY <1>0, <1>1, <1>3, ReadyFinite DEF IInv, Ready, In, At, ShouldStop, home
  <2> QED BY <1>7, <2>1, <2>2, StillReady
<1>11. CloseFacts'
  <2>1. closing[p] \notin {"flushing", "closed"}
    BY <1>0 DEF IInv, CloseFacts, In, At
  <2>2. \A x \in Process : closing[x] = "closed" => acking'[x] = acking[x]
    BY <1>4, <2>1
  <2>3. \A x \in Process : In(x, "publishing")' \subseteq In(x, "publishing")
    BY <1>0, <1>1, <1>3 DEF In, At, home
  <2> QED BY <1>1, <2>2, <2>3 DEF IInv, CloseFacts
<1>12. OnceEach'
  <2>1. \A s \in backlog' : s \in backlog \/ \A d \in Known : d.id # s.id
    BY <1>6, KnownType DEF IInv, IdFacts, TypeOK, Delivery
  <2>2. UNCHANGED <<setup, buffer, inFlight>>
    BY <1>0, <1>1, <1>2, <1>3 DEF clientVars
  <2>3. used'["slow"] = 0 => used["slow"] = 0
    BY <1>0, <1>1, <1>2, <1>3
  <2>4. \A e \in Consumer : hand'[e] = hand[e] \/ (hand'[e] = Nothing /\ pc[e] # "handle")
    BY <1>0, <1>1, <1>2, <1>3 DEF loopVars
  <2>5. \A e \in Consumer : pc'[e] = "handle" <=> pc[e] = "handle"
    BY <1>0, <1>1, <1>2, <1>3 DEF loopVars
  <2>6. \A x \in Process :
          stream'[x] = "open" /\ closing'[x] # "closed" =>
            stream[x] = "open" /\ closing[x] # "closed"
    BY <1>0, <1>1, <1>2, <1>3 DEF clientVars
  <2> QED BY <2>1, <2>2, <2>3, <2>4, <2>5, <2>6, StillOnce
<1> QED BY <1>6, <1>7, <1>8, <1>9, <1>10, <1>11, <1>12 DEF IInv

LEMMA PublishFailsIInv ==
  ASSUME IInv, NEW c \in Consumer, PublishFails(c)
  PROVE  IInv'
<1> DEFINE p == home[c]
           h == hand[c]
<1>0. /\ p \in Process /\ c \in setup.loops /\ setup.loops \subseteq Consumer /\ pc[c] = "publishing"
      /\ h \in Delivery /\ h \in Known /\ h.msg \in Message /\ h.id \in Nat /\ h.id < nextId
  <2>1. pc[c] = "publishing" /\ c \in setup.loops
    BY DEF PublishFails, IInv, Places
  <2>2. h # Nothing /\ h \in Delivery /\ h \in Known
    BY <2>1, KnownParts DEF IInv, TypeOK
  <2> QED BY <2>1, <2>2, SetupsAssumption DEF IInv, TypeOK, IdFacts, Delivery, home
<1>1. /\ pc' = [pc EXCEPT ![c] = "threw"] /\ hand' = [hand EXCEPT ![c] = Nothing]
      /\ Publish(h.msg, backlog) \/ UNCHANGED <<backlog, nextId>>
      /\ UNCHANGED acking
      /\ UNCHANGED <<setup, created, stream, buffer, inFlight, closing, aborted, sent, done>>
  BY DEF PublishFails, AskNext, Goto, clientVars
<1>2. used' \in [{"rejects", "troubles", "slow"} -> Nat] /\ used'["slow"] = used["slow"]
  BY DEF PublishFails, Trouble, Spend, IInv, TypeOK
<1>3. /\ \A e \in Consumer : hand'[e] = IF e = c THEN Nothing ELSE hand[e]
      /\ \A e \in Consumer : pc'[e] = IF e = c THEN "threw" ELSE pc[e]
  BY <1>1 DEF IInv, TypeOK
<1>4. /\ acking' \in [Process -> SUBSET Delivery]
      /\ \A x \in Process : x # p => acking'[x] = acking[x]
      /\ acking'[p] = acking[p]
  BY <1>0, <1>1 DEF IInv, TypeOK
<1>5. Known' \subseteq Known
  <2>1. \A x \in Process : /\ Buffered(x)' \subseteq Known /\ inFlight'[x] \subseteq Known
                           /\ acking'[x] \subseteq Known
    BY <1>0, <1>1, <1>4, KnownParts DEF Buffered
  <2>2. \A e \in Consumer : hand'[e] \in Known \union {Nothing}
    BY <1>3, KnownParts
  <2> QED BY <2>1, <2>2, NothingNew
<1>6. /\ backlog' \subseteq Outstanding /\ nextId' \in Nat
      /\ backlog \subseteq backlog'
      /\ IdFacts'
      /\ TRUE
      /\ \A s \in backlog' : s \in backlog \/ s.id = nextId
  <2>1. \A e \in Known : e.id \in Nat
    BY KnownType DEF IInv, Delivery
  <2>2. CASE Publish(h.msg, backlog)
    BY <1>0, <1>5, <2>1, <2>2, NewId DEF IInv
  <2>3. CASE UNCHANGED <<backlog, nextId>>
    BY <1>5, <2>3, FewerIds DEF IInv, TypeOK
  <2> QED BY <1>1, <2>2, <2>3
<1>7. TypeOK'
  <2>1. \A e \in Consumer : hand'[e] # Nothing <=> pc'[e] \in {"handle", "publishing"}
    BY <1>3 DEF IInv, TypeOK
  <2>2. /\ hand' \in [Consumer -> Delivery \union {Nothing}]
        /\ pc' \in [Consumer -> {"idle", "starting", "loop", "waiting", "handle", "publishing",
                                "returned", "threw", "crashed"}]
    BY <1>1 DEF IInv, TypeOK
  <2> QED BY <1>1, <1>2, <1>4, <1>6, <2>1, <2>2 DEF IInv, TypeOK
<1>8. Places'
  <2>1. \A e \in Consumer \ setup.loops : pc'[e] = "returned"
    BY <1>0, <1>3 DEF IInv, Places
  <2>2. \A e \in setup.loops : pc[e] = "crashed" => home[e] # p
    BY <1>0 DEF IInv, Places
  <2>3. \A e \in setup.loops : home[e] \in Process
    BY SetupsAssumption DEF IInv, TypeOK, home
  <2>4. ASSUME NEW e \in setup.loops, pc'[e] = "crashed"
        PROVE  /\ stream[home[e]] = "none" /\ acking'[home[e]] = {}
               /\ \A f \in setup.loops : home[f] = home[e] => pc'[f] = "crashed"
    <3>1. pc[e] = "crashed" /\ e # c
      BY <1>0, <1>3, <2>4
    <3> QED BY <1>0, <1>3, <1>4, <2>2, <2>3, <3>1, SMTT(30) DEF IInv, Places
  <2>5. ASSUME NEW x \in Process, stream[x] \in {"none", "starting", "failed"}
        PROVE  /\ buffer[x] = <<>> /\ inFlight[x] = {}
               /\ \A e \in At(x) : pc'[e] \notin {"waiting", "handle", "publishing"}
    BY <1>0, <1>3, <2>5 DEF IInv, Places, At
  <2> QED BY <1>1, <2>1, <2>4, <2>5 DEF Places, At, home
<1>9. AckedIsSafe' /\ NoLoss'
  BY <1>0, <1>1, <1>4, <1>6 DEF IInv, AckedIsSafe, NoLoss
<1>10. ReadyForAll'
  <2>1. \A e \in Consumer : pc'[e] = "waiting" => ~ShouldStop(e)'
    BY <1>1, <1>3 DEF IInv, ReadyForAll, ShouldStop, home
  <2>2. \A x \in Process :
          /\ stream'[x] = stream[x] /\ In(x, "waiting")' = In(x, "waiting")
          /\ Len(buffer'[x]) <= Len(buffer[x])
          /\ Ready(x) \subseteq Ready(x)'
    BY <1>0, <1>1, <1>3, ReadyFinite DEF IInv, Ready, In, At, ShouldStop, home
  <2> QED BY <1>7, <2>1, <2>2, StillReady
<1>11. CloseFacts'
  <2>1. closing[p] \notin {"flushing", "closed"}
    BY <1>0 DEF IInv, CloseFacts, In, At
  <2>2. \A x \in Process : closing[x] = "closed" => acking'[x] = acking[x]
    BY <1>4, <2>1
  <2>3. \A x \in Process : In(x, "publishing")' \subseteq In(x, "publishing")
    BY <1>0, <1>1, <1>3 DEF In, At, home
  <2> QED BY <1>1, <2>2, <2>3 DEF IInv, CloseFacts
<1>12. OnceEach'
  <2>1. \A s \in backlog' : s \in backlog \/ \A d \in Known : d.id # s.id
    BY <1>6, KnownType DEF IInv, IdFacts, TypeOK, Delivery
  <2>2. UNCHANGED <<setup, buffer, inFlight>>
    BY <1>0, <1>1, <1>2, <1>3 DEF clientVars
  <2>3. used'["slow"] = 0 => used["slow"] = 0
    BY <1>0, <1>1, <1>2, <1>3
  <2>4. \A e \in Consumer : hand'[e] = hand[e] \/ (hand'[e] = Nothing /\ pc[e] # "handle")
    BY <1>0, <1>1, <1>2, <1>3 DEF loopVars
  <2>5. \A e \in Consumer : pc'[e] = "handle" <=> pc[e] = "handle"
    BY <1>0, <1>1, <1>2, <1>3 DEF loopVars
  <2>6. \A x \in Process :
          stream'[x] = "open" /\ closing'[x] # "closed" =>
            stream[x] = "open" /\ closing[x] # "closed"
    BY <1>0, <1>1, <1>2, <1>3 DEF clientVars
  <2> QED BY <2>1, <2>2, <2>3, <2>4, <2>5, <2>6, StillOnce
<1> QED BY <1>6, <1>7, <1>8, <1>9, <1>10, <1>11, <1>12 DEF IInv

-----------------------------------------------------------------------------
LEMMA NextIInv == IInv /\ [Next]_vars => IInv'
<1> SUFFICES ASSUME IInv, [Next]_vars PROVE IInv'
  OBVIOUS
<1>1. CASE UNCHANGED vars
  <2>1. Known' = Known
    BY <1>1 DEF vars, clientVars, loopVars, Known, Held, Buffered
  <2>2. TypeOK' /\ Places' /\ IdFacts' /\ AckedIsSafe' /\ NoLoss' /\ CloseFacts'
    BY <1>1, <2>1 DEF vars, serviceVars, clientVars, loopVars, IInv, TypeOK, Places, IdFacts,
                      AckedIsSafe, NoLoss, CloseFacts, In, At, home
  <2>3. ReadyForAll' /\ OnceEach'
    BY <1>1 DEF vars, serviceVars, clientVars, loopVars, IInv, ReadyForAll, OnceEach, Ready,
                ShouldStop, StillLeased, In, At, home
  <2> QED BY <2>2, <2>3 DEF IInv
<1>2. ASSUME NEW m \in Message, Send(m) PROVE IInv'
  BY <1>2, SendIInv
<1>3. ASSUME NEW r \in backlog, Expire(r) \/ \E p \in Process : Deliver(p, r) PROVE IInv'
  BY <1>3, ExpireIInv, DeliverIInv
<1>4. ASSUME NEW c \in Consumer, Looping(c) PROVE IInv'
  BY <1>4, StartIInv, ReturnIInv, ThrowIInv, WaitIInv, YieldIInv, DiscardIInv DEF Looping
<1>5. ASSUME NEW c \in Consumer, Settling(c) \/ Abort(c) \/ PublishFails(c) PROVE IInv'
  BY <1>5, AckIInv, RejectIInv, PublishedIInv, AbortIInv, PublishFailsIInv DEF Settling
<1>6. ASSUME NEW p \in Process, NEW d \in acking[p], SendAck(p, d) PROVE IInv'
  BY <1>6, SendAckIInv
<1>7. ASSUME NEW p \in Process, StreamOpens(p) \/ StreamFails(p) \/ StreamError(p) PROVE IInv'
  BY <1>7, StreamOpensIInv, StreamFailsIInv, StreamErrorIInv
<1>8. ASSUME NEW p \in Process, Close(p) \/ Closing(p) \/ Crash(p) \/ Exit(p) \/ Restart(p)
      PROVE  IInv'
  BY <1>8, CloseIInv, CloseSubscriptionIInv, CloseClientIInv, CrashIInv, ExitIInv, RestartIInv
     DEF Closing
<1> QED BY <1>1, <1>2, <1>3, <1>4, <1>5, <1>6, <1>7, <1>8 DEF Next

LEMMA Invariance == Spec => []IInv
BY InitIInv, NextIInv, PTL DEF Spec

(* The type invariant holds in every deployment; part of it is that no two *)
(* deliveries of one id are in flight in a process.                        *)
THEOREM TypeCorrect == Spec => []TypeOK
<1>1. IInv => TypeOK
  BY DEF IInv
<1> QED BY <1>1, Invariance, PTL

(* At least once: from the moment send() resolved a message is outstanding *)
(* at the service until a handler has had it.  reject() publishes before it*)
(* acknowledges, and so no failed publish, no crash and no late or repeated*)
(* acknowledgement takes the last copy away.                               *)
THEOREM NothingLost == Spec => []NoLoss
<1>1. IInv => NoLoss
  BY DEF IInv
<1> QED BY <1>1, Invariance, PTL

(* wakeOne() wakes one loop for every message of a batch: no loop sleeps   *)
(* next to a message that nobody is about to take.                         *)
THEOREM WakeUpsSuffice == Spec => []NobodySleepsOnWork
<1>1. IInv => NobodySleepsOnWork
  <2> SUFFICES ASSUME IInv, NEW p \in Process,
                      stream[p] = "open", In(p, "loop") = {}, In(p, "waiting") # {}
               PROVE  buffer[p] = <<>>
    BY DEF NobodySleepsOnWork
  <2>1. Ready(p) = {}
    BY DEF Ready
  <2>2. Cardinality(Ready(p)) = 0
    BY <2>1, FS_EmptySet
  <2>3. Len(buffer[p]) <= 0 /\ buffer[p] \in Seq(Delivery)
    BY <2>2 DEF IInv, TypeOK, ReadyForAll
  <2> QED BY <2>3
<1> QED BY <1>1, Invariance, PTL

(* close() waits for what is in flight and for rejections under way, and   *)
(* then for the queued acknowledgements: none of that is left when it      *)
(* resolves.                                                               *)
THEOREM ClosedMeansFlushed == Spec => []ClosedIsFlushed
<1>1. IInv => ClosedIsFlushed
  <2> SUFFICES ASSUME IInv, NEW p \in Process, closing[p] = "closed", used["slow"] = 0,
                      NEW c \in In(p, "handle")
               PROVE  FALSE
    BY DEF ClosedIsFlushed, IInv, CloseFacts
  <2>1. c \in At(p) /\ pc[c] = "handle" /\ hand[c] # Nothing
    BY SetupsAssumption DEF In, At, IInv, TypeOK
  <2>2. hand[c] \in inFlight[p] /\ inFlight[p] = {}
    BY <2>1 DEF IInv, OnceEach, CloseFacts
  <2> QED BY <2>2
<1> QED BY <1>1, Invariance, PTL
===============================================================================
