---------------------- MODULE InMemoryTransport_proofs ----------------------
(***************************************************************************)
(* Theorems about InMemoryTransport, for every set of consumers and of     *)
(* callers of close() and every bound.                                     *)
(*                                                                         *)
(* The invariants of the component are not inductive by themselves: a copy *)
(* queued by send() or reject() is new only because every id and root in   *)
(* use is below nextId, and an acked message stays gone only because its   *)
(* root was sent.  Bookkeeping adds exactly that.  ClosingHasCaller adds   *)
(* that somebody called close() on a closing transport, which makes its    *)
(* phase in the refinement "closed" when the last delivery is settled.     *)
(***************************************************************************)
EXTENDS InMemoryTransport, TLAPS

Bookkeeping ==
  /\ \A e \in Entries : e.id < nextId /\ e.root < nextId
  /\ \A r \in sent : r < nextId
  /\ gone \subseteq sent
  /\ nextId <= MaxIds

ClosingHasCaller == closing => \E k \in Closer : closer[k] # "idle"

CloserFacts ==
  /\ ClosedIsDrained
  /\ WaitersHaveWork
  /\ ClosingHasCaller

IInv ==
  /\ TypeOK
  /\ Bookkeeping
  /\ IdsUnique
  /\ OneCopy
  /\ CloserFacts

(* The invariant holds initially.                                          *)
LEMMA InitIInv == Init => IInv
<1> SUFFICES ASSUME Init PROVE IInv
  OBVIOUS
<1>1. TypeOK
  BY DEF Init, TypeOK, Entries
<1>2. Bookkeeping
  BY BoundsAssumption DEF Init, Bookkeeping, Entries
<1>3. IdsUnique
  BY DEF Init, IdsUnique
<1>4. OneCopy
  BY DEF Init, OneCopy, Entries
<1>5. CloserFacts
  BY DEF Init, CloserFacts, ClosedIsDrained, WaitersHaveWork, ClosingHasCaller
<1> QED BY <1>1, <1>2, <1>3, <1>4, <1>5 DEF IInv

(* A step that leaves queue and registry alone only has to respect the     *)
(* types and the two facts about close().                                  *)
LEMMA QuietIInv ==
  ASSUME IInv, TypeOK',
         UNCHANGED <<queue, inFlight, nextId, sent, gone>>,
         CloserFacts'
  PROVE  IInv'
BY DEF IInv, Bookkeeping, IdsUnique, OneCopy, Entries

LEMMA SendIInv ==
  ASSUME IInv, NEW delay \in 0 .. MaxDelay, Send(delay)
  PROVE  IInv'
<1> DEFINE new == [id |-> nextId, root |-> nextId, count |-> 0, wait |-> delay]
<1>1. new \in Entry /\ new.id = nextId /\ new.root = nextId /\ new.count = 0
  BY BoundsAssumption DEF IInv, TypeOK, Entry
<1>2. queue' = queue \union {new} /\ inFlight' = inFlight /\ sent' = sent \union {nextId}
      /\ gone' = gone /\ nextId' = nextId + 1 /\ nextId < MaxIds
  BY DEF Send
<1> HIDE DEF new
<1>3. TypeOK'
  <2>1. \A e \in Entries' : e \in Entries \/ e = new
    BY <1>2 DEF Entries
  <2>2. \A e \in Entries' : /\ e.root <= e.id /\ e.id < nextId'
                            /\ e.count = 0 <=> e.id = e.root
    BY <1>1, <1>2, <2>1 DEF IInv, TypeOK, Entries, Entry
  <2> QED BY <1>1, <1>2, <2>2 DEF IInv, TypeOK, Send
<1>4. Bookkeeping'
  BY <1>1, <1>2, BoundsAssumption DEF IInv, TypeOK, Entry, Bookkeeping, Entries
<1>5. IdsUnique'
  BY <1>1, <1>2 DEF IInv, TypeOK, Entry, Bookkeeping, Entries, IdsUnique
<1>6. OneCopy'
  <2>1. {e.root : e \in Entries'} = {e.root : e \in Entries} \union {nextId}
    BY <1>1, <1>2 DEF Entries
  <2>2. nextId \notin sent /\ nextId \notin gone
    BY DEF IInv, TypeOK, Bookkeeping
  <2>3. \A e \in Entries : e.root # nextId
    BY DEF IInv, TypeOK, Bookkeeping, Entries, Entry
  <2> QED BY <1>1, <1>2, <2>1, <2>2, <2>3 DEF IInv, OneCopy, Entries
<1>7. CloserFacts'
  BY DEF IInv, Send, CloserFacts, ClosedIsDrained, WaitersHaveWork, ClosingHasCaller
<1> QED BY <1>3, <1>4, <1>5, <1>6, <1>7 DEF IInv

LEMMA TakeIInv ==
  ASSUME IInv, NEW c \in Consumer, Take(c)
  PROVE  IInv'
<1> PICK e \in queue : /\ queue' = queue \ {e}
                       /\ inFlight' = inFlight \union {e}
                       /\ known' = known \union {e.id}
  BY DEF Take
<1>1. ~closing /\ closing' = closing /\ closer' = closer /\ nextId' = nextId
      /\ sent' = sent /\ gone' = gone
  BY DEF Take
<1>2. Entries' = Entries
  BY DEF Entries
<1>3. TypeOK'
  <2>1. e.id \in Nat
    BY DEF IInv, TypeOK, Entry
  <2>2. \A f \in Entries' : /\ f.root <= f.id /\ f.id < nextId'
                            /\ f.count = 0 <=> f.id = f.root
    BY <1>1, <1>2 DEF IInv, TypeOK
  <2> QED BY <1>1, <2>1, <2>2 DEF IInv, TypeOK, Take
<1>4. Bookkeeping'
  BY <1>1, <1>2 DEF IInv, Bookkeeping
<1>5. IdsUnique'
  BY DEF IInv, IdsUnique
<1>6. OneCopy'
  BY <1>1, <1>2 DEF IInv, OneCopy
<1>7. CloserFacts'
  BY <1>1 DEF IInv, CloserFacts, ClosedIsDrained, WaitersHaveWork, ClosingHasCaller
<1> QED BY <1>3, <1>4, <1>5, <1>6, <1>7 DEF IInv

(* What settling a delivery does to the callers of close().                *)
LEMMA SettleClosers ==
  ASSUME IInv, NEW id, Settle(id), closing' = closing
  PROVE  /\ closer' \in [Closer -> {"idle", "waiting", "resolved"}]
         /\ CloserFacts'
<1>1. inFlight' \subseteq inFlight
  BY DEF Settle
<1>2. CASE inFlight' = {}
  BY <1>1, <1>2 DEF IInv, TypeOK, Settle, CloserFacts, ClosedIsDrained, WaitersHaveWork, ClosingHasCaller
<1>3. CASE inFlight' # {}
  BY <1>1, <1>3 DEF IInv, TypeOK, Settle, CloserFacts, ClosedIsDrained, WaitersHaveWork, ClosingHasCaller
<1> QED BY <1>2, <1>3

LEMMA AckIInv ==
  ASSUME IInv, NEW id \in Ids, Ack(id)
  PROVE  IInv'
<1>1. queue' = {e \in queue : e.id # id} /\ inFlight' = {e \in inFlight : e.id # id}
      /\ gone' = gone \union {e.root : e \in {f \in Entries : f.id = id}}
      /\ sent' = sent /\ nextId' = nextId /\ closing' = closing
  BY DEF Ack, Settle, Entries
<1>2. /\ closer' \in [Closer -> {"idle", "waiting", "resolved"}]
      /\ CloserFacts'
  BY SettleClosers DEF Ack
<1>3. \A e \in Entries : e.root \in sent \ gone
  BY DEF IInv, OneCopy
<1>4. TypeOK'
  <2>1. Entries' \subseteq Entries
    BY <1>1 DEF Entries
  <2> QED BY <1>1, <1>2, <1>3, <2>1 DEF IInv, TypeOK, Ack
<1>5. Bookkeeping'
  BY <1>1, <1>3 DEF IInv, Bookkeeping, Entries
<1>6. IdsUnique'
  BY <1>1 DEF IInv, IdsUnique
<1>7. OneCopy'
  <2>1. Entries' = {e \in Entries : e.id # id}
    BY <1>1 DEF Entries
  <2>2. \A e, f \in Entries : e.root = f.root => e = f
    BY DEF IInv, OneCopy, Entries
  <2>3. {e.root : e \in Entries'} = sent' \ gone'
    BY <1>1, <2>1, <2>2 DEF IInv, OneCopy
  <2> QED BY <1>1, <2>3 DEF IInv, OneCopy
<1> QED BY <1>2, <1>4, <1>5, <1>6, <1>7 DEF IInv

LEMMA RejectIInv ==
  ASSUME IInv, NEW id \in Ids, Reject(id)
  PROVE  IInv'
<1> PICK d \in inFlight :
      /\ d.id = id
      /\ queue' = queue \union
           {[id |-> nextId, root |-> d.root, count |-> d.count + 1, wait |-> 0]}
  BY DEF Reject
<1> DEFINE copy == [id |-> nextId, root |-> d.root, count |-> d.count + 1, wait |-> 0]
<1>1. copy \in Entry /\ copy.id = nextId /\ copy.root = d.root /\ copy.count # 0
  BY DEF IInv, TypeOK, Entry
<1>2. queue' = queue \union {copy} /\ inFlight' = {e \in inFlight : e.id # id}
      /\ gone' = gone /\ sent' = sent /\ nextId' = nextId + 1 /\ closing' = closing
      /\ nextId < MaxIds
  BY DEF Reject, Settle
<1> HIDE DEF copy
<1>3. /\ closer' \in [Closer -> {"idle", "waiting", "resolved"}]
      /\ CloserFacts'
  BY SettleClosers DEF Reject
<1>4. \A e \in inFlight : e # d => e.id # id
  BY DEF IInv, IdsUnique
<1>5. inFlight' = inFlight \ {d}
  BY <1>2, <1>4
<1>6. TypeOK'
  <2>1. \A e \in Entries' : e \in Entries \/ e = copy
    BY <1>2 DEF Entries
  <2>2. d.root < nextId
    BY DEF IInv, Bookkeeping, Entries
  <2>3. \A e \in Entries' : /\ e.root <= e.id /\ e.id < nextId'
                            /\ e.count = 0 <=> e.id = e.root
    BY <1>1, <1>2, <2>1, <2>2 DEF IInv, TypeOK, Entries, Entry
  <2> QED BY <1>1, <1>2, <1>3, <2>3 DEF IInv, TypeOK, Reject
<1>7. Bookkeeping'
  BY <1>1, <1>2, BoundsAssumption DEF IInv, TypeOK, Entry, Bookkeeping, Entries
<1>8. IdsUnique'
  BY <1>1, <1>2, <1>5 DEF IInv, TypeOK, Entry, Bookkeeping, Entries, IdsUnique
<1>9. OneCopy'
  <2>1. \A e \in Entries : e.root = d.root => e = d
    BY DEF IInv, OneCopy, Entries
  <2>2. d \notin queue
    BY DEF IInv, IdsUnique
  <2>3. Entries' = (Entries \ {d}) \union {copy}
    BY <1>2, <1>5, <2>2 DEF Entries
  <2>4. {e.root : e \in Entries'} = {e.root : e \in Entries}
    BY <1>1, <2>3 DEF Entries
  <2>5. /\ \A e \in queue', f \in inFlight' : e.root # f.root
        /\ \A e, f \in queue' : e.root = f.root => e = f
        /\ \A e, f \in inFlight' : e.root = f.root => e = f
    BY <1>1, <1>2, <1>5, <2>1, <2>2 DEF IInv, OneCopy, Entries
  <2> QED BY <1>2, <2>4, <2>5 DEF IInv, OneCopy
<1> QED BY <1>3, <1>6, <1>7, <1>8, <1>9 DEF IInv

LEMMA TickIInv ==
  ASSUME IInv, Tick
  PROVE  IInv'
<1> DEFINE aged(e) == [e EXCEPT !.wait = IF @ > 0 THEN @ - 1 ELSE 0]
<1>1. queue' = {aged(e) : e \in queue}
      /\ UNCHANGED <<inFlight, nextId, closing, closer, gen, aborted, known, sent, gone>>
  BY DEF Tick
<1>2. \A e \in queue : aged(e) \in Entry /\ aged(e).id = e.id /\ aged(e).root = e.root
      /\ aged(e).count = e.count
  BY DEF IInv, TypeOK, Entry
<1> HIDE DEF aged
<1>3. TypeOK'
  <2>1. \A f \in Entries' : f \in Entries \/ \E e \in queue : f = aged(e)
    BY <1>1 DEF Entries
  <2>2. \A f \in Entries' : /\ f.root <= f.id /\ f.id < nextId'
                            /\ f.count = 0 <=> f.id = f.root
    BY <1>1, <1>2, <2>1 DEF IInv, TypeOK, Entries
  <2> QED BY <1>1, <1>2, <2>2 DEF IInv, TypeOK
<1>4. Bookkeeping'
  BY <1>1, <1>2 DEF IInv, Bookkeeping, Entries
<1>5. IdsUnique'
  BY <1>1, <1>2 DEF IInv, IdsUnique
<1>6. OneCopy'
  <2>1. {e.root : e \in Entries'} = {e.root : e \in Entries}
    BY <1>1, <1>2 DEF Entries
  <2> QED BY <1>1, <1>2, <2>1 DEF IInv, OneCopy
<1>7. CloserFacts'
  BY <1>1 DEF IInv, CloserFacts, ClosedIsDrained, WaitersHaveWork, ClosingHasCaller
<1> QED BY <1>3, <1>4, <1>5, <1>6, <1>7 DEF IInv

LEMMA CloseIInv ==
  ASSUME IInv, NEW k \in Closer, Close(k)
  PROVE  IInv'
<1>1. TypeOK'
  BY DEF IInv, TypeOK, Close, Entries
<1>2. CloserFacts'
  BY DEF IInv, TypeOK, Close, CloserFacts, ClosedIsDrained, WaitersHaveWork, ClosingHasCaller
<1> QED BY <1>1, <1>2, QuietIInv DEF Close

(* Every step preserves the invariant.                                     *)
LEMMA NextIInv == IInv /\ [Next]_vars => IInv'
<1> SUFFICES ASSUME IInv, [Next]_vars PROVE IInv'
  OBVIOUS
<1>1. ASSUME NEW delay \in 0 .. MaxDelay, Send(delay) PROVE IInv'
  BY <1>1, SendIInv
<1>2. ASSUME NEW c \in Consumer, Take(c) PROVE IInv'
  BY <1>2, TakeIInv
<1>3. ASSUME NEW c \in Consumer, Resume(c) \/ Return(c) \/ Abort(c) PROVE IInv'
  <2>1. TypeOK'
    BY <1>3 DEF IInv, TypeOK, Resume, Return, Abort, Entries
  <2>2. CloserFacts'
    BY <1>3 DEF IInv, Resume, Return, Abort, CloserFacts, ClosedIsDrained, WaitersHaveWork, ClosingHasCaller
  <2> QED BY <1>3, <2>1, <2>2, QuietIInv DEF Resume, Return, Abort
<1>4. ASSUME NEW id \in Ids, Ack(id) PROVE IInv'
  BY <1>4, AckIInv
<1>5. ASSUME NEW id \in Ids, Reject(id) PROVE IInv'
  BY <1>5, RejectIInv
<1>6. ASSUME NEW id \in Ids, Locate(id) PROVE IInv'
  <2>1. TypeOK'
    BY <1>6, BoundsAssumption DEF IInv, TypeOK, Locate, Ids, Entries
  <2>2. CloserFacts'
    BY <1>6 DEF IInv, Locate, CloserFacts, ClosedIsDrained, WaitersHaveWork, ClosingHasCaller
  <2> QED BY <1>6, <2>1, <2>2, QuietIInv DEF Locate
<1>7. ASSUME NEW k \in Closer, Close(k) PROVE IInv'
  BY <1>7, CloseIInv
<1>8. CASE Tick
  BY <1>8, TickIInv
<1>9. CASE UNCHANGED vars
  BY <1>9, QuietIInv DEF vars, IInv, TypeOK, Entries, CloserFacts, ClosedIsDrained, WaitersHaveWork, ClosingHasCaller
<1> QED BY <1>1, <1>2, <1>3, <1>4, <1>5, <1>6, <1>7, <1>8, <1>9 DEF Next

(* A due message is overtaken only by those queued before it: no step puts *)
(* another one there, not the return of a rejected message either.         *)
LEMMA NextInOrder ==
  ASSUME IInv, [Next]_vars, NEW e \in queue, e \in queue', Available(e)
  PROVE  /\ {f.id : f \in inFlight' \ inFlight} \subseteq Before(e)
         /\ Before(e)' \subseteq Before(e)
<1>1. \A f \in Entries : f \in Entry /\ f.id < nextId
  BY DEF IInv, TypeOK, Entries
<1>2. ASSUME NEW delay \in 0 .. MaxDelay, Send(delay)
      PROVE  inFlight' \subseteq inFlight /\ Before(e)' \subseteq Before(e)
  <2>1. \A f \in queue' : f \in queue \/ f.id = nextId
    BY <1>2 DEF Send
  <2>2. e.id < nextId /\ e.id \in Nat /\ nextId \in Nat
    BY <1>1 DEF IInv, TypeOK, Entries, Entry
  <2>3. \A f \in queue' : f.id < e.id => f \in queue
    BY <2>1, <2>2
  <2> QED BY <1>2, <2>3 DEF Before, Send
<1>3. ASSUME NEW c \in Consumer, Take(c)
      PROVE  /\ {f.id : f \in inFlight' \ inFlight} \subseteq Before(e)
             /\ Before(e)' \subseteq Before(e)
  <2> PICK d \in queue : /\ \A o \in queue : Available(o) => d.id <= o.id
                         /\ queue' = queue \ {d}
                         /\ inFlight' = inFlight \union {d}
    BY <1>3 DEF Take
  <2>1. d # e /\ d.id # e.id /\ d.id <= e.id /\ d.id \in Nat /\ e.id \in Nat
    BY <1>1 DEF IInv, IdsUnique, Entries, Entry
  <2>2. d.id < e.id
    BY <2>1
  <2> QED BY <2>2 DEF Before
<1>4. ASSUME NEW id \in Ids, Ack(id)
      PROVE  inFlight' \subseteq inFlight /\ Before(e)' \subseteq Before(e)
  BY <1>4 DEF Ack, Settle, Before
<1>5. ASSUME NEW id \in Ids, Reject(id)
      PROVE  inFlight' \subseteq inFlight /\ Before(e)' \subseteq Before(e)
  <2>1. \A f \in queue' : f \in queue \/ f.id = nextId
    BY <1>5 DEF Reject
  <2>2. e.id < nextId /\ e.id \in Nat /\ nextId \in Nat
    BY <1>1 DEF IInv, TypeOK, Entries, Entry
  <2>3. \A f \in queue' : f.id < e.id => f \in queue
    BY <2>1, <2>2
  <2> QED BY <1>5, <2>3 DEF Before, Reject, Settle
<1>6. CASE Tick
  <2> DEFINE aged(f) == [f EXCEPT !.wait = IF @ > 0 THEN @ - 1 ELSE 0]
  <2>1. queue' = {aged(f) : f \in queue} /\ inFlight' = inFlight
    BY <1>6 DEF Tick
  <2>2. \A f \in queue : aged(f).id = f.id
    BY <1>1 DEF Entries, Entry
  <2> HIDE DEF aged
  <2> QED BY <2>1, <2>2 DEF Before
<1>7. ASSUME queue' = queue, inFlight' = inFlight
      PROVE  inFlight' \subseteq inFlight /\ Before(e)' \subseteq Before(e)
  BY <1>7 DEF Before
<1>8. ASSUME NEW c \in Consumer, Resume(c) \/ Return(c) \/ Abort(c)
      PROVE  queue' = queue /\ inFlight' = inFlight
  BY <1>8 DEF Resume, Return, Abort
<1>9. ASSUME NEW id \in Ids, Locate(id) PROVE queue' = queue /\ inFlight' = inFlight
  BY <1>9 DEF Locate
<1>10. ASSUME NEW k \in Closer, Close(k) PROVE queue' = queue /\ inFlight' = inFlight
  BY <1>10 DEF Close
<1>11. CASE UNCHANGED vars
  BY <1>7, <1>11 DEF vars
<1> QED BY <1>2, <1>3, <1>4, <1>5, <1>6, <1>7, <1>8, <1>9, <1>10, <1>11 DEF Next

(* The inductive invariant holds of every behaviour.                       *)
THEOREM Invariance == Spec => []IInv
BY InitIInv, NextIInv, PTL DEF Spec

(* Every reachable state is well typed.                                    *)
THEOREM TypeCorrect == Spec => []TypeOK
BY Invariance, PTL DEF IInv

(* However often others are rejected, a message that is due is passed only *)
(* by those that were queued before it.                                    *)
THEOREM NotOvertaken == Spec => InOrder
<1>1. IInv /\ [Next]_vars =>
        [\A e \in queue \intersect queue' : Available(e) =>
           /\ {f.id : f \in inFlight' \ inFlight} \subseteq Before(e)
           /\ Before(e)' \subseteq Before(e)]_vars
  BY NextInOrder
<1> QED BY <1>1, Invariance, PTL DEF Spec, InOrder

(* No message accepted by send() is ever lost or duplicated by the         *)
(* transport, and an acked one never comes back.                           *)
THEOREM NeitherLostNorDuplicated == Spec => []OneCopy
BY Invariance, PTL DEF IInv

(* After close() resolved nothing is in flight; while it waits, something  *)
(* is.                                                                     *)
THEOREM CloseDrains == Spec => [](ClosedIsDrained /\ WaitersHaveWork)
BY Invariance, PTL DEF IInv, CloserFacts

-----------------------------------------------------------------------------
(***************************************************************************)
(* Refinement.  Each action is Delivery's on the root of the entry it      *)
(* moves; Resume, Return, Abort, Locate, Tick, a second close() and the    *)
(* ack of a message already gone are stuttering steps.                     *)
(***************************************************************************)
Live(m) == \E e \in Entries : e.root = m

(* Where a message is, and how often it was redelivered, in terms of the   *)
(* registry and the queue.                                                 *)
StatusFacts ==
  \A m \in Ids :
    /\ statusBar[m] = "unsent"    <=> m \notin sent
    /\ statusBar[m] = "gone"      <=> m \in gone
    /\ statusBar[m] = "waiting"   <=> \E e \in queue : e.root = m
    /\ statusBar[m] = "delivered" <=> \E e \in inFlight : e.root = m
    /\ statusBar[m] \in {"unsent", "gone", "waiting", "delivered"}

CountFacts ==
  /\ \A e \in Entries : e.root \in Ids /\ redeliveriesBar[e.root] = e.count
  /\ \A m \in Ids : ~Live(m) => redeliveriesBar[m] = 0

LEMMA Mapped == IInv => StatusFacts /\ CountFacts
<1> SUFFICES ASSUME IInv PROVE StatusFacts /\ CountFacts
  OBVIOUS
<1>1. ASSUME NEW m \in Ids
      PROVE  /\ statusBar[m] = "unsent"    <=> m \notin sent
             /\ statusBar[m] = "gone"      <=> m \in gone
             /\ statusBar[m] = "waiting"   <=> \E e \in queue : e.root = m
             /\ statusBar[m] = "delivered" <=> \E e \in inFlight : e.root = m
             /\ statusBar[m] \in {"unsent", "gone", "waiting", "delivered"}
  <2>1. Live(m) <=> m \in sent \ gone
    BY DEF IInv, OneCopy, Live
  <2>2. gone \subseteq sent
    BY DEF IInv, Bookkeeping
  <2>3. ~ ((\E e \in queue : e.root = m) /\ (\E e \in inFlight : e.root = m))
    BY DEF IInv, OneCopy
  <2> QED BY <2>1, <2>2, <2>3 DEF statusBar, Live, Entries
<1>2. ASSUME NEW e \in Entries
      PROVE  e.root \in Ids /\ redeliveriesBar[e.root] = e.count
  <2>1. e.root \in Ids
    BY BoundsAssumption DEF IInv, TypeOK, Bookkeeping, Entries, Entry, Ids
  <2>2. \A f \in Entries : f.root = e.root => f = e
    BY DEF IInv, OneCopy, Entries
  <2>3. (CHOOSE f \in Entries : f.root = e.root) = e
    BY <2>2
  <2> QED BY <2>1, <2>3 DEF redeliveriesBar
<1>3. ASSUME NEW m \in Ids, ~Live(m) PROVE redeliveriesBar[m] = 0
  BY <1>3 DEF redeliveriesBar, Live
<1> QED BY <1>1, <1>2, <1>3 DEF StatusFacts, CountFacts

LEMMA MappedNext == IInv' => StatusFacts' /\ CountFacts'
BY Mapped, PTL

(* Two mapped functions are equal when they agree on every message.        *)
LEMMA MappedEqual ==
  ASSUME NEW st, NEW re, st = [m \in Ids |-> st[m]], re = [m \in Ids |-> re[m]],
         \A m \in Ids : statusBar'[m] = st[m],
         \A m \in Ids : redeliveriesBar'[m] = re[m]
  PROVE  statusBar' = st /\ redeliveriesBar' = re
BY DEF statusBar, redeliveriesBar

LEMMA InitRefines == Init => Promised!Init
<1> SUFFICES ASSUME Init PROVE Promised!Init
  OBVIOUS
<1>1. statusBar = [m \in Ids |-> "unsent"]
  BY DEF Init, statusBar
<1>2. redeliveriesBar = [m \in Ids |-> 0]
  BY DEF Init, redeliveriesBar, Entries
<1>3. phaseBar = "open"
  BY DEF Init, phaseBar
<1> QED BY <1>1, <1>2, <1>3 DEF Promised!Init

LEMMA SendRefines ==
  ASSUME IInv, IInv', NEW delay \in 0 .. MaxDelay, Send(delay)
  PROVE  Promised!Publish(nextId)
<1> DEFINE new == [id |-> nextId, root |-> nextId, count |-> 0, wait |-> delay]
<1>1. queue' = queue \union {new} /\ inFlight' = inFlight /\ sent' = sent \union {nextId}
      /\ gone' = gone /\ new.root = nextId /\ new.count = 0
  BY DEF Send
<1> HIDE DEF new
<1>2. StatusFacts /\ StatusFacts' /\ CountFacts /\ CountFacts'
  BY Mapped, MappedNext
<1>3. nextId \in Ids /\ nextId \notin sent /\ nextId \notin gone
  BY BoundsAssumption DEF IInv, TypeOK, Bookkeeping, Send, Ids
<1>4. \A m \in Ids : statusBar'[m] = IF m = nextId THEN "waiting" ELSE statusBar[m]
  BY <1>1, <1>2, <1>3 DEF StatusFacts
<1>5. \A m \in Ids : redeliveriesBar'[m] = redeliveriesBar[m]
  <2> SUFFICES ASSUME NEW m \in Ids PROVE redeliveriesBar'[m] = redeliveriesBar[m]
    OBVIOUS
  <2>1. CASE m = nextId
    <3>1. ~Live(m)
      BY <1>3, <2>1 DEF IInv, OneCopy, Live
    <3>2. redeliveriesBar'[m] = 0
      BY <1>1, <1>2, <2>1 DEF CountFacts, Entries
    <3> QED BY <1>2, <3>1, <3>2 DEF CountFacts
  <2>2. CASE m # nextId
    BY <1>1, <1>2, <2>2 DEF CountFacts, Entries, Live
  <2> QED BY <2>1, <2>2
<1>6. statusBar' = [statusBar EXCEPT ![nextId] = "waiting"]
      /\ redeliveriesBar' = redeliveriesBar
  <2>1. PICK st : st = [statusBar EXCEPT ![nextId] = "waiting"]
    OBVIOUS
  <2>2. PICK re : re = redeliveriesBar
    OBVIOUS
  <2>3. st = [m \in Ids |-> st[m]] /\ re = [m \in Ids |-> re[m]]
    BY <2>1, <2>2 DEF statusBar, redeliveriesBar
  <2>4. \A m \in Ids : statusBar'[m] = st[m]
    BY <1>3, <1>4, <2>1 DEF statusBar
  <2>5. \A m \in Ids : redeliveriesBar'[m] = re[m]
    BY <1>5, <2>2
  <2>6. statusBar' = st /\ redeliveriesBar' = re
    BY <2>3, <2>4, <2>5, MappedEqual
  <2> QED BY <2>1, <2>2, <2>6
<1>7. phaseBar = "open" /\ phaseBar' = phaseBar
  BY DEF Send, phaseBar
<1> QED BY <1>2, <1>3, <1>6, <1>7 DEF Promised!Publish, StatusFacts

LEMMA TakeRefines ==
  ASSUME IInv, IInv', NEW c \in Consumer, Take(c)
  PROVE  \E m \in Ids : Promised!Deliver(m)
<1> PICK e \in queue : queue' = queue \ {e} /\ inFlight' = inFlight \union {e}
  BY DEF Take
<1>1. StatusFacts /\ StatusFacts' /\ CountFacts /\ CountFacts'
  BY Mapped, MappedNext
<1>2. e.root \in Ids /\ Entries' = Entries /\ sent' = sent /\ gone' = gone
  BY <1>1 DEF CountFacts, Entries, Take
<1>3. \A f \in Entries : f.root = e.root => f = e
  BY DEF IInv, OneCopy, Entries
<1>4. \A m \in Ids : statusBar'[m] = IF m = e.root THEN "delivered" ELSE statusBar[m]
  BY <1>1, <1>2, <1>3 DEF StatusFacts, Entries
<1>5. \A m \in Ids : redeliveriesBar'[m] = redeliveriesBar[m]
  BY <1>1, <1>2 DEF CountFacts, Live
<1>6. statusBar' = [statusBar EXCEPT ![e.root] = "delivered"]
      /\ redeliveriesBar' = redeliveriesBar
  BY <1>4, <1>5, MappedEqual DEF statusBar, redeliveriesBar
<1>7. phaseBar = "open" /\ phaseBar' = phaseBar
  BY DEF Take, phaseBar
<1>8. statusBar[e.root] = "waiting"
  BY <1>1, <1>2 DEF StatusFacts
<1> QED BY <1>2, <1>6, <1>7, <1>8 DEF Promised!Deliver

(* The phase after a settlement that takes the delivery d out of flight.   *)
LEMMA SettledPhase ==
  ASSUME IInv, IInv', NEW id, NEW d \in inFlight, d.id = id, Settle(id), closing' = closing
  PROVE  phaseBar' = Promised!PhaseAfterSettling(d.root)
<1>1. StatusFacts /\ CountFacts
  BY Mapped
<1>2. inFlight' = inFlight \ {d}
  BY DEF IInv, IdsUnique, Settle
<1>3. (\A o \in Ids \ {d.root} : statusBar[o] # "delivered") <=> inFlight' = {}
  <2>1. ASSUME NEW f \in inFlight, f # d
        PROVE  f.root \in Ids \ {d.root} /\ statusBar[f.root] = "delivered"
    BY <1>1, <2>1 DEF IInv, OneCopy, StatusFacts, CountFacts, Entries
  <2> QED BY <1>1, <1>2, <2>1 DEF StatusFacts
<1>4. CASE ~closing
  BY <1>4 DEF phaseBar, Promised!PhaseAfterSettling
<1>5. CASE closing
  <2>1. /\ \A k \in Closer : closer[k] # "resolved"
        /\ \E k \in Closer : closer[k] = "waiting"
    BY <1>5 DEF IInv, TypeOK, CloserFacts, ClosedIsDrained, ClosingHasCaller
  <2>2. phaseBar = "closing"
    BY <1>5, <2>1 DEF phaseBar
  <2>3. CASE inFlight' # {}
    BY <1>3, <1>5, <2>1, <2>2, <2>3 DEF Settle, phaseBar, Promised!PhaseAfterSettling
  <2>4. CASE inFlight' = {}
    BY <1>3, <1>5, <2>1, <2>2, <2>4 DEF IInv, TypeOK, Settle, phaseBar, Promised!PhaseAfterSettling
  <2> QED BY <2>3, <2>4
<1> QED BY <1>4, <1>5 DEF IInv, TypeOK

LEMMA AckRefines ==
  ASSUME IInv, IInv', NEW id \in Ids, Ack(id)
  PROVE  (\E m \in Ids : Promised!Acknowledge(m)) \/ UNCHANGED Promised!vars
<1>1. queue' = {e \in queue : e.id # id} /\ inFlight' = {e \in inFlight : e.id # id}
      /\ gone' = gone \union {e.root : e \in {f \in Entries : f.id = id}}
      /\ sent' = sent /\ closing' = closing /\ Settle(id)
  BY DEF Ack, Settle, Entries
<1>2. StatusFacts /\ StatusFacts' /\ CountFacts /\ CountFacts'
  BY Mapped, MappedNext
<1>3. ASSUME NEW d \in Entries, d.id = id
      PROVE  /\ d.root \in Ids
             /\ statusBar' = [statusBar EXCEPT ![d.root] = "gone"]
             /\ redeliveriesBar' = [redeliveriesBar EXCEPT ![d.root] = 0]
  <2>1. /\ d.root \in Ids /\ Entries' = Entries \ {d}
        /\ gone' = gone \union {d.root}
        /\ queue' = queue \ {d} /\ inFlight' = inFlight \ {d}
    BY <1>1, <1>2, <1>3 DEF IInv, IdsUnique, Entries, CountFacts
  <2>2. \A f \in Entries : f.root = d.root => f = d
    BY DEF IInv, OneCopy, Entries
  <2>3. \A m \in Ids : statusBar'[m] = IF m = d.root THEN "gone" ELSE statusBar[m]
    BY <1>1, <1>2, <2>1, <2>2 DEF StatusFacts, Entries
  <2>4. \A m \in Ids : redeliveriesBar'[m] = IF m = d.root THEN 0 ELSE redeliveriesBar[m]
    BY <1>2, <2>1, <2>2 DEF CountFacts, Live
  <2>5. statusBar = [m \in Ids |-> statusBar[m]]
        /\ redeliveriesBar = [m \in Ids |-> redeliveriesBar[m]]
    BY DEF statusBar, redeliveriesBar
  <2> DEFINE st == [statusBar EXCEPT ![d.root] = "gone"]
             re == [redeliveriesBar EXCEPT ![d.root] = 0]
  <2>6. /\ st = [m \in Ids |-> st[m]]
        /\ re = [m \in Ids |-> re[m]]
        /\ \A m \in Ids : statusBar'[m] = st[m]
        /\ \A m \in Ids : redeliveriesBar'[m] = re[m]
    BY <2>1, <2>3, <2>4, <2>5
  <2> HIDE DEF st, re
  <2>7. statusBar' = st /\ redeliveriesBar' = re
    BY <2>6, MappedEqual
  <2> QED BY <2>1, <2>7 DEF st, re
<1>4. CASE \E d \in inFlight : d.id = id
  <2> PICK d \in inFlight : d.id = id
    BY <1>4
  <2>1. d.root \in Ids /\ statusBar[d.root] = "delivered"
    BY <1>2 DEF StatusFacts, CountFacts, Entries
  <2>2. phaseBar' = Promised!PhaseAfterSettling(d.root)
    BY <1>1, SettledPhase
  <2> QED BY <1>3, <2>1, <2>2 DEF Promised!Acknowledge, Entries
<1>5. CASE \E d \in queue : d.id = id
  <2> PICK d \in queue : d.id = id
    BY <1>5
  <2>1. d.root \in Ids /\ statusBar[d.root] = "waiting"
    BY <1>2 DEF StatusFacts, CountFacts, Entries
  <2>2. inFlight' = inFlight
    BY <1>1 DEF IInv, IdsUnique
  <2>3. phaseBar' = phaseBar
    BY <1>1, <2>2 DEF IInv, CloserFacts, WaitersHaveWork, Settle, phaseBar
  <2> QED BY <1>3, <2>1, <2>3 DEF Promised!Acknowledge, Entries
<1>6. CASE \A d \in Entries : d.id # id
  <2>1. queue' = queue /\ inFlight' = inFlight /\ gone' = gone
    BY <1>1, <1>6 DEF Entries
  <2>2. phaseBar' = phaseBar
    BY <1>1, <2>1 DEF IInv, CloserFacts, WaitersHaveWork, Settle, phaseBar
  <2>3. statusBar' = statusBar /\ redeliveriesBar' = redeliveriesBar
    BY <1>1, <2>1 DEF statusBar, redeliveriesBar, Entries
  <2> QED BY <2>2, <2>3 DEF Promised!vars
<1> QED BY <1>4, <1>5, <1>6 DEF Entries

LEMMA RejectRefines ==
  ASSUME IInv, IInv', NEW id \in Ids, Reject(id)
  PROVE  \E m \in Ids : Promised!Redeliver(m)
<1> PICK d \in inFlight :
      /\ d.id = id
      /\ queue' = queue \union
           {[id |-> nextId, root |-> d.root, count |-> d.count + 1, wait |-> 0]}
  BY DEF Reject
<1> DEFINE copy == [id |-> nextId, root |-> d.root, count |-> d.count + 1, wait |-> 0]
<1>1. copy.root = d.root /\ copy.count = d.count + 1
  OBVIOUS
<1>2. queue' = queue \union {copy} /\ gone' = gone /\ sent' = sent
      /\ closing' = closing /\ Settle(id)
  BY DEF Reject
<1> HIDE DEF copy
<1>3. StatusFacts /\ StatusFacts' /\ CountFacts /\ CountFacts'
  BY Mapped, MappedNext
<1>4. inFlight' = inFlight \ {d} /\ d \notin queue
  BY <1>2 DEF IInv, IdsUnique, Settle
<1>5. d.root \in Ids /\ statusBar[d.root] = "delivered" /\ redeliveriesBar[d.root] = d.count
  BY <1>3 DEF StatusFacts, CountFacts, Entries
<1>6. \A f \in Entries : f.root = d.root => f = d
  BY DEF IInv, OneCopy, Entries
<1>7. Entries' = (Entries \ {d}) \union {copy}
  BY <1>2, <1>4 DEF Entries
<1>8. \A m \in Ids : statusBar'[m] = IF m = d.root THEN "waiting" ELSE statusBar[m]
  <2> SUFFICES ASSUME NEW m \in Ids
               PROVE  statusBar'[m] = IF m = d.root THEN "waiting" ELSE statusBar[m]
    OBVIOUS
  <2>1. CASE m = d.root
    BY <1>1, <1>2, <1>3, <2>1 DEF StatusFacts
  <2>2. CASE m # d.root
    BY <1>1, <1>2, <1>3, <1>4, <2>2 DEF StatusFacts
  <2> QED BY <2>1, <2>2
<1>9. \A m \in Ids : redeliveriesBar'[m] =
        IF m = d.root THEN redeliveriesBar[d.root] + 1 ELSE redeliveriesBar[m]
  <2> SUFFICES ASSUME NEW m \in Ids
               PROVE  redeliveriesBar'[m] =
                        IF m = d.root THEN redeliveriesBar[d.root] + 1 ELSE redeliveriesBar[m]
    OBVIOUS
  <2>1. CASE m = d.root
    BY <1>1, <1>3, <1>5, <1>7, <2>1 DEF CountFacts
  <2>2. CASE m # d.root
    BY <1>1, <1>3, <1>7, <2>2 DEF CountFacts, Live
  <2> QED BY <2>1, <2>2
<1>10. /\ statusBar' = [statusBar EXCEPT ![d.root] = "waiting"]
       /\ redeliveriesBar' = [redeliveriesBar EXCEPT ![d.root] = @ + 1]
  <2> DEFINE re == [redeliveriesBar EXCEPT ![d.root] = redeliveriesBar[d.root] + 1]
  <2>1. re = [m \in Ids |-> re[m]]
        /\ \A m \in Ids : re[m] =
             IF m = d.root THEN redeliveriesBar[d.root] + 1 ELSE redeliveriesBar[m]
    BY <1>5 DEF redeliveriesBar
  <2>2. \A m \in Ids : redeliveriesBar'[m] = re[m]
    BY <1>9, <2>1
  <2> HIDE DEF re
  <2>3. statusBar' = [statusBar EXCEPT ![d.root] = "waiting"] /\ redeliveriesBar' = re
    BY <1>5, <1>8, <2>1, <2>2, MappedEqual DEF statusBar
  <2> QED BY <2>3 DEF re
<1>11. phaseBar' = Promised!PhaseAfterSettling(d.root)
  BY <1>2, SettledPhase
<1> QED BY <1>5, <1>10, <1>11 DEF Promised!Redeliver

LEMMA CloseRefines ==
  ASSUME IInv, IInv', NEW k \in Closer, Close(k)
  PROVE  Promised!Close \/ UNCHANGED Promised!vars
<1>1. StatusFacts /\ CountFacts
  BY Mapped
<1>2. statusBar' = statusBar /\ redeliveriesBar' = redeliveriesBar
  BY DEF Close, statusBar, redeliveriesBar, Entries
<1>3. (\E m \in Ids : statusBar[m] = "delivered") <=> inFlight # {}
  BY <1>1 DEF StatusFacts, CountFacts, Entries
<1>4. closer' = [closer EXCEPT ![k] = IF inFlight = {} THEN "resolved" ELSE "waiting"]
      /\ closing' = TRUE /\ closer \in [Closer -> {"idle", "waiting", "resolved"}]
  BY DEF Close, IInv, TypeOK
<1>5. CASE ~closing
  <2>1. \A j \in Closer : closer[j] # "resolved"
    BY <1>5 DEF IInv, CloserFacts, ClosedIsDrained
  <2>2. phaseBar' = IF inFlight = {} THEN "closed" ELSE "closing"
    BY <1>4, <2>1 DEF phaseBar
  <2> QED BY <1>2, <1>3, <1>5, <2>2 DEF Promised!Close, phaseBar
<1>6. CASE closing
  <2>1. (inFlight = {}) => \E j \in Closer : closer[j] = "resolved"
    BY <1>4, <1>6 DEF IInv, CloserFacts, WaitersHaveWork, ClosingHasCaller
  <2>2. \A j \in Closer : closer[j] = "resolved" => inFlight = {}
    BY DEF IInv, CloserFacts, ClosedIsDrained
  <2>3. phaseBar' = phaseBar
    BY <1>4, <1>6, <2>1, <2>2 DEF phaseBar
  <2> QED BY <1>2, <2>3 DEF Promised!vars
<1> QED BY <1>5, <1>6 DEF IInv, TypeOK

LEMMA TickRefines ==
  ASSUME IInv, IInv', Tick
  PROVE  UNCHANGED Promised!vars
<1> DEFINE aged(e) == [e EXCEPT !.wait = IF @ > 0 THEN @ - 1 ELSE 0]
<1>1. queue' = {aged(e) : e \in queue} /\ inFlight' = inFlight /\ sent' = sent
      /\ gone' = gone /\ closing' = closing /\ closer' = closer
  BY DEF Tick
<1>2. \A e \in queue : aged(e).root = e.root /\ aged(e).count = e.count
  BY DEF IInv, TypeOK, Entry
<1> HIDE DEF aged
<1>3. StatusFacts /\ StatusFacts' /\ CountFacts /\ CountFacts'
  BY Mapped, MappedNext
<1>4. \A m \in Ids : statusBar'[m] = statusBar[m]
  BY <1>1, <1>2, <1>3 DEF StatusFacts
<1>5. \A m \in Ids : redeliveriesBar'[m] = redeliveriesBar[m]
  <2> SUFFICES ASSUME NEW m \in Ids PROVE redeliveriesBar'[m] = redeliveriesBar[m]
    OBVIOUS
  <2>1. Live(m) <=> Live(m)'
    BY <1>1, <1>2 DEF Live, Entries
  <2>2. CASE ~Live(m)
    BY <1>3, <2>1, <2>2 DEF CountFacts
  <2>3. CASE Live(m)
    <3> PICK e \in Entries : e.root = m
      BY <2>3 DEF Live
    <3>1. \E f \in Entries' : f.root = m /\ f.count = e.count
      BY <1>1, <1>2 DEF Entries
    <3> QED BY <1>3, <3>1 DEF CountFacts
  <2> QED BY <2>2, <2>3
<1>6. statusBar' = statusBar /\ redeliveriesBar' = redeliveriesBar
  BY <1>4, <1>5, MappedEqual DEF statusBar, redeliveriesBar
<1>7. phaseBar' = phaseBar
  BY <1>1 DEF phaseBar
<1> QED BY <1>6, <1>7 DEF Promised!vars

LEMMA NextRefines == IInv /\ IInv' /\ [Next]_vars => [Promised!Next]_(Promised!vars)
<1> SUFFICES ASSUME IInv, IInv', [Next]_vars PROVE [Promised!Next]_(Promised!vars)
  OBVIOUS
<1>1. ASSUME NEW delay \in 0 .. MaxDelay, Send(delay) PROVE Promised!Next
  <2>1. nextId \in Ids
    BY <1>1, BoundsAssumption DEF IInv, TypeOK, Send, Ids
  <2> QED BY <1>1, <2>1, SendRefines DEF Promised!Next
<1>2. ASSUME NEW c \in Consumer, Take(c) PROVE Promised!Next
  BY <1>2, TakeRefines DEF Promised!Next
<1>3. ASSUME NEW id \in Ids, Ack(id) PROVE [Promised!Next]_(Promised!vars)
  BY <1>3, AckRefines DEF Promised!Next
<1>4. ASSUME NEW id \in Ids, Reject(id) PROVE Promised!Next
  BY <1>4, RejectRefines DEF Promised!Next
<1>5. ASSUME NEW k \in Closer, Close(k) PROVE [Promised!Next]_(Promised!vars)
  BY <1>5, CloseRefines DEF Promised!Next
<1>6. CASE Tick
  BY <1>6, TickRefines
<1>7. ASSUME UNCHANGED <<queue, inFlight, closing, closer, sent, gone>>
      PROVE  UNCHANGED Promised!vars
  BY <1>7 DEF Promised!vars, statusBar, redeliveriesBar, phaseBar, Entries
<1>8. ASSUME NEW c \in Consumer, Resume(c) \/ Return(c) \/ Abort(c)
      PROVE  UNCHANGED Promised!vars
  BY <1>7, <1>8 DEF Resume, Return, Abort
<1>9. ASSUME NEW id \in Ids, Locate(id) PROVE UNCHANGED Promised!vars
  BY <1>7, <1>9 DEF Locate
<1>10. CASE UNCHANGED vars
  BY <1>7, <1>10 DEF vars
<1> QED BY <1>1, <1>2, <1>3, <1>4, <1>5, <1>6, <1>8, <1>9, <1>10 DEF Next

(* The in-memory transport implements the contract of a transport.         *)
THEOREM ImplementsDelivery == Spec => KeepsDeliveryContract
BY InitRefines, NextRefines, Invariance, PTL DEF Spec, KeepsDeliveryContract, Promised!Spec
=============================================================================
