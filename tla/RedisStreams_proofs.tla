------------------------- MODULE RedisStreams_proofs -------------------------
(***************************************************************************)
(* Theorems about RedisStreams, for every deployment: any number of        *)
(* workers, operators and messages, any batch size, and any bound on       *)
(* rejections, crashes and entries that go idle under a live consumer.     *)
(*                                                                         *)
(* An entry may be in the hands of several processes at once, and each of  *)
(* them may acknowledge it, or append a copy and then acknowledge it.      *)
(* That loses nothing because a copy has a later id than the entry it      *)
(* stands for (AckedIsSafe), so no two processes can each rely on the      *)
(* entry that the other is about to delete.                                *)
(***************************************************************************)
EXTENDS RedisStreams, FiniteSetTheorems, TLAPS

(* Who has an entry in hand, and who has popped members.                   *)
Places ==
  \A p \in Process :
    /\ pc[p] \in {"handle", "discard"} \union SettleCommands => hand[p] \in Entry
    /\ pc[p] # "append" => due[p] = {}

(* What p has read and not yet settled.                                    *)
Has(p) == batch[p] \union ({hand[p]} \ {NoEntry})

(* Redis hands out ids in order: one id, one entry, also for those a       *)
(* process read and that are deleted since.                                *)
IdFacts ==
  /\ IsFiniteSet(stream)
  /\ lastRead < nextId
  /\ \A id \in pending : id <= lastRead
  /\ \A e, o \in stream : e.id = o.id => e = o
  /\ \A e \in stream : 0 < e.id /\ e.id < nextId
  /\ \A p \in Process : \A e \in Has(p) :
       e.id < nextId /\ \A o \in stream : o.id = e.id => o = e

(* m needs no entry up to id n: it is settled, stranded, yet to be         *)
(* appended, or the group will deliver a later entry.                      *)
Safe(m, n) ==
  \/ m \in done \union stranded
  \/ \E d \in delayed : d.msg = m
  \/ \E p \in Process : \E d \in due[p] : d.msg = m
  \/ \E e \in stream : e.msg = m /\ Deliverable(e) /\ n < e.id

(* What is about to be acknowledged and deleted was handled or removed, or *)
(* has a later copy.                                                       *)
AckedIsSafe ==
  \A p \in Process : pc[p] \in SettleCommands => Safe(hand[p].msg, hand[p].id)

SentIsSafe == \A m \in sent : Safe(m, 0)

(* Workers hold what the group has delivered; nobody holds what is idle,   *)
(* unless it went idle under a live consumer.                              *)
HeldFacts ==
  \A p \in Worker : \A e \in Has(p) :
    e.id <= lastRead /\ (used.slow = 0 => e.id \notin idle)

(* Nothing is in flight when close() goes on.                              *)
FlushingIsIdle == \A p \in Process : closing[p] = "flushing" => pc[p] # "handle"

IInv ==
  /\ TypeOK
  /\ Places
  /\ IdFacts
  /\ AckedIsSafe
  /\ SentIsSafe
  /\ HeldFacts
  /\ ExclusiveWhilePrompt
  /\ FlushingIsIdle
  /\ ClosedHoldsNothing

-----------------------------------------------------------------------------
(* The library states that a finite set of entries has a last one only     *)
(* for orderings in general.                                               *)
LEMMA LastExists ==
  ASSUME NEW S, IsFiniteSet(S), S # {}, \A e \in S : e.id \in Nat
  PROVE  \E e \in S : \A o \in S : o.id <= e.id
<1> DEFINE Above(e) == {o \in S : e.id < o.id}
           T == {Above(e) : e \in S}
           R == StrictSubsetOrdering(S)
<1>1. IsWellFoundedOn(R, SUBSET S)
  BY FS_StrictSubsetOrderingWellFounded, FS_FiniteSubsetsOfFinite
<1>2. T \subseteq SUBSET S /\ T # {}
  OBVIOUS
<1> HIDE DEF R, T
<1>3. PICK top \in T : \A x \in T : <<x, top>> \notin R
  BY <1>1, <1>2, WFMin
<1>4. PICK e \in S : top = Above(e)
  BY DEF T
<1>5. ASSUME NEW o \in S, ~ (o.id <= e.id)
      PROVE  FALSE
  <2>1. o.id \in Nat /\ e.id \in Nat /\ \A x \in S : x.id \in Nat
    OBVIOUS
  <2>2. Above(o) \subseteq Above(e) /\ o \in Above(e) /\ o \notin Above(o)
    BY <1>5, <2>1
  <2>3. <<Above(o), top>> \in R
    BY <1>4, <2>2 DEF R, StrictSubsetOrdering
  <2> QED BY <1>3, <2>3 DEF T
<1> QED BY <1>5

(* FirstOf leaves out nothing that precedes what it takes.                 *)
LEMMA FirstOfIsFirst ==
  ASSUME TypeOK, NEW S \in SUBSET Entry, IsFiniteSet(S)
  PROVE  /\ FirstOf(S) \subseteq S /\ IsFiniteSet(FirstOf(S))
         /\ \A e \in FirstOf(S), o \in S : o.id < e.id => o \in FirstOf(S)
<1>1. FirstOf(S) \subseteq S /\ IsFiniteSet(FirstOf(S))
  BY FS_Subset DEF FirstOf
<1>2. ASSUME NEW e \in FirstOf(S), NEW o \in S, o.id < e.id
      PROVE  o \in FirstOf(S)
  <2> DEFINE Before(x) == {y \in S : y.id < x.id}
  <2>1. Before(o) \subseteq Before(e)
    BY <1>1, <1>2 DEF Entry
  <2>2. IsFiniteSet(Before(e)) /\ IsFiniteSet(Before(o))
    BY FS_Subset
  <2>3. Cardinality(Before(o)) <= Cardinality(Before(e))
    BY <2>1, <2>2, FS_Subset
  <2>4. Cardinality(Before(o)) \in Nat /\ Cardinality(Before(e)) \in Nat
    BY <2>2, FS_CardinalityType
  <2>5. BatchSize \in Nat /\ Cardinality(Before(e)) < BatchSize
    BY SetupsAssumption DEF TypeOK, BatchSize, FirstOf
  <2>6. Cardinality(Before(o)) < BatchSize
    BY <2>3, <2>4, <2>5
  <2> QED BY <2>6 DEF FirstOf
<1> QED BY <1>1, <1>2

LEMMA HoldsHas ==
  \A p \in Process, id \in Nat : Holds(p, id) <=> \E e \in Has(p) : e.id = id
BY DEF Holds, Has

LEMMA HasType == TypeOK => \A p \in Process : Has(p) \subseteq Entry
BY DEF TypeOK, Has

-----------------------------------------------------------------------------
(* The invariant holds initially.                                          *)
LEMMA InitIInv == Init => IInv
<1> SUFFICES ASSUME Init PROVE IInv
  OBVIOUS
<1>1. TypeOK
  BY DEF Init, TypeOK, Start, LoopCommands, SettleCommands
<1>2. \A p \in Process : Has(p) = {}
  BY DEF Init, Has
<1>3. IdFacts
  BY <1>2, FS_EmptySet DEF Init, IdFacts
<1>4. Places /\ AckedIsSafe /\ SentIsSafe /\ FlushingIsIdle /\ ClosedHoldsNothing
  BY DEF Init, Places, AckedIsSafe, SentIsSafe, FlushingIsIdle, ClosedHoldsNothing,
         Start, SettleCommands
<1>5. HeldFacts /\ ExclusiveWhilePrompt
  BY <1>2 DEF Init, HeldFacts, ExclusiveWhilePrompt, Process
<1> QED BY <1>1, <1>3, <1>4, <1>5 DEF IInv

-----------------------------------------------------------------------------
(* Steps that take away                                                    *)

(* Deleting, acknowledging, forgetting and passing on keep ids unique and  *)
(* entries with one worker.                                                *)
LEMMA OnlyLess ==
  ASSUME IInv, TypeOK',
         stream' \subseteq stream, pending' \subseteq pending, idle' \subseteq idle,
         UNCHANGED <<lastRead, nextId>>, used'.slow = used.slow,
         \A p \in Process : Has(p)' \subseteq Has(p)
  PROVE  IdFacts' /\ HeldFacts' /\ ExclusiveWhilePrompt'
<1> USE DEF IInv
<1>1. IdFacts'
  BY FS_Subset DEF IdFacts
<1>2. HeldFacts'
  BY DEF HeldFacts, Process
<1>3. \A p \in Process, id \in Nat : Holds(p, id)' => Holds(p, id)
  <2>1. \A p \in Process, id \in Nat : Holds(p, id)' <=> \E e \in Has(p)' : e.id = id
    BY DEF Holds, Has
  <2> QED BY <2>1, HoldsHas
<1>4. ExclusiveWhilePrompt'
  BY <1>3 DEF ExclusiveWhilePrompt, Process, TypeOK
<1> QED BY <1>1, <1>2, <1>4

(* Where safety stays, it is enough to look at what was just sent, and at  *)
(* what was just given to a settlement.                                    *)
LEMMA StillSafe ==
  ASSUME IInv,
         \A k : \A n \in Nat : n < nextId /\ Safe(k, n) => Safe(k, n)',
         \A m \in sent' : m \in sent \/ Safe(m, 0)',
         \A p \in Process : pc'[p] \in SettleCommands =>
           \/ pc[p] \in SettleCommands /\ hand'[p] = hand[p]
           \/ \E e \in Entry : hand'[p] = e /\ Safe(e.msg, e.id)'
  PROVE  AckedIsSafe' /\ SentIsSafe'
<1>0. 0 < nextId
  BY DEF IInv, TypeOK, IdFacts
<1>1. SentIsSafe'
  BY <1>0 DEF IInv, SentIsSafe
<1>2. ASSUME NEW p \in Process, pc'[p] \in SettleCommands,
             pc[p] \in SettleCommands /\ hand'[p] = hand[p]
      PROVE  Safe(hand[p].msg, hand[p].id)'
  <2> DEFINE m == hand[p].msg
             n == hand[p].id
  <2>1. Safe(m, n)
    BY <1>2 DEF IInv, AckedIsSafe
  <2>2. n \in Nat /\ n < nextId
    BY <1>2, NoEntryAssumption DEF IInv, IdFacts, Places, Has, Entry, TypeOK
  <2>3. hand'[p].msg = m /\ hand'[p].id = n
    BY <1>2
  <2> HIDE DEF m, n
  <2>4. \/ m \in done' \union stranded'
        \/ \E d \in delayed' : d.msg = m
        \/ \E q \in Process : \E d \in due'[q] : d.msg = m
        \/ \E e \in stream' : e.msg = m /\ (e.id > lastRead' \/ e.id \in pending') /\ n < e.id
    BY <2>1, <2>2 DEF Safe, Deliverable
  <2> QED BY <2>3, <2>4 DEF Safe, Deliverable
<1>3. ASSUME NEW p \in Process, pc'[p] \in SettleCommands,
             NEW e \in Entry, hand'[p] = e, Safe(e.msg, e.id)'
      PROVE  Safe(hand[p].msg, hand[p].id)'
  BY <1>3 DEF Safe, Deliverable
<1>4. AckedIsSafe'
  BY <1>2, <1>3 DEF AckedIsSafe
<1> QED BY <1>1, <1>4

(* An id that nobody has seen.                                             *)
LEMMA NewId ==
  ASSUME IInv, NEW new, new \subseteq Entry, IsFiniteSet(new),
         \A e, o \in new : e = o, \A e \in new : e.id = nextId,
         stream' = stream \union new, nextId' = nextId + 1,
         UNCHANGED <<lastRead, pending, idle, batch, hand>>, used'.slow = used.slow
  PROVE  IdFacts' /\ HeldFacts' /\ ExclusiveWhilePrompt'
<1>1. lastRead \in Nat /\ nextId \in Nat /\ stream \subseteq Entry
  BY DEF IInv, TypeOK
<1>2. \A p \in Process : Has(p)' = Has(p) /\ Has(p) \subseteq Entry
  BY HasType DEF IInv, Has
<1>3. IsFiniteSet(stream')
  BY FS_Union DEF IInv, IdFacts
<1>4. \A e \in stream' : e \in stream \/ (e \in new /\ e.id = nextId)
  OBVIOUS
<1>5. /\ \A e, o \in stream' : e.id = o.id => e = o
      /\ \A e \in stream' : 0 < e.id /\ e.id < nextId'
  BY <1>1, <1>4 DEF IInv, IdFacts, Entry
<1>6. \A p \in Process : \A e \in Has(p) :
        e.id < nextId' /\ \A o \in stream' : o.id = e.id => o = e
  BY <1>1, <1>2, <1>4 DEF IInv, IdFacts, Entry
<1>7. IdFacts'
  BY <1>1, <1>2, <1>3, <1>5, <1>6 DEF IInv, IdFacts
<1>8. HeldFacts'
  BY <1>2 DEF IInv, HeldFacts, Process
<1>9. ExclusiveWhilePrompt'
  BY DEF IInv, ExclusiveWhilePrompt, Holds
<1> QED BY <1>7, <1>8, <1>9

(* What Enqueue writes.                                                    *)
LEMMA EnqueueFacts ==
  ASSUME IInv, NEW m \in Message, Enqueue(m),
         UNCHANGED <<lastRead, pending, idle, batch, hand>>, used'.slow = used.slow
  PROVE  /\ delayed' \subseteq Member /\ stream' \subseteq Entry /\ nextId' \in Nat
         /\ delayed \subseteq delayed' /\ stream \subseteq stream'
         /\ \/ \E d \in delayed' : d.msg = m
            \/ \E e \in stream' : e.msg = m /\ e.id = nextId
         /\ IdFacts' /\ HeldFacts' /\ ExclusiveWhilePrompt'
<1> DEFINE d == [id |-> nextId, msg |-> m, due |-> FALSE]
           e == [id |-> nextId, msg |-> m]
<1>1. d \in Member /\ d.msg = m /\ e \in Entry /\ e.msg = m /\ e.id = nextId
  BY DEF IInv, TypeOK, Member, Entry
<1>2. nextId \in Nat /\ nextId' = nextId + 1
  BY DEF Enqueue, IInv, TypeOK
<1>3. \/ delayed' = delayed \union {d} /\ stream' = stream \union {}
      \/ stream' = stream \union {e} /\ delayed' = delayed
  BY DEF Enqueue
<1> HIDE DEF d, e
<1>4. IsFiniteSet({}) /\ IsFiniteSet({e})
  BY FS_EmptySet, FS_Singleton
<1>5. IdFacts' /\ HeldFacts' /\ ExclusiveWhilePrompt'
  <2>1. CASE stream' = stream \union {}
    BY <1>2, <1>4, <2>1, NewId
  <2>2. CASE stream' = stream \union {e}
    BY <1>1, <1>2, <1>4, <2>2, NewId
  <2> QED BY <1>3, <2>1, <2>2
<1> QED BY <1>1, <1>2, <1>3, <1>5 DEF IInv, TypeOK

-----------------------------------------------------------------------------
(* Publishing                                                              *)

LEMMA SendIInv ==
  ASSUME IInv, NEW m \in Message, Send(m)
  PROVE  IInv'
<1> USE DEF IInv, Send, Goto, redisVars, localVars, closeVars, historyVars
<1>a. /\ delayed' \subseteq Member /\ stream' \subseteq Entry /\ nextId' \in Nat
      /\ delayed \subseteq delayed' /\ stream \subseteq stream'
      /\ \/ \E d \in delayed' : d.msg = m
         \/ \E e \in stream' : e.msg = m /\ e.id = nextId
      /\ IdFacts' /\ HeldFacts' /\ ExclusiveWhilePrompt'
  BY EnqueueFacts
<1>1. TypeOK'
  BY <1>a DEF TypeOK
<1>2. Places'
  BY DEF TypeOK, Places, LoopCommands, SettleCommands
<1>3. IdFacts' /\ HeldFacts' /\ ExclusiveWhilePrompt'
  BY <1>a
<1>4. \A k : \A n \in Nat : n < nextId /\ Safe(k, n) => Safe(k, n)'
  BY <1>a DEF Safe, Deliverable
<1>5. AckedIsSafe' /\ SentIsSafe'
  <2>1. \A q \in Process : pc'[q] \in SettleCommands =>
          \/ pc[q] \in SettleCommands /\ hand'[q] = hand[q]
          \/ \E e \in Entry : hand'[q] = e /\ Safe(e.msg, e.id)'
    OBVIOUS
  <2>2. Safe(m, 0)'
    BY <1>a DEF TypeOK, IdFacts, Safe, Deliverable, Entry
  <2>3. \A k \in sent' : k \in sent \/ Safe(k, 0)'
    BY <2>2
  <2> QED BY <1>4, <2>1, <2>3, StillSafe
<1>6. FlushingIsIdle' /\ ClosedHoldsNothing'
  BY DEF TypeOK, FlushingIsIdle, ClosedHoldsNothing, LoopCommands, SettleCommands
<1> QED BY <1>1, <1>2, <1>3, <1>5, <1>6

LEMMA BecomeDueIInv ==
  ASSUME IInv, NEW d \in delayed, BecomeDue(d)
  PROVE  IInv'
<1> USE DEF IInv, BecomeDue, Goto, redisVars, localVars, closeVars, historyVars
<1>1. TypeOK'
  <2>1. d \in Member /\ [d EXCEPT !.due = TRUE] \in Member
    BY DEF TypeOK, Member
  <2> QED BY <2>1 DEF TypeOK
<1>2. Places'
  BY DEF TypeOK, Places, LoopCommands, SettleCommands
<1>3. IdFacts' /\ HeldFacts' /\ ExclusiveWhilePrompt'
  <2>1. \A q \in Process : Has(q)' \subseteq Has(q)
    BY DEF TypeOK, Has
  <2>2. stream' \subseteq stream /\ pending' \subseteq pending /\ idle' \subseteq idle
    OBVIOUS
  <2>3. used'.slow = used.slow
    BY DEF TypeOK
  <2> QED BY <1>1, <2>1, <2>2, <2>3, OnlyLess
<1>4. \A k : \A n \in Nat : n < nextId /\ Safe(k, n) => Safe(k, n)'
  <2>1. d \in Member /\ [d EXCEPT !.due = TRUE].msg = d.msg
    BY DEF TypeOK, Member
  <2>2. \A x \in delayed : \E y \in delayed' : y.msg = x.msg
    BY <2>1
  <2> QED BY <2>2 DEF Safe, Deliverable
<1>5. AckedIsSafe' /\ SentIsSafe'
  <2>1. \A q \in Process : pc'[q] \in SettleCommands =>
          \/ pc[q] \in SettleCommands /\ hand'[q] = hand[q]
          \/ \E e \in Entry : hand'[q] = e /\ Safe(e.msg, e.id)'
    BY DEF TypeOK, LoopCommands, SettleCommands
  <2> QED BY <1>4, <2>1, StillSafe
<1>6. FlushingIsIdle' /\ ClosedHoldsNothing'
  BY DEF TypeOK, FlushingIsIdle, ClosedHoldsNothing, LoopCommands, SettleCommands
<1> QED BY <1>1, <1>2, <1>3, <1>5, <1>6

-----------------------------------------------------------------------------
(* The get() loop                                                          *)

LEMMA PollIInv ==
  ASSUME IInv, NEW p \in Process, Poll(p)
  PROVE  IInv'
<1> USE DEF IInv, Poll, Goto, redisVars, localVars, closeVars, historyVars, ShouldStop
<1>1. TypeOK'
  BY DEF TypeOK, Places, Entry, LoopCommands, SettleCommands
<1>2. Places'
  BY DEF TypeOK, Places, LoopCommands, SettleCommands
<1>3. IdFacts' /\ HeldFacts' /\ ExclusiveWhilePrompt'
  <2>1. \A q \in Process : Has(q)' \subseteq Has(q)
    BY DEF TypeOK, Has
  <2>2. stream' \subseteq stream /\ pending' \subseteq pending /\ idle' \subseteq idle
    OBVIOUS
  <2>3. used'.slow = used.slow
    BY DEF TypeOK
  <2> QED BY <1>1, <2>1, <2>2, <2>3, OnlyLess
<1>4. \A k : \A n \in Nat : n < nextId /\ Safe(k, n) => Safe(k, n)'
  BY DEF TypeOK, Places, Safe, Deliverable, LoopCommands
<1>5. AckedIsSafe' /\ SentIsSafe'
  <2>1. \A q \in Process : pc'[q] \in SettleCommands =>
          \/ pc[q] \in SettleCommands /\ hand'[q] = hand[q]
          \/ \E e \in Entry : hand'[q] = e /\ Safe(e.msg, e.id)'
    BY DEF TypeOK, LoopCommands, SettleCommands
  <2> QED BY <1>4, <2>1, StillSafe
<1>6. FlushingIsIdle' /\ ClosedHoldsNothing'
  BY DEF TypeOK, FlushingIsIdle, ClosedHoldsNothing, LoopCommands, SettleCommands
<1> QED BY <1>1, <1>2, <1>3, <1>5, <1>6

LEMMA DrainIInv ==
  ASSUME IInv, NEW p \in Process, Drain(p)
  PROVE  IInv'
<1> USE DEF IInv, Drain, Goto, redisVars, localVars, closeVars, historyVars, Command,
            Accepted
<1>1. TypeOK'
  BY DEF TypeOK, Places, Entry, LoopCommands, SettleCommands
<1>2. Places'
  BY DEF TypeOK, Places, LoopCommands, SettleCommands
<1>3. IdFacts' /\ HeldFacts' /\ ExclusiveWhilePrompt'
  <2>1. \A q \in Process : Has(q)' \subseteq Has(q)
    BY DEF TypeOK, Has
  <2>2. stream' \subseteq stream /\ pending' \subseteq pending /\ idle' \subseteq idle
    OBVIOUS
  <2>3. used'.slow = used.slow
    BY DEF TypeOK
  <2> QED BY <1>1, <2>1, <2>2, <2>3, OnlyLess
<1>4. \A k : \A n \in Nat : n < nextId /\ Safe(k, n) => Safe(k, n)'
  BY DEF TypeOK, Places, Safe, Deliverable, LoopCommands
<1>5. AckedIsSafe' /\ SentIsSafe'
  <2>1. \A q \in Process : pc'[q] \in SettleCommands =>
          \/ pc[q] \in SettleCommands /\ hand'[q] = hand[q]
          \/ \E e \in Entry : hand'[q] = e /\ Safe(e.msg, e.id)'
    BY DEF TypeOK, LoopCommands, SettleCommands
  <2> QED BY <1>4, <2>1, StillSafe
<1>6. FlushingIsIdle' /\ ClosedHoldsNothing'
  BY DEF TypeOK, FlushingIsIdle, ClosedHoldsNothing, LoopCommands, SettleCommands
<1> QED BY <1>1, <1>2, <1>3, <1>5, <1>6

LEMMA AppendIInv ==
  ASSUME IInv, NEW p \in Process, Append(p)
  PROVE  IInv'
<1> USE DEF IInv, Append, Goto, redisVars, localVars, closeVars, historyVars, Command,
            Accepted
<1> PICK d \in due[p] : /\ stream' = stream \union {[id |-> nextId, msg |-> d.msg]}
                        /\ due' = [due EXCEPT ![p] = @ \ {d}]
                        /\ Goto(p, IF due[p] = {d} THEN "reclaim" ELSE "append")
  OBVIOUS
<1> DEFINE new == [id |-> nextId, msg |-> d.msg]
<1>b. stream' = stream \union {new}
  OBVIOUS
<1>c. d \in Member /\ new \in Entry /\ new.id = nextId /\ new.msg = d.msg /\ nextId' \in Nat
  BY DEF TypeOK, Member, Entry
<1> HIDE DEF new
<1>1. TypeOK'
  BY <1>b, <1>c DEF TypeOK, LoopCommands, SettleCommands
<1>2. Places'
  BY <1>b DEF TypeOK, Places, LoopCommands, SettleCommands
<1>3. IdFacts' /\ HeldFacts' /\ ExclusiveWhilePrompt'
  <2>1. IsFiniteSet({new}) /\ used'.slow = used.slow
    BY FS_Singleton
  <2> QED BY <1>b, <1>c, <2>1, NewId
<1>4. \A k : \A n \in Nat : n < nextId /\ Safe(k, n) => Safe(k, n)'
  <2>1. lastRead \in Nat /\ nextId \in Nat /\ lastRead < nextId
    BY DEF TypeOK, IdFacts
  <2>2. \A x \in stream : x \in stream'
    BY <1>b
  <2>3. SUFFICES ASSUME NEW k, NEW n \in Nat, n < nextId, Safe(k, n) PROVE Safe(k, n)'
    OBVIOUS
  <2> QED BY <1>b, <1>c, <2>1, <2>2, <2>3 DEF TypeOK, Safe, Deliverable
<1>5. AckedIsSafe' /\ SentIsSafe'
  <2>1. \A q \in Process : pc'[q] \in SettleCommands =>
          \/ pc[q] \in SettleCommands /\ hand'[q] = hand[q]
          \/ \E e \in Entry : hand'[q] = e /\ Safe(e.msg, e.id)'
    BY DEF TypeOK, LoopCommands, SettleCommands
  <2> QED BY <1>4, <2>1, StillSafe
<1>6. FlushingIsIdle' /\ ClosedHoldsNothing'
  BY DEF TypeOK, FlushingIsIdle, ClosedHoldsNothing, LoopCommands, SettleCommands
<1> QED BY <1>1, <1>2, <1>3, <1>5, <1>6

LEMMA ReclaimIInv ==
  ASSUME IInv, NEW p \in Process, Reclaim(p)
  PROVE  IInv'
<1> USE DEF IInv, Reclaim, Goto, redisVars, localVars, closeVars, historyVars, Command,
            Accepted
<1> DEFINE S == {e \in stream : e.id \in idle}
           claimed == FirstOf(S)
<1>a. /\ batch' = [batch EXCEPT ![p] = claimed]
      /\ idle' = idle \ {e.id : e \in claimed}
      /\ claimed \subseteq S /\ S \subseteq stream /\ S \subseteq Entry
  <2>1. S \in SUBSET Entry /\ IsFiniteSet(S)
    BY FS_Subset DEF TypeOK, IdFacts
  <2>2. claimed \subseteq S
    BY <2>1, FirstOfIsFirst
  <2> QED BY <2>1, <2>2
<1> HIDE DEF claimed
<1>1. TypeOK'
  <2>1. pc' \in [Process -> {"absent", "loop", "handle", "returned", "crashed", "locate"}
                              \union LoopCommands \union SettleCommands]
    BY DEF TypeOK, LoopCommands, SettleCommands
  <2>2. left' \in [Process -> 0 .. 2]
    BY DEF TypeOK
  <2>3. due' \in [Process -> SUBSET Member] /\ hand' \in [Process -> Entry \union {NoEntry}]
    BY DEF TypeOK
  <2>4. batch' \in [Process -> SUBSET Entry]
    BY <1>a DEF TypeOK
  <2>5. pending' \subseteq Nat /\ idle' \subseteq pending' /\ done' \subseteq Message
    BY <1>a DEF TypeOK
  <2>6. lastRead' \in Nat /\ stranded' \subseteq Message /\ stream' \subseteq Entry
    BY DEF TypeOK, Member
  <2>7. used' \in [{"rejects", "crashes", "slow"} -> Nat]
    BY DEF TypeOK
  <2> QED BY <2>1, <2>2, <2>3, <2>4, <2>5, <2>6, <2>7 DEF TypeOK
<1>2. Places'
  BY DEF TypeOK, Places, LoopCommands, SettleCommands
<1>3. IdFacts' /\ HeldFacts' /\ ExclusiveWhilePrompt'
  <2>1. IdFacts'
    <3>1. \A q \in Process : \A e \in Has(q)' : e \in Has(q) \/ e \in stream
      BY <1>a DEF TypeOK, Has
    <3> QED BY <3>1 DEF IdFacts
  <2>2. \A q \in Process : \A e \in Has(q)' : e \in Has(q) \/ (q = p /\ e \in claimed)
    BY <1>a DEF TypeOK, Has
  <2>3. \A e \in claimed : e.id \in idle /\ e.id \in pending /\ e.id <= lastRead /\ e.id \notin idle'
    BY <1>a DEF TypeOK, IdFacts
  <2>4. HeldFacts'
    BY <1>a, <2>2, <2>3 DEF HeldFacts, Process
  <2>5. \A q \in Process, id \in Nat : Holds(q, id)' =>
          Holds(q, id) \/ (q = p /\ \E e \in claimed : e.id = id)
    <3>1. \A q \in Process, id \in Nat : Holds(q, id)' <=> \E e \in Has(q)' : e.id = id
      BY DEF Holds, Has
    <3> QED BY <2>2, <3>1, HoldsHas
  <2>6. used.slow = 0 => \A q \in Worker, id \in Nat : id \in idle => ~Holds(q, id)
    BY HoldsHas DEF HeldFacts, Process
  <2>7. ExclusiveWhilePrompt'
    <3> SUFFICES ASSUME used.slow = 0, NEW q \in Worker, NEW r \in Worker, NEW id \in pending,
                        Holds(q, id)', Holds(r, id)'
                 PROVE  q = r
      BY DEF ExclusiveWhilePrompt
    <3>1. id \in Nat /\ q \in Process /\ r \in Process
      BY DEF TypeOK, Process
    <3>2. CASE id \in idle
      BY <2>5, <2>6, <3>1, <3>2
    <3>3. CASE id \notin idle
      BY <2>3, <2>5, <3>1, <3>3 DEF ExclusiveWhilePrompt
    <3> QED BY <3>2, <3>3
  <2> QED BY <2>1, <2>4, <2>7
<1>4. \A k : \A n \in Nat : n < nextId /\ Safe(k, n) => Safe(k, n)'
  BY DEF TypeOK, Places, Safe, Deliverable, LoopCommands
<1>5. AckedIsSafe' /\ SentIsSafe'
  <2>1. \A q \in Process : pc'[q] \in SettleCommands =>
          \/ pc[q] \in SettleCommands /\ hand'[q] = hand[q]
          \/ \E e \in Entry : hand'[q] = e /\ Safe(e.msg, e.id)'
    BY DEF TypeOK, LoopCommands, SettleCommands
  <2> QED BY <1>4, <2>1, StillSafe
<1>6. FlushingIsIdle' /\ ClosedHoldsNothing'
  BY DEF TypeOK, FlushingIsIdle, ClosedHoldsNothing, LoopCommands, SettleCommands
<1> QED BY <1>1, <1>2, <1>3, <1>5, <1>6

LEMMA ReadIInv ==
  ASSUME IInv, NEW p \in Process, Read(p)
  PROVE  IInv'
<1> USE DEF IInv, Read, Goto, redisVars, localVars, closeVars, historyVars, Command,
            Accepted
<1> DEFINE S == {e \in stream : e.id > lastRead}
           fresh == FirstOf(S)
<1>a. /\ batch' = [batch EXCEPT ![p] = @ \union fresh]
      /\ pending' = pending \union {e.id : e \in fresh}
      /\ fresh \subseteq S /\ IsFiniteSet(fresh)
      /\ S \subseteq stream /\ \A e \in S : e \in Entry /\ e.id > lastRead
      /\ \A e \in fresh, o \in S : o.id < e.id => o \in fresh
  <2>1. S \in SUBSET Entry /\ IsFiniteSet(S)
    BY FS_Subset DEF TypeOK, IdFacts
  <2>2. /\ fresh \subseteq S /\ IsFiniteSet(fresh)
        /\ \A e \in fresh, o \in S : o.id < e.id => o \in fresh
    BY <2>1, FirstOfIsFirst
  <2> QED BY <2>1, <2>2
<1>b. /\ lastRead' \in Nat /\ lastRead <= lastRead' /\ lastRead' < nextId
      /\ \A e \in fresh : e.id <= lastRead'
      /\ lastRead' = lastRead \/ \E e \in fresh : e.id = lastRead'
  <2>0. lastRead' = IF fresh = {} THEN lastRead
                    ELSE (CHOOSE e \in fresh : \A o \in fresh : o.id <= e.id).id
    OBVIOUS
  <2> HIDE DEF fresh, S
  <2>1. CASE fresh = {}
    BY <2>0, <2>1 DEF TypeOK, IdFacts
  <2>2. CASE fresh # {}
    <3>1. \A e \in fresh : e.id \in Nat
      BY <1>a DEF Entry
    <3>2. \E e \in fresh : \A o \in fresh : o.id <= e.id
      BY <1>a, <2>2, <3>1, LastExists
    <3>3. PICK last \in fresh : lastRead' = last.id /\ \A o \in fresh : o.id <= last.id
      BY <2>0, <2>2, <3>2
    <3>4. last \in stream /\ last.id > lastRead /\ last.id \in Nat /\ lastRead \in Nat
      BY <1>a, <3>1 DEF TypeOK
    <3>5. last.id < nextId
      BY <3>4 DEF IdFacts
    <3>6. lastRead' \in Nat /\ lastRead <= lastRead' /\ lastRead' < nextId
      BY <3>3, <3>4, <3>5
    <3>7. \A e \in fresh : e.id <= lastRead'
      BY <3>3
    <3> QED BY <3>3, <3>6, <3>7
  <2> QED BY <2>1, <2>2
<1> HIDE DEF fresh
<1>1. TypeOK'
  <2>1. pc' \in [Process -> {"absent", "loop", "handle", "returned", "crashed", "locate"}
                              \union LoopCommands \union SettleCommands]
    BY DEF TypeOK, LoopCommands, SettleCommands
  <2>2. left' \in [Process -> 0 .. 2]
    BY DEF TypeOK
  <2>3. due' \in [Process -> SUBSET Member] /\ hand' \in [Process -> Entry \union {NoEntry}]
    BY DEF TypeOK
  <2>4. batch' \in [Process -> SUBSET Entry]
    BY <1>a, <1>b DEF TypeOK
  <2>5. pending' \subseteq Nat /\ idle' \subseteq pending' /\ done' \subseteq Message
    <3>1. {e.id : e \in fresh} \subseteq Nat
      BY <1>a DEF Entry
    <3> QED BY <1>a, <3>1 DEF TypeOK
  <2>6. lastRead' \in Nat /\ stranded' \subseteq Message /\ stream' \subseteq Entry
    BY <1>a, <1>b DEF TypeOK, Member
  <2>7. used' \in [{"rejects", "crashes", "slow"} -> Nat]
    BY DEF TypeOK
  <2> QED BY <2>1, <2>2, <2>3, <2>4, <2>5, <2>6, <2>7 DEF TypeOK
<1>2. Places'
  BY DEF TypeOK, Places, LoopCommands, SettleCommands
<1>3. IdFacts' /\ HeldFacts' /\ ExclusiveWhilePrompt'
  <2>1. \A q \in Process : \A e \in Has(q)' : e \in Has(q) \/ (q = p /\ e \in fresh)
    BY <1>a DEF TypeOK, Has
  <2>2. \A e \in fresh : e \in stream /\ e.id \in Nat /\ e.id > lastRead /\ e.id <= lastRead'
                         /\ e.id < nextId
    <3>1. \A e \in fresh : e \in stream /\ e.id > lastRead /\ e.id <= lastRead'
      BY <1>a, <1>b
    <3>2. \A e \in stream : e.id \in Nat /\ e.id < nextId
      BY DEF TypeOK, IdFacts, Entry
    <3> QED BY <3>1, <3>2
  <2>3. IdFacts'
    <3>1. \A q \in Process : \A e \in Has(q)' : e \in Has(q) \/ e \in stream
      BY <2>1, <2>2
    <3>2. \A id \in pending' : id <= lastRead'
      <4>1. ASSUME NEW id \in pending PROVE id <= lastRead'
        BY <1>b DEF TypeOK, IdFacts
      <4> QED BY <1>a, <2>2, <4>1
    <3> QED BY <1>b, <3>1, <3>2 DEF IdFacts
  <2>4. HeldFacts'
    <3>1. ASSUME NEW q \in Worker, NEW e \in Has(q)'
          PROVE  e.id <= lastRead' /\ (used.slow = 0 => e.id \notin idle)
      <4>1. CASE e \in Has(q)
        <5>1. e.id \in Nat
          BY <4>1, HasType DEF Process, Entry
        <5> QED BY <1>b, <4>1, <5>1 DEF HeldFacts, TypeOK
      <4>2. CASE e \in fresh
        BY <2>2, <4>2 DEF IdFacts, TypeOK
      <4> QED BY <2>1, <4>1, <4>2 DEF Process
    <3> QED BY <3>1 DEF HeldFacts
  <2>5. \A q \in Process, id \in Nat : Holds(q, id)' =>
          Holds(q, id) \/ (q = p /\ \E e \in fresh : e.id = id)
    <3>1. \A q \in Process, id \in Nat : Holds(q, id)' <=> \E e \in Has(q)' : e.id = id
      BY DEF Holds, Has
    <3> QED BY <2>1, <3>1, HoldsHas
  <2>6. \A q \in Worker, id \in Nat : Holds(q, id) => id <= lastRead
    BY HoldsHas DEF HeldFacts, Process
  <2>7. ExclusiveWhilePrompt'
    <3> SUFFICES ASSUME used.slow = 0, NEW q \in Worker, NEW r \in Worker, NEW id \in pending',
                        Holds(q, id)', Holds(r, id)'
                 PROVE  q = r
      BY DEF ExclusiveWhilePrompt
    <3>1. id \in Nat /\ q \in Process /\ r \in Process /\ lastRead \in Nat
      BY <1>1 DEF TypeOK, Process
    <3>2. CASE id > lastRead
      BY <2>5, <2>6, <3>1, <3>2
    <3>3. CASE id <= lastRead
      <4>1. id \in pending
        BY <1>a, <2>2, <3>1, <3>3
      <4>2. Holds(q, id) /\ Holds(r, id)
        BY <2>2, <2>5, <3>1, <3>3
      <4> QED BY <4>1, <4>2 DEF ExclusiveWhilePrompt
    <3> QED BY <3>1, <3>2, <3>3
  <2> QED BY <2>3, <2>4, <2>7
<1>4. \A k : \A n \in Nat : n < nextId /\ Safe(k, n) => Safe(k, n)'
  <2>1. \A e \in stream : Deliverable(e) => Deliverable(e)'
    <3>1. ASSUME NEW e \in stream, e.id > lastRead, ~ (e.id > lastRead'), e.id \notin pending'
          PROVE  FALSE
      <4>1. e \in S /\ e.id \in Nat
        BY <3>1 DEF TypeOK, Entry
      <4>2. PICK last \in fresh : last.id = lastRead'
        BY <1>b, <3>1
      <4>3. last \in stream /\ last.id \in Nat
        BY <1>a, <4>2 DEF TypeOK, Entry
      <4>4. e.id < last.id
        BY <1>a, <3>1, <4>1, <4>2, <4>3 DEF IdFacts
      <4> QED BY <1>a, <3>1, <4>1, <4>2, <4>4
    <3> QED BY <1>a, <3>1 DEF Deliverable
  <2> QED BY <2>1 DEF Safe
<1>5. AckedIsSafe' /\ SentIsSafe'
  <2>1. \A q \in Process : pc'[q] \in SettleCommands =>
          \/ pc[q] \in SettleCommands /\ hand'[q] = hand[q]
          \/ \E e \in Entry : hand'[q] = e /\ Safe(e.msg, e.id)'
    BY DEF TypeOK, LoopCommands, SettleCommands
  <2> QED BY <1>4, <2>1, StillSafe
<1>6. FlushingIsIdle' /\ ClosedHoldsNothing'
  BY DEF TypeOK, FlushingIsIdle, ClosedHoldsNothing, LoopCommands, SettleCommands
<1> QED BY <1>1, <1>2, <1>3, <1>5, <1>6

LEMMA YieldIInv ==
  ASSUME IInv, NEW p \in Process, Yield(p)
  PROVE  IInv'
<1> USE DEF IInv, Yield, Goto, redisVars, localVars, closeVars, historyVars, ShouldStop
<1>1. TypeOK'
  BY DEF TypeOK, Places, Entry, LoopCommands, SettleCommands
<1>2. Places'
  BY DEF TypeOK, Places, LoopCommands, SettleCommands
<1>3. IdFacts' /\ HeldFacts' /\ ExclusiveWhilePrompt'
  <2>1. \A q \in Process : Has(q)' \subseteq Has(q)
    BY DEF TypeOK, Has
  <2>2. stream' \subseteq stream /\ pending' \subseteq pending /\ idle' \subseteq idle
    OBVIOUS
  <2>3. used'.slow = used.slow
    BY DEF TypeOK
  <2> QED BY <1>1, <2>1, <2>2, <2>3, OnlyLess
<1>4. \A k : \A n \in Nat : n < nextId /\ Safe(k, n) => Safe(k, n)'
  BY DEF TypeOK, Places, Safe, Deliverable, LoopCommands
<1>5. AckedIsSafe' /\ SentIsSafe'
  <2>1. \A q \in Process : pc'[q] \in SettleCommands =>
          \/ pc[q] \in SettleCommands /\ hand'[q] = hand[q]
          \/ \E e \in Entry : hand'[q] = e /\ Safe(e.msg, e.id)'
    BY DEF TypeOK, LoopCommands, SettleCommands
  <2> QED BY <1>4, <2>1, StillSafe
<1>6. FlushingIsIdle' /\ ClosedHoldsNothing'
  BY DEF TypeOK, FlushingIsIdle, ClosedHoldsNothing, LoopCommands, SettleCommands
<1> QED BY <1>1, <1>2, <1>3, <1>5, <1>6

LEMMA DiscardIInv ==
  ASSUME IInv, NEW p \in Process, Discard(p)
  PROVE  IInv'
<1> USE DEF IInv, Discard, Goto, redisVars, localVars, closeVars, historyVars, Command,
            Accepted
<1>0. PICK h \in Entry :
        /\ hand[p] = h /\ h \in Has(p) /\ h.id \in Nat /\ h.msg \in Message /\ h.id < nextId
        /\ \A e \in stream : e.id = h.id => e = h
  BY NoEntryAssumption DEF TypeOK, Places, IdFacts, Has, Entry, SettleCommands
<1>1. TypeOK'
  <2>1. pc' \in [Process -> {"absent", "loop", "handle", "returned", "crashed", "locate"}
                              \union LoopCommands \union SettleCommands]
    BY DEF TypeOK, LoopCommands, SettleCommands
  <2>2. left' \in [Process -> 0 .. 2]
    BY DEF TypeOK
  <2>3. due' \in [Process -> SUBSET Member] /\ hand' \in [Process -> Entry \union {NoEntry}]
    BY DEF TypeOK
  <2>4. batch' \in [Process -> SUBSET Entry]
    BY <1>0 DEF TypeOK
  <2>5. pending' \subseteq Nat /\ idle' \subseteq pending' /\ done' \subseteq Message
    BY <1>0 DEF TypeOK
  <2>6. lastRead' \in Nat /\ stranded' \subseteq Message /\ stream' \subseteq Entry
    BY DEF TypeOK, Member
  <2>7. used' \in [{"rejects", "crashes", "slow"} -> Nat]
    BY DEF TypeOK
  <2> QED BY <2>1, <2>2, <2>3, <2>4, <2>5, <2>6, <2>7 DEF TypeOK
<1>2. Places'
  BY DEF TypeOK, Places, LoopCommands, SettleCommands
<1>3. IdFacts' /\ HeldFacts' /\ ExclusiveWhilePrompt'
  <2>1. \A q \in Process : Has(q)' \subseteq Has(q)
    BY DEF TypeOK, Has
  <2>2. stream' \subseteq stream /\ pending' \subseteq pending /\ idle' \subseteq idle
    OBVIOUS
  <2>3. used'.slow = used.slow
    BY DEF TypeOK
  <2> QED BY <1>1, <2>1, <2>2, <2>3, OnlyLess
<1>4. \A k : \A n \in Nat : n < nextId /\ Safe(k, n) => Safe(k, n)'
  BY <1>0 DEF TypeOK, Safe, Deliverable
<1>5. AckedIsSafe' /\ SentIsSafe'
  <2>1. \A q \in Process : pc'[q] \in SettleCommands =>
          \/ pc[q] \in SettleCommands /\ hand'[q] = hand[q]
          \/ \E e \in Entry : hand'[q] = e /\ Safe(e.msg, e.id)'
    BY DEF TypeOK, LoopCommands, SettleCommands
  <2> QED BY <1>4, <2>1, StillSafe
<1>6. FlushingIsIdle' /\ ClosedHoldsNothing'
  BY DEF TypeOK, FlushingIsIdle, ClosedHoldsNothing, LoopCommands, SettleCommands
<1> QED BY <1>1, <1>2, <1>3, <1>5, <1>6

LEMMA ReturnIInv ==
  ASSUME IInv, NEW p \in Process, Return(p)
  PROVE  IInv'
<1> USE DEF IInv, Return, Goto, redisVars, localVars, closeVars, historyVars, ShouldStop
<1>1. TypeOK'
  BY DEF TypeOK, Places, Entry, LoopCommands, SettleCommands
<1>2. Places'
  BY DEF TypeOK, Places, LoopCommands, SettleCommands
<1>3. IdFacts' /\ HeldFacts' /\ ExclusiveWhilePrompt'
  <2>1. \A q \in Process : Has(q)' \subseteq Has(q)
    BY DEF TypeOK, Has
  <2>2. stream' \subseteq stream /\ pending' \subseteq pending /\ idle' \subseteq idle
    OBVIOUS
  <2>3. used'.slow = used.slow
    BY DEF TypeOK
  <2> QED BY <1>1, <2>1, <2>2, <2>3, OnlyLess
<1>4. \A k : \A n \in Nat : n < nextId /\ Safe(k, n) => Safe(k, n)'
  BY DEF TypeOK, Places, Safe, Deliverable, LoopCommands
<1>5. AckedIsSafe' /\ SentIsSafe'
  <2>1. \A q \in Process : pc'[q] \in SettleCommands =>
          \/ pc[q] \in SettleCommands /\ hand'[q] = hand[q]
          \/ \E e \in Entry : hand'[q] = e /\ Safe(e.msg, e.id)'
    BY DEF TypeOK, LoopCommands, SettleCommands
  <2> QED BY <1>4, <2>1, StillSafe
<1>6. FlushingIsIdle' /\ ClosedHoldsNothing'
  BY DEF TypeOK, FlushingIsIdle, ClosedHoldsNothing, LoopCommands, SettleCommands
<1> QED BY <1>1, <1>2, <1>3, <1>5, <1>6

LEMMA RefusedIInv ==
  ASSUME IInv, NEW p \in Process, Refused(p)
  PROVE  IInv'
<1> USE DEF IInv, Refused, Goto, redisVars, localVars, closeVars, historyVars, Accepted
<1>1. TypeOK'
  <2>1. pc' \in [Process -> {"absent", "loop", "handle", "returned", "crashed", "locate"}
                              \union LoopCommands \union SettleCommands]
    BY DEF TypeOK, LoopCommands, SettleCommands
  <2>2. left' \in [Process -> 0 .. 2]
    BY DEF TypeOK
  <2>3. due' \in [Process -> SUBSET Member] /\ hand' \in [Process -> Entry \union {NoEntry}]
    BY DEF TypeOK
  <2>4. batch' \in [Process -> SUBSET Entry]
    BY DEF TypeOK
  <2>5. pending' \subseteq Nat /\ idle' \subseteq pending' /\ done' \subseteq Message
    BY DEF TypeOK
  <2>6. lastRead' \in Nat /\ stranded' \subseteq Message /\ stream' \subseteq Entry
    BY DEF TypeOK, Member
  <2>7. used' \in [{"rejects", "crashes", "slow"} -> Nat]
    BY DEF TypeOK
  <2> QED BY <2>1, <2>2, <2>3, <2>4, <2>5, <2>6, <2>7 DEF TypeOK
<1>2. Places'
  BY DEF TypeOK, Places, LoopCommands, SettleCommands
<1>3. IdFacts' /\ HeldFacts' /\ ExclusiveWhilePrompt'
  <2>1. \A q \in Process : Has(q)' \subseteq Has(q)
    BY DEF TypeOK, Has
  <2>2. stream' \subseteq stream /\ pending' \subseteq pending /\ idle' \subseteq idle
    OBVIOUS
  <2>3. used'.slow = used.slow
    BY DEF TypeOK
  <2> QED BY <1>1, <2>1, <2>2, <2>3, OnlyLess
<1>4. \A k : \A n \in Nat : n < nextId /\ Safe(k, n) => Safe(k, n)'
  BY DEF TypeOK, Places, Safe, Deliverable, LoopCommands
<1>5. AckedIsSafe' /\ SentIsSafe'
  <2>1. \A q \in Process : pc'[q] \in SettleCommands =>
          \/ pc[q] \in SettleCommands /\ hand'[q] = hand[q]
          \/ \E e \in Entry : hand'[q] = e /\ Safe(e.msg, e.id)'
    BY DEF TypeOK, LoopCommands, SettleCommands
  <2> QED BY <1>4, <2>1, StillSafe
<1>6. FlushingIsIdle' /\ ClosedHoldsNothing'
  BY DEF TypeOK, FlushingIsIdle, ClosedHoldsNothing, LoopCommands, SettleCommands
<1> QED BY <1>1, <1>2, <1>3, <1>5, <1>6

-----------------------------------------------------------------------------
(* Settlement                                                              *)

LEMMA AckIInv ==
  ASSUME IInv, NEW p \in Process, Ack(p)
  PROVE  IInv'
<1> USE DEF IInv, Ack, Goto, redisVars, localVars, closeVars, historyVars, Release
<1>0. PICK h \in Entry :
        /\ hand[p] = h /\ h \in Has(p) /\ h.id \in Nat /\ h.msg \in Message /\ h.id < nextId
        /\ \A e \in stream : e.id = h.id => e = h
  BY NoEntryAssumption DEF TypeOK, Places, IdFacts, Has, Entry, SettleCommands
<1>1. TypeOK'
  BY DEF TypeOK, Places, Entry, LoopCommands, SettleCommands
<1>2. Places'
  BY DEF TypeOK, Places, LoopCommands, SettleCommands
<1>3. IdFacts' /\ HeldFacts' /\ ExclusiveWhilePrompt'
  <2>1. \A q \in Process : Has(q)' \subseteq Has(q)
    BY DEF TypeOK, Has
  <2>2. stream' \subseteq stream /\ pending' \subseteq pending /\ idle' \subseteq idle
    OBVIOUS
  <2>3. used'.slow = used.slow
    BY DEF TypeOK
  <2> QED BY <1>1, <2>1, <2>2, <2>3, OnlyLess
<1>4. \A k : \A n \in Nat : n < nextId /\ Safe(k, n) => Safe(k, n)'
  BY DEF TypeOK, Places, Safe, Deliverable, LoopCommands
<1>5. AckedIsSafe' /\ SentIsSafe'
  <2>1. \A q \in Process : pc'[q] \in SettleCommands =>
          \/ pc[q] \in SettleCommands /\ hand'[q] = hand[q]
          \/ \E e \in Entry : hand'[q] = e /\ Safe(e.msg, e.id)'
    <3>1. \E e \in Entry : hand'[p] = e /\ Safe(e.msg, e.id)'
      BY <1>0 DEF Safe
    <3>2. \A q \in Process \ {p} : pc'[q] = pc[q] /\ hand'[q] = hand[q]
      BY DEF TypeOK
    <3> QED BY <3>1, <3>2
  <2> QED BY <1>4, <2>1, StillSafe
<1>6. FlushingIsIdle' /\ ClosedHoldsNothing'
  BY DEF TypeOK, FlushingIsIdle, ClosedHoldsNothing, LoopCommands, SettleCommands
<1> QED BY <1>1, <1>2, <1>3, <1>5, <1>6

LEMMA RejectIInv ==
  ASSUME IInv, NEW p \in Process, Reject(p)
  PROVE  IInv'
<1> USE DEF IInv, Reject, Goto, redisVars, localVars, closeVars, historyVars, Release
<1>0. PICK h \in Entry :
        /\ hand[p] = h /\ h \in Has(p) /\ h.id \in Nat /\ h.msg \in Message /\ h.id < nextId
        /\ \A e \in stream : e.id = h.id => e = h
  BY NoEntryAssumption DEF TypeOK, Places, IdFacts, Has, Entry, SettleCommands
<1>a. /\ delayed' \subseteq Member /\ stream' \subseteq Entry /\ nextId' \in Nat
      /\ delayed \subseteq delayed' /\ stream \subseteq stream'
      /\ \/ \E d \in delayed' : d.msg = h.msg
         \/ \E e \in stream' : e.msg = h.msg /\ e.id = nextId
      /\ IdFacts' /\ HeldFacts' /\ ExclusiveWhilePrompt'
  <2>1. used'.slow = used.slow
    BY DEF TypeOK
  <2> QED BY <1>0, <2>1, EnqueueFacts
<1>1. TypeOK'
  BY <1>a DEF TypeOK, LoopCommands, SettleCommands
<1>2. Places'
  BY DEF TypeOK, Places, LoopCommands, SettleCommands
<1>3. IdFacts' /\ HeldFacts' /\ ExclusiveWhilePrompt'
  BY <1>a
<1>4. \A k : \A n \in Nat : n < nextId /\ Safe(k, n) => Safe(k, n)'
  BY <1>a DEF Safe, Deliverable
<1>5. AckedIsSafe' /\ SentIsSafe'
  <2>1. \A q \in Process : pc'[q] \in SettleCommands =>
          \/ pc[q] \in SettleCommands /\ hand'[q] = hand[q]
          \/ \E e \in Entry : hand'[q] = e /\ Safe(e.msg, e.id)'
    <3>1. \E e \in Entry : hand'[p] = e /\ Safe(e.msg, e.id)'
      <4>1. Safe(h.msg, h.id)'
        BY <1>0, <1>a DEF TypeOK, IdFacts, Safe, Deliverable, Entry
      <4>2. hand'[p] = h
        BY <1>0
      <4> QED BY <4>1, <4>2
    <3>2. \A q \in Process \ {p} : pc'[q] = pc[q] /\ hand'[q] = hand[q]
      BY DEF TypeOK
    <3> QED BY <3>1, <3>2
  <2> QED BY <1>4, <2>1, StillSafe
<1>6. FlushingIsIdle' /\ ClosedHoldsNothing'
  BY DEF TypeOK, FlushingIsIdle, ClosedHoldsNothing, LoopCommands, SettleCommands
<1> QED BY <1>1, <1>2, <1>3, <1>5, <1>6

LEMMA XackIInv ==
  ASSUME IInv, NEW p \in Process, Xack(p)
  PROVE  IInv'
<1> USE DEF IInv, Xack, Goto, redisVars, localVars, closeVars, historyVars
<1>0. PICK h \in Entry :
        /\ hand[p] = h /\ h \in Has(p) /\ h.id \in Nat /\ h.msg \in Message /\ h.id < nextId
        /\ \A e \in stream : e.id = h.id => e = h
  BY NoEntryAssumption DEF TypeOK, Places, IdFacts, Has, Entry, SettleCommands
<1>1. TypeOK'
  BY DEF TypeOK, Places, Entry, LoopCommands, SettleCommands
<1>2. Places'
  BY DEF TypeOK, Places, LoopCommands, SettleCommands
<1>3. IdFacts' /\ HeldFacts' /\ ExclusiveWhilePrompt'
  <2>1. \A q \in Process : Has(q)' \subseteq Has(q)
    BY DEF TypeOK, Has
  <2>2. stream' \subseteq stream /\ pending' \subseteq pending /\ idle' \subseteq idle
    OBVIOUS
  <2>3. used'.slow = used.slow
    BY DEF TypeOK
  <2> QED BY <1>1, <2>1, <2>2, <2>3, OnlyLess
<1>4. \A k : \A n \in Nat : n < nextId /\ Safe(k, n) => Safe(k, n)'
  <2>1. Safe(h.msg, h.id)
    BY <1>0 DEF AckedIsSafe, SettleCommands
  <2>2. \A e \in stream : e.id \in Nat /\ (e.id = h.id => e.msg = h.msg)
    BY <1>0 DEF TypeOK, Entry
  <2>3. \A e \in stream : Deliverable(e) /\ e.id # h.id => e \in stream' /\ Deliverable(e)'
    BY <1>0 DEF TypeOK, Deliverable
  <2>4. Safe(h.msg, h.id)'
    BY <1>0, <2>1, <2>2, <2>3 DEF Safe
  <2>5. ASSUME NEW k, NEW n \in Nat, Safe(k, n)
        PROVE  Safe(k, n)'
    <3>1. CASE \E e \in stream : e.msg = k /\ Deliverable(e) /\ n < e.id /\ e.id = h.id
      <4>1. k = h.msg /\ n < h.id
        BY <2>2, <3>1
      <4>2. ASSUME NEW e \in stream', h.id < e.id
            PROVE  n < e.id
        BY <1>0, <2>2, <4>1, <4>2
      <4> QED BY <2>4, <4>1, <4>2 DEF Safe
    <3>2. CASE ~ \E e \in stream : e.msg = k /\ Deliverable(e) /\ n < e.id /\ e.id = h.id
      BY <2>3, <2>5, <3>2 DEF Safe
    <3> QED BY <3>1, <3>2
  <2> QED BY <2>5
<1>5. AckedIsSafe' /\ SentIsSafe'
  <2>1. \A q \in Process : pc'[q] \in SettleCommands =>
          \/ pc[q] \in SettleCommands /\ hand'[q] = hand[q]
          \/ \E e \in Entry : hand'[q] = e /\ Safe(e.msg, e.id)'
    BY DEF TypeOK, LoopCommands, SettleCommands
  <2> QED BY <1>4, <2>1, StillSafe
<1>6. FlushingIsIdle' /\ ClosedHoldsNothing'
  BY DEF TypeOK, FlushingIsIdle, ClosedHoldsNothing, LoopCommands, SettleCommands
<1> QED BY <1>1, <1>2, <1>3, <1>5, <1>6

LEMMA XdelIInv ==
  ASSUME IInv, NEW p \in Process, Xdel(p)
  PROVE  IInv'
<1> USE DEF IInv, Xdel, Goto, redisVars, localVars, closeVars, historyVars
<1>0. PICK h \in Entry :
        /\ hand[p] = h /\ h \in Has(p) /\ h.id \in Nat /\ h.msg \in Message /\ h.id < nextId
        /\ \A e \in stream : e.id = h.id => e = h
  BY NoEntryAssumption DEF TypeOK, Places, IdFacts, Has, Entry, SettleCommands
<1>1. TypeOK'
  BY DEF TypeOK, Places, Entry, LoopCommands, SettleCommands
<1>2. Places'
  BY DEF TypeOK, Places, LoopCommands, SettleCommands
<1>3. IdFacts' /\ HeldFacts' /\ ExclusiveWhilePrompt'
  <2>1. \A q \in Process : Has(q)' \subseteq Has(q)
    BY DEF TypeOK, Has
  <2>2. stream' \subseteq stream /\ pending' \subseteq pending /\ idle' \subseteq idle
    OBVIOUS
  <2>3. used'.slow = used.slow
    BY DEF TypeOK
  <2> QED BY <1>1, <2>1, <2>2, <2>3, OnlyLess
<1>4. \A k : \A n \in Nat : n < nextId /\ Safe(k, n) => Safe(k, n)'
  <2>1. Safe(h.msg, h.id)
    BY <1>0 DEF AckedIsSafe, SettleCommands
  <2>2. \A e \in stream : e.id \in Nat /\ (e.id = h.id => e.msg = h.msg)
    BY <1>0 DEF TypeOK, Entry
  <2>3. \A e \in stream : Deliverable(e) /\ e.id # h.id => e \in stream' /\ Deliverable(e)'
    BY <1>0 DEF TypeOK, Deliverable
  <2>4. Safe(h.msg, h.id)'
    BY <1>0, <2>1, <2>2, <2>3 DEF Safe
  <2>5. ASSUME NEW k, NEW n \in Nat, Safe(k, n)
        PROVE  Safe(k, n)'
    <3>1. CASE \E e \in stream : e.msg = k /\ Deliverable(e) /\ n < e.id /\ e.id = h.id
      <4>1. k = h.msg /\ n < h.id
        BY <2>2, <3>1
      <4>2. ASSUME NEW e \in stream', h.id < e.id
            PROVE  n < e.id
        BY <1>0, <2>2, <4>1, <4>2
      <4> QED BY <2>4, <4>1, <4>2 DEF Safe
    <3>2. CASE ~ \E e \in stream : e.msg = k /\ Deliverable(e) /\ n < e.id /\ e.id = h.id
      BY <2>3, <2>5, <3>2 DEF Safe
    <3> QED BY <3>1, <3>2
  <2> QED BY <2>5
<1>5. AckedIsSafe' /\ SentIsSafe'
  <2>1. \A q \in Process : pc'[q] \in SettleCommands =>
          \/ pc[q] \in SettleCommands /\ hand'[q] = hand[q]
          \/ \E e \in Entry : hand'[q] = e /\ Safe(e.msg, e.id)'
    BY DEF TypeOK, LoopCommands, SettleCommands
  <2> QED BY <1>4, <2>1, StillSafe
<1>6. FlushingIsIdle' /\ ClosedHoldsNothing'
  BY DEF TypeOK, FlushingIsIdle, ClosedHoldsNothing, LoopCommands, SettleCommands
<1> QED BY <1>1, <1>2, <1>3, <1>5, <1>6

LEMMA LocateIInv ==
  ASSUME IInv, NEW p \in Operator, Locate(p)
  PROVE  IInv'
<1> USE DEF IInv, Locate, Goto, redisVars, localVars, closeVars, historyVars, Process
<1>a. PICK found \in stream : /\ hand' = [hand EXCEPT ![p] = found]
                              /\ done' = done \union {found.msg}
                              /\ found \in Entry /\ p \in Process
  BY DEF TypeOK
<1>1. TypeOK'
  BY <1>a DEF TypeOK, Entry, LoopCommands, SettleCommands
<1>2. Places'
  BY DEF TypeOK, Places, LoopCommands, SettleCommands
<1>3. IdFacts' /\ HeldFacts' /\ ExclusiveWhilePrompt'
  <2>1. \A q \in Process : \A e \in Has(q)' : e \in Has(q) \/ (q = p /\ e = found)
    BY <1>a DEF TypeOK, Has
  <2>2. \A q \in Worker : Has(q)' = Has(q)
    BY <1>a, ProcessAssumption DEF TypeOK, Has
  <2>3. IdFacts'
    BY <1>a, <2>1 DEF IdFacts
  <2>4. HeldFacts'
    BY <2>2 DEF HeldFacts
  <2>5. \A q \in Worker : hand'[q] = hand[q] /\ batch'[q] = batch[q]
    BY ProcessAssumption DEF TypeOK
  <2>6. ExclusiveWhilePrompt'
    BY <2>5 DEF ExclusiveWhilePrompt, Holds
  <2> QED BY <2>3, <2>4, <2>6
<1>4. \A k : \A n \in Nat : n < nextId /\ Safe(k, n) => Safe(k, n)'
  BY DEF TypeOK, Places, Safe, Deliverable, LoopCommands
<1>5. AckedIsSafe' /\ SentIsSafe'
  <2>1. \A q \in Process : pc'[q] \in SettleCommands =>
          \/ pc[q] \in SettleCommands /\ hand'[q] = hand[q]
          \/ \E e \in Entry : hand'[q] = e /\ Safe(e.msg, e.id)'
    <3>1. \E e \in Entry : hand'[p] = e /\ Safe(e.msg, e.id)'
      <4>1. Safe(found.msg, found.id)'
        BY <1>a DEF Safe
      <4>2. hand'[p] = found
        BY <1>a DEF TypeOK
      <4> QED BY <1>a, <4>1, <4>2
    <3>2. \A q \in Process \ {p} : pc'[q] = pc[q] /\ hand'[q] = hand[q]
      BY DEF TypeOK
    <3> QED BY <3>1, <3>2
  <2> QED BY <1>4, <2>1, StillSafe
<1>6. FlushingIsIdle' /\ ClosedHoldsNothing'
  BY DEF TypeOK, FlushingIsIdle, ClosedHoldsNothing, LoopCommands, SettleCommands
<1> QED BY <1>1, <1>2, <1>3, <1>5, <1>6

-----------------------------------------------------------------------------
(* Shutdown, crashes, time                                                 *)

LEMMA AbortIInv ==
  ASSUME IInv, NEW p \in Process, Abort(p)
  PROVE  IInv'
<1> USE DEF IInv, Abort, Goto, redisVars, localVars, closeVars, historyVars
<1>1. TypeOK'
  BY DEF TypeOK, Places, Entry, LoopCommands, SettleCommands
<1>2. Places'
  BY DEF TypeOK, Places, LoopCommands, SettleCommands
<1>3. IdFacts' /\ HeldFacts' /\ ExclusiveWhilePrompt'
  <2>1. \A q \in Process : Has(q)' \subseteq Has(q)
    BY DEF TypeOK, Has
  <2>2. stream' \subseteq stream /\ pending' \subseteq pending /\ idle' \subseteq idle
    OBVIOUS
  <2>3. used'.slow = used.slow
    BY DEF TypeOK
  <2> QED BY <1>1, <2>1, <2>2, <2>3, OnlyLess
<1>4. \A k : \A n \in Nat : n < nextId /\ Safe(k, n) => Safe(k, n)'
  BY DEF TypeOK, Places, Safe, Deliverable, LoopCommands
<1>5. AckedIsSafe' /\ SentIsSafe'
  <2>1. \A q \in Process : pc'[q] \in SettleCommands =>
          \/ pc[q] \in SettleCommands /\ hand'[q] = hand[q]
          \/ \E e \in Entry : hand'[q] = e /\ Safe(e.msg, e.id)'
    BY DEF TypeOK, LoopCommands, SettleCommands
  <2> QED BY <1>4, <2>1, StillSafe
<1>6. FlushingIsIdle' /\ ClosedHoldsNothing'
  BY DEF TypeOK, FlushingIsIdle, ClosedHoldsNothing, LoopCommands, SettleCommands
<1> QED BY <1>1, <1>2, <1>3, <1>5, <1>6

LEMMA CloseIInv ==
  ASSUME IInv, NEW p \in Process, Close(p)
  PROVE  IInv'
<1> USE DEF IInv, Close, Goto, redisVars, localVars, closeVars, historyVars, InFlight
<1>1. TypeOK'
  BY DEF TypeOK, Places, Entry, LoopCommands, SettleCommands
<1>2. Places'
  BY DEF TypeOK, Places, LoopCommands, SettleCommands
<1>3. IdFacts' /\ HeldFacts' /\ ExclusiveWhilePrompt'
  <2>1. \A q \in Process : Has(q)' \subseteq Has(q)
    BY DEF TypeOK, Has
  <2>2. stream' \subseteq stream /\ pending' \subseteq pending /\ idle' \subseteq idle
    OBVIOUS
  <2>3. used'.slow = used.slow
    BY DEF TypeOK
  <2> QED BY <1>1, <2>1, <2>2, <2>3, OnlyLess
<1>4. \A k : \A n \in Nat : n < nextId /\ Safe(k, n) => Safe(k, n)'
  BY DEF TypeOK, Places, Safe, Deliverable, LoopCommands
<1>5. AckedIsSafe' /\ SentIsSafe'
  <2>1. \A q \in Process : pc'[q] \in SettleCommands =>
          \/ pc[q] \in SettleCommands /\ hand'[q] = hand[q]
          \/ \E e \in Entry : hand'[q] = e /\ Safe(e.msg, e.id)'
    BY DEF TypeOK, LoopCommands, SettleCommands
  <2> QED BY <1>4, <2>1, StillSafe
<1>6. FlushingIsIdle' /\ ClosedHoldsNothing'
  BY DEF TypeOK, FlushingIsIdle, ClosedHoldsNothing, LoopCommands, SettleCommands
<1> QED BY <1>1, <1>2, <1>3, <1>5, <1>6

LEMMA QuitIInv ==
  ASSUME IInv, NEW p \in Process, Quit(p)
  PROVE  IInv'
<1> USE DEF IInv, Quit, Goto, redisVars, localVars, closeVars, historyVars
<1>1. TypeOK'
  BY DEF TypeOK, Places, Entry, LoopCommands, SettleCommands
<1>2. Places'
  BY DEF TypeOK, Places, LoopCommands, SettleCommands
<1>3. IdFacts' /\ HeldFacts' /\ ExclusiveWhilePrompt'
  <2>1. \A q \in Process : Has(q)' \subseteq Has(q)
    BY DEF TypeOK, Has
  <2>2. stream' \subseteq stream /\ pending' \subseteq pending /\ idle' \subseteq idle
    OBVIOUS
  <2>3. used'.slow = used.slow
    BY DEF TypeOK
  <2> QED BY <1>1, <2>1, <2>2, <2>3, OnlyLess
<1>4. \A k : \A n \in Nat : n < nextId /\ Safe(k, n) => Safe(k, n)'
  BY DEF TypeOK, Places, Safe, Deliverable, LoopCommands
<1>5. AckedIsSafe' /\ SentIsSafe'
  <2>1. \A q \in Process : pc'[q] \in SettleCommands =>
          \/ pc[q] \in SettleCommands /\ hand'[q] = hand[q]
          \/ \E e \in Entry : hand'[q] = e /\ Safe(e.msg, e.id)'
    BY DEF TypeOK, LoopCommands, SettleCommands
  <2> QED BY <1>4, <2>1, StillSafe
<1>6. FlushingIsIdle' /\ ClosedHoldsNothing'
  BY DEF TypeOK, FlushingIsIdle, ClosedHoldsNothing, LoopCommands, SettleCommands
<1> QED BY <1>1, <1>2, <1>3, <1>5, <1>6

LEMMA GoIdleIInv ==
  ASSUME IInv, NEW id \in pending, GoIdle(id)
  PROVE  IInv'
<1> USE DEF IInv, GoIdle, Goto, redisVars, localVars, closeVars, historyVars
<1>1. TypeOK'
  BY DEF TypeOK, Places, Entry, LoopCommands, SettleCommands
<1>2. Places'
  BY DEF TypeOK, Places, LoopCommands, SettleCommands
<1>3. IdFacts' /\ HeldFacts' /\ ExclusiveWhilePrompt'
  <2>0. used' \in [{"rejects", "crashes", "slow"} -> Nat] /\ id \in Nat
    BY <1>1 DEF TypeOK
  <2>1. used'.slow = 0 => used.slow = 0 /\ \A p \in Process : ~Holds(p, id)
    <3>1. CASE \E p \in Process : Holds(p, id)
      BY <3>1 DEF TypeOK
    <3>2. CASE ~ \E p \in Process : Holds(p, id)
      BY <3>2
    <3> QED BY <3>1, <3>2
  <2>2. \A q \in Process : Has(q)' = Has(q) /\ \A k \in Nat : Holds(q, k)' <=> Holds(q, k)
    BY DEF Has, Holds
  <2>3. IdFacts'
    BY <2>2 DEF IdFacts
  <2>4. used'.slow = 0 => \A q \in Worker : \A e \in Has(q) : e.id # id
    BY <2>0, <2>1, HoldsHas DEF Process
  <2>5. HeldFacts'
    BY <2>1, <2>2, <2>4 DEF HeldFacts, Process
  <2>6. ExclusiveWhilePrompt'
    BY <2>1, <2>2 DEF ExclusiveWhilePrompt, Process, TypeOK
  <2> QED BY <2>3, <2>5, <2>6
<1>4. \A k : \A n \in Nat : n < nextId /\ Safe(k, n) => Safe(k, n)'
  BY DEF TypeOK, Places, Safe, Deliverable, LoopCommands
<1>5. AckedIsSafe' /\ SentIsSafe'
  <2>1. \A q \in Process : pc'[q] \in SettleCommands =>
          \/ pc[q] \in SettleCommands /\ hand'[q] = hand[q]
          \/ \E e \in Entry : hand'[q] = e /\ Safe(e.msg, e.id)'
    BY DEF TypeOK, LoopCommands, SettleCommands
  <2> QED BY <1>4, <2>1, StillSafe
<1>6. FlushingIsIdle' /\ ClosedHoldsNothing'
  BY DEF TypeOK, FlushingIsIdle, ClosedHoldsNothing, LoopCommands, SettleCommands
<1> QED BY <1>1, <1>2, <1>3, <1>5, <1>6

LEMMA CrashIInv ==
  ASSUME IInv, NEW p \in Process, Crash(p)
  PROVE  IInv'
<1> USE DEF IInv, Crash, Goto, redisVars, localVars, closeVars, historyVars
<1>1. TypeOK'
  <2>1. pc' \in [Process -> {"absent", "loop", "handle", "returned", "crashed", "locate"}
                              \union LoopCommands \union SettleCommands]
    BY DEF TypeOK, LoopCommands, SettleCommands
  <2>2. left' \in [Process -> 0 .. 2]
    BY DEF TypeOK
  <2>3. due' \in [Process -> SUBSET Member] /\ hand' \in [Process -> Entry \union {NoEntry}]
    BY DEF TypeOK
  <2>4. batch' \in [Process -> SUBSET Entry]
    BY DEF TypeOK
  <2>5. pending' \subseteq Nat /\ idle' \subseteq pending' /\ done' \subseteq Message
    BY DEF TypeOK
  <2>6. lastRead' \in Nat /\ stranded' \subseteq Message /\ stream' \subseteq Entry
    BY DEF TypeOK, Member
  <2>7. used' \in [{"rejects", "crashes", "slow"} -> Nat]
    BY DEF TypeOK
  <2> QED BY <2>1, <2>2, <2>3, <2>4, <2>5, <2>6, <2>7 DEF TypeOK
<1>2. Places'
  BY DEF TypeOK, Places, LoopCommands, SettleCommands
<1>3. IdFacts' /\ HeldFacts' /\ ExclusiveWhilePrompt'
  <2>1. \A q \in Process : Has(q)' \subseteq Has(q)
    BY DEF TypeOK, Has
  <2>2. stream' \subseteq stream /\ pending' \subseteq pending /\ idle' \subseteq idle
    OBVIOUS
  <2>3. used'.slow = used.slow
    BY DEF TypeOK
  <2> QED BY <1>1, <2>1, <2>2, <2>3, OnlyLess
<1>4. \A k : \A n \in Nat : n < nextId /\ Safe(k, n) => Safe(k, n)'
  BY DEF TypeOK, Places, Safe, Deliverable, LoopCommands
<1>5. AckedIsSafe' /\ SentIsSafe'
  <2>1. \A q \in Process : pc'[q] \in SettleCommands =>
          \/ pc[q] \in SettleCommands /\ hand'[q] = hand[q]
          \/ \E e \in Entry : hand'[q] = e /\ Safe(e.msg, e.id)'
    BY DEF TypeOK, LoopCommands, SettleCommands
  <2> QED BY <1>4, <2>1, StillSafe
<1>6. FlushingIsIdle' /\ ClosedHoldsNothing'
  BY DEF TypeOK, FlushingIsIdle, ClosedHoldsNothing, LoopCommands, SettleCommands
<1> QED BY <1>1, <1>2, <1>3, <1>5, <1>6

LEMMA RestartIInv ==
  ASSUME IInv, NEW p \in Process, Restart(p)
  PROVE  IInv'
<1> USE DEF IInv, Restart, Goto, redisVars, localVars, closeVars, historyVars, Start
<1>1. TypeOK'
  BY DEF TypeOK, Places, Entry, LoopCommands, SettleCommands
<1>2. Places'
  BY DEF TypeOK, Places, LoopCommands, SettleCommands
<1>3. IdFacts' /\ HeldFacts' /\ ExclusiveWhilePrompt'
  <2>1. \A q \in Process : Has(q)' \subseteq Has(q)
    BY DEF TypeOK, Has
  <2>2. stream' \subseteq stream /\ pending' \subseteq pending /\ idle' \subseteq idle
    OBVIOUS
  <2>3. used'.slow = used.slow
    BY DEF TypeOK
  <2> QED BY <1>1, <2>1, <2>2, <2>3, OnlyLess
<1>4. \A k : \A n \in Nat : n < nextId /\ Safe(k, n) => Safe(k, n)'
  BY DEF TypeOK, Places, Safe, Deliverable, LoopCommands
<1>5. AckedIsSafe' /\ SentIsSafe'
  <2>1. \A q \in Process : pc'[q] \in SettleCommands =>
          \/ pc[q] \in SettleCommands /\ hand'[q] = hand[q]
          \/ \E e \in Entry : hand'[q] = e /\ Safe(e.msg, e.id)'
    BY DEF TypeOK, LoopCommands, SettleCommands
  <2> QED BY <1>4, <2>1, StillSafe
<1>6. FlushingIsIdle' /\ ClosedHoldsNothing'
  BY DEF TypeOK, FlushingIsIdle, ClosedHoldsNothing, LoopCommands, SettleCommands
<1> QED BY <1>1, <1>2, <1>3, <1>5, <1>6

-----------------------------------------------------------------------------
LEMMA NextIInv == IInv /\ [Next]_vars => IInv'
<1> SUFFICES ASSUME IInv, [Next]_vars PROVE IInv'
  OBVIOUS
<1>1. CASE \E m \in Message : Send(m)
  BY <1>1, SendIInv
<1>2. CASE \E d \in delayed : BecomeDue(d)
  BY <1>2, BecomeDueIInv
<1>3. CASE \E p \in Process : Looping(p)
  BY <1>3, PollIInv, DrainIInv, AppendIInv, ReclaimIInv, ReadIInv, YieldIInv, DiscardIInv,
     ReturnIInv, RefusedIInv DEF Looping
<1>4. CASE \E p \in Process : Settling(p)
  BY <1>4, AckIInv, RejectIInv, XackIInv, XdelIInv DEF Settling
<1>5. CASE \E p \in Operator : Locate(p)
  BY <1>5, LocateIInv
<1>6. CASE \E p \in Worker : Abort(p) \/ Close(p)
  BY <1>6, AbortIInv, CloseIInv DEF Process
<1>7. CASE \E p \in Process : Quit(p) \/ Crash(p) \/ Restart(p)
  BY <1>7, QuitIInv, CrashIInv, RestartIInv
<1>8. CASE \E id \in pending : GoIdle(id)
  BY <1>8, GoIdleIInv
<1>9. CASE UNCHANGED vars
  BY <1>9 DEF vars, redisVars, localVars, closeVars, historyVars, IInv, TypeOK, Places,
         IdFacts,
     Has, AckedIsSafe, SentIsSafe, Safe, Deliverable, HeldFacts, ExclusiveWhilePrompt, Holds,
     FlushingIsIdle, ClosedHoldsNothing
<1> QED BY <1>1, <1>2, <1>3, <1>4, <1>5, <1>6, <1>7, <1>8, <1>9 DEF Next

LEMMA Invariance == Spec => []IInv
BY InitIInv, NextIInv, PTL DEF Spec

-----------------------------------------------------------------------------
(* Type correctness.                                                       *)
THEOREM TypeCorrect == Spec => []TypeOK
<1>1. IInv => TypeOK
  BY DEF IInv
<1> QED BY <1>1, Invariance, PTL

(* Whatever crashes, closes, is claimed by another worker or settled twice,*)
(* a message that was sent and is not done is in Redis where the group     *)
(* finds it, or in the gap between the sorted set and the stream.          *)
THEOREM NothingLost == Spec => []NoLoss
<1>1. IInv => NoLoss
  BY DEF IInv, SentIsSafe, Safe, NoLoss
<1> QED BY <1>1, Invariance, PTL

(* XREADGROUP, XAUTOCLAIM and the pending list give an entry to one worker *)
(* at a time, as long as no entry goes idle under a live consumer.         *)
THEOREM OneWorkerAtATime == Spec => []ExclusiveWhilePrompt
<1>1. IInv => ExclusiveWhilePrompt
  BY DEF IInv
<1> QED BY <1>1, Invariance, PTL

(* close() resolves when the process has no delivery, and none comes later.*)
THEOREM ClosedIsEmpty == Spec => []ClosedHoldsNothing
<1>1. IInv => ClosedHoldsNothing
  BY DEF IInv
<1> QED BY <1>1, Invariance, PTL
=============================================================================
