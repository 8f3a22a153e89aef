----------------------- MODULE KafkaTransport_proofs -----------------------
(***************************************************************************)
(* Theorems about KafkaTransport, for every deployment: any number of      *)
(* processes, loops, partitions and messages, any number of crashes,       *)
(* rebalances and broker calls that fail.                                  *)
(*                                                                         *)
(* The invariant is what makes one number per partition enough.  Going     *)
(* back from any record that somebody holds, has buffered, was pushed or   *)
(* committed, every earlier record of the partition is settled, or it is   *)
(* met earlier on the same way: in the same buffer, or in a hand of the    *)
(* same instance.                                                          *)
(***************************************************************************)
EXTENDS KafkaTransport, TLAPS

Holds == {"handle", "publish", "commit", "discard"}

Settled(r) == r \in acked \union copied \/ Content(r) \in Foreign

InHand(p, r) == \E c \in At(p) : hand[c] = r

(* The premise of NoLoss.                                                  *)
Orderly == OneLoopEach \/ used.troubles = 0

BufferedIsLogged == \A p \in Process : \A i \in DOMAIN buffer[p] : buffer[p][i] \in Records

HandFits(c) ==
  /\ pc[c] \in Holds <=> hand[c] # NoRecord
  /\ pc[c] = "discard" => Content(hand[c]) \in Foreign
  /\ pc[c] = "commit" => hand[c] \in acked \union copied

Hands ==
  /\ \A c \in Consumer : HandFits(c)
  /\ \A c, d \in Consumer : home[c] = home[d] /\ pc[c] = "crashed" => pc[d] = "crashed"

(* close() went on when the registry was empty; and where a record is in   *)
(* the hands of one loop of an instance only, it is registered while the   *)
(* loop handles it.                                                        *)
Registry ==
  /\ \A p \in Process : closing[p] \in {"flushing", "closed"} => inFlight[p] = {}
  /\ Orderly => \A c \in Consumer : pc[c] = "handle" => Settleable(c)

(* A message that is not done has a record that was not copied.            *)
Traced == \A m \in Sent \ Done : \E r \in Records \ copied : Content(r) = m

CommittedIsSettled ==
  Orderly =>
    \A t \in Partition : \A i \in 1 .. committed[t] :
      Settled(<<t, i>>) \/ (~OneLoopEach /\ \E c \in Consumer : hand[c] = <<t, i>>)

(* The way back from a record in hand, from one in a buffer, and from the  *)
(* position of the owner.                                                  *)
HandsFollow ==
  Orderly =>
    \A c \in Consumer : hand[c] # NoRecord =>
      \A i \in 1 .. (Offset(hand[c]) - 1) :
        Settled(<<Partit(hand[c]), i>>) \/ InHand(home[c], <<Partit(hand[c]), i>>)

EntryFollows(p, k) ==
  \A i \in 1 .. (Offset(buffer[p][k]) - 1) :
    \/ Settled(<<Partit(buffer[p][k]), i>>) \/ InHand(p, <<Partit(buffer[p][k]), i>>)
    \/ \E j \in 1 .. (k - 1) : buffer[p][j] = <<Partit(buffer[p][k]), i>>

BuffersFollow ==
  Orderly => \A p \in Process : \A k \in DOMAIN buffer[p] : EntryFollows(p, k)

PositionsFollow ==
  Orderly =>
    \A t \in Partition : owner[t] # Nobody =>
      \A i \in 1 .. position[t] :
        \/ Settled(<<t, i>>) \/ InHand(owner[t], <<t, i>>)
        \/ \E j \in DOMAIN buffer[owner[t]] : buffer[owner[t]][j] = <<t, i>>

(* While nothing goes wrong, what a loop has, and what it will get from    *)
(* its buffer, is of a partition that is still its own, and in order.      *)
Joined(r, p) == owner[Partit(r)] = p /\ Offset(r) <= position[Partit(r)]

Before(r, s) == Partit(r) = Partit(s) => Offset(r) < Offset(s)

CalmHand(c) ==
  /\ pc[c] # "crashed"
  /\ hand[c] # NoRecord =>
       /\ Joined(hand[c], home[c])
       /\ \A d \in Consumer : hand[d] = hand[c] => c = d
       /\ OneLoopEach => committed[Partit(hand[c])] < Offset(hand[c])

CalmBuffer(p) ==
  \A k \in DOMAIN buffer[p] :
    /\ Joined(buffer[p][k], p)
    /\ \A c \in Consumer : hand[c] # NoRecord => Before(hand[c], buffer[p][k])
    /\ \A j \in 1 .. (k - 1) : Before(buffer[p][j], buffer[p][k])
    /\ OneLoopEach => committed[Partit(buffer[p][k])] < Offset(buffer[p][k])

Calm ==
  used.troubles = 0 =>
    /\ \A c \in Consumer : CalmHand(c)
    /\ \A p \in Process : closing[p] = "open" => CalmBuffer(p)
    /\ \A t \in Partition : owner[t] # Nobody => committed[t] <= position[t]

(* And what is settled is behind it.                                       *)
Behind(r) ==
  /\ OneLoopEach =>
       Offset(r) <= committed[Partit(r)] \/ \E c \in Consumer : hand[c] = r
  /\ IF owner[Partit(r)] = Nobody THEN Offset(r) <= committed[Partit(r)]
                                  ELSE Offset(r) <= position[Partit(r)]
  /\ \A c \in Consumer : pc[c] = "handle" => hand[c] # r
  /\ \A p \in Process : closing[p] = "open" =>
       \A k \in DOMAIN buffer[p] : buffer[p][k] # r

SettledIsBehind ==
  used.troubles = 0 /\ (OneLoopEach \/ NobodyLeft) =>
    \A r \in acked \union copied : Behind(r)

IInv ==
  /\ TypeOK
  /\ BufferedIsLogged
  /\ Hands
  /\ Registry
  /\ Traced
  /\ CommittedIsSettled
  /\ HandsFollow
  /\ BuffersFollow
  /\ PositionsFollow
  /\ Calm
  /\ SettledIsBehind

-----------------------------------------------------------------------------
(* The deployment, the log and its records                                 *)

LEMMA SetupFixed ==
  ASSUME setup' = setup
  PROVE  home' = home /\ OneLoopEach' = OneLoopEach /\ \A p : At(p)' = At(p)
BY DEF home, OneLoopEach, At

LEMMA Deployment ==
  ASSUME TypeOK
  PROVE  /\ home \in [Consumer -> Process] /\ Nobody \notin Process
         /\ \A c \in Consumer : home[c] \in Process /\ c \in At(home[c])
         /\ \A p : \A c \in At(p) : c \in Consumer /\ home[c] = p
BY SetupsAssumption, NamesAssumption DEF TypeOK, home, At

LEMMA LogFacts ==
  ASSUME log \in [Partition -> Seq(Message)]
  PROVE  \A t \in Partition :
           /\ log[t] \in Seq(Message) /\ Len(log[t]) \in Nat /\ DOMAIN log[t] = 1 .. Len(log[t])
           /\ \A i \in 1 .. Len(log[t]) : log[t][i] \in Message
OBVIOUS

LEMMA RecordFacts ==
  ASSUME log \in [Partition -> Seq(Message)]
  PROVE  /\ \A r \in Records :
              /\ r \in Record /\ r = <<Partit(r), Offset(r)>> /\ Partit(r) \in Partition
              /\ Offset(r) \in Nat /\ Offset(r) \in 1 .. Len(log[Partit(r)])
              /\ Content(r) \in Message /\ r # NoRecord
         /\ \A t \in Partition : \A i \in 1 .. Len(log[t]) :
              <<t, i>> \in Records /\ Content(<<t, i>>) = log[t][i]
         /\ \A t, i : Partit(<<t, i>>) = t /\ Offset(<<t, i>>) = i
<1>1. \A t, i : Partit(<<t, i>>) = t /\ Offset(<<t, i>>) = i
  BY DEF Partit, Offset
<1>2. ASSUME NEW t \in Partition, NEW i \in 1 .. Len(log[t])
      PROVE  <<t, i>> \in Records /\ Content(<<t, i>>) = log[t][i]
  BY <1>1, LogFacts DEF Records, Content
<1>3. ASSUME NEW r \in Records
      PROVE  /\ r \in Record /\ r = <<Partit(r), Offset(r)>> /\ Partit(r) \in Partition
             /\ Offset(r) \in Nat /\ Offset(r) \in 1 .. Len(log[Partit(r)])
             /\ Content(r) \in Message /\ r # NoRecord
  <2>1. PICK t \in Partition : \E i \in DOMAIN log[t] : r = <<t, i>>
    BY DEF Records
  <2>2. PICK i \in 1 .. Len(log[t]) : r = <<t, i>>
    BY <2>1, LogFacts
  <2>3. i \in Nat \ {0} /\ log[t][i] \in Message
    BY <2>2, LogFacts
  <2> QED BY <2>2, <2>3, <1>1, NoRecordAssumption DEF Record, Content
<1> QED BY <1>1, <1>2, <1>3

(* What an append to the log, or none, does to the records.                *)
Grown ==
  /\ log' \in [Partition -> Seq(Message)]
  /\ \A t \in Partition : Len(log[t]) <= Len(log'[t])
  /\ \A r \in Records : r \in Records' /\ Content(r)' = Content(r)

LEMMA NotGrown ==
  ASSUME TypeOK, log' = log
  PROVE  Grown /\ Records' = Records
<1>1. Records' = Records
  BY DEF Records
<1>2. \A t \in Partition : Len(log[t]) <= Len(log'[t])
  BY LogFacts DEF TypeOK
<1> QED BY <1>1, <1>2 DEF Grown, TypeOK, Content

LEMMA StillInLog ==
  ASSUME TypeOK, Grown, UNCHANGED <<committed, position>>
  PROVE  /\ log' \in [Partition -> Seq(Message)] /\ committed' \in [Partition -> Nat]
         /\ position' \in [Partition -> Nat]
         /\ \A t \in Partition : committed'[t] <= Len(log'[t]) /\ position'[t] <= Len(log'[t])
<1>1. \A t \in Partition : Len(log[t]) \in Nat /\ committed[t] \in Nat /\ position[t] \in Nat
  BY LogFacts DEF TypeOK
<1>2. \A t \in Partition : Len(log'[t]) \in Nat
  BY DEF Grown
<1>3. \A t \in Partition : /\ committed[t] <= Len(log[t]) /\ position[t] <= Len(log[t])
                          /\ Len(log[t]) <= Len(log'[t])
  BY DEF TypeOK, Grown
<1>4. \A t \in Partition : committed[t] <= Len(log'[t]) /\ position[t] <= Len(log'[t])
  BY <1>1, <1>2, <1>3
<1> QED BY <1>4 DEF TypeOK, Grown

LEMMA Appended ==
  ASSUME TypeOK, NEW t \in Partition, NEW m \in Message, Append1(t, m)
  PROVE  /\ Grown
         /\ \E r \in Records' :
              r \notin Records /\ Content(r)' = m /\ \A s \in Records' : s \in Records \/ s = r
<1>1. log \in [Partition -> Seq(Message)] /\ log[t] \in Seq(Message) /\ Len(log[t]) \in Nat
  BY LogFacts DEF TypeOK
<1>0. PICK n \in Nat : n = Len(log[t]) + 1
  BY <1>1
<1> DEFINE more == Append(log[t], m)
<1>2. more \in Seq(Message) /\ Len(more) = n /\ n \in Nat /\ n = Len(log[t]) + 1
  BY <1>0, <1>1
<1>3. more[n] = m /\ \A i \in 1 .. Len(log[t]) : more[i] = log[t][i]
  BY <1>0, <1>1
<1>4. log' = [log EXCEPT ![t] = more]
  BY <1>1 DEF Append1
<1> HIDE DEF more
<1>5. log' \in [Partition -> Seq(Message)] /\ log'[t] = more
      /\ \A u \in Partition : u # t => log'[u] = log[u]
  BY <1>1, <1>2, <1>4
<1>6. \A u \in Partition : /\ DOMAIN log[u] = 1 .. Len(log[u]) /\ Len(log[u]) \in Nat
                          /\ DOMAIN log'[u] = 1 .. Len(log'[u]) /\ Len(log'[u]) \in Nat
  BY <1>1, <1>5, LogFacts
<1>7. ASSUME NEW u \in Partition PROVE Len(log[u]) <= Len(log'[u])
  <2>1. CASE u = t
    BY <1>1, <1>2, <1>5, <2>1
  <2>2. CASE u # t
    <3>1. log'[u] = log[u]
      BY <1>5, <2>2
    <3> QED BY <1>6, <3>1
  <2> QED BY <2>1, <2>2
<1>8. ASSUME NEW r \in Records PROVE r \in Records' /\ Content(r)' = Content(r)
  <2>0. PICK u \in Partition : \E i \in DOMAIN log[u] : r = <<u, i>>
    BY DEF Records
  <2>1. PICK i \in 1 .. Len(log[u]) : r = <<u, i>> /\ Content(r) = log[u][i]
    BY <1>6, <2>0 DEF Content, Partit, Offset
  <2>2. i \in DOMAIN log'[u]
    BY <1>6, <1>7, <2>1
  <2>3. log'[u][i] = log[u][i]
    BY <1>3, <1>5, <2>1
  <2> QED BY <2>1, <2>2, <2>3 DEF Records, Content, Partit, Offset
<1>9. <<t, n>> \in Records' /\ Content(<<t, n>>)' = m /\ <<t, n>> \notin Records
  <2>1. n \in DOMAIN log'[t] /\ n \notin DOMAIN log[t]
    BY <1>1, <1>2, <1>5, <1>6
  <2>2. <<t, n>> \in Records'
    BY <2>1 DEF Records
  <2>3. <<t, n>> \notin Records
    BY <2>1 DEF Records
  <2>4. Content(<<t, n>>)' = log'[t][n]
    BY DEF Content, Partit, Offset
  <2>5. log'[t][n] = m
    BY <1>3, <1>5
  <2> QED BY <2>2, <2>3, <2>4, <2>5
<1>10. ASSUME NEW s \in Records', s \notin Records PROVE s = <<t, n>>
  <2>0. PICK u \in Partition : \E i \in DOMAIN log'[u] : s = <<u, i>>
    BY DEF Records
  <2>1. PICK i \in DOMAIN log'[u] : s = <<u, i>>
    BY <2>0
  <2>2. i \notin DOMAIN log[u]
    BY <1>10, <2>1 DEF Records
  <2>3. u = t
    BY <1>5, <2>1, <2>2
  <2>4. i \in 1 .. n /\ i \notin 1 .. Len(log[t])
    BY <1>2, <1>5, <1>6, <2>1, <2>2, <2>3
  <2>5. i = n
    BY <1>1, <1>2, <2>4
  <2> QED BY <2>1, <2>3, <2>5
<1>11. Grown
  BY <1>5, <1>7, <1>8 DEF Grown
<1>12. PICK r : r = <<t, n>>
  OBVIOUS
<1>13. r \in Records' /\ Content(r)' = m /\ r \notin Records
  BY <1>9, <1>12 DEF Content
<1> QED BY <1>10, <1>11, <1>12, <1>13

LEMMA SettledStays ==
  ASSUME Grown, acked \subseteq acked', copied \subseteq copied'
  PROVE  \A r \in Records : Settled(r) => Settled(r)'
BY DEF Grown, Settled

(* The positions, the committed offsets and what comes before a record.    *)
LEMMA Earlier ==
  ASSUME TypeOK, BufferedIsLogged
  PROVE  /\ \A t \in Partition : \A i \in 1 .. committed[t] : <<t, i>> \in Records
         /\ \A t \in Partition : \A i \in 1 .. position[t] : <<t, i>> \in Records
         /\ \A r \in Records : \A i \in 1 .. (Offset(r) - 1) : <<Partit(r), i>> \in Records
         /\ \A c \in Consumer : hand[c] # NoRecord => hand[c] \in Records
         /\ \A p \in Process : \A k \in DOMAIN buffer[p] : buffer[p][k] \in Records
<1>1. \A t \in Partition : /\ committed[t] \in Nat /\ position[t] \in Nat /\ Len(log[t]) \in Nat
                          /\ committed[t] <= Len(log[t]) /\ position[t] <= Len(log[t])
  BY LogFacts DEF TypeOK
<1>2. \A t \in Partition : \A i \in 1 .. Len(log[t]) : <<t, i>> \in Records
  BY RecordFacts DEF TypeOK
<1>3. \A t \in Partition : \A i \in 1 .. committed[t] : i \in 1 .. Len(log[t])
  BY <1>1
<1>4. \A t \in Partition : \A i \in 1 .. position[t] : i \in 1 .. Len(log[t])
  BY <1>1
<1>5. ASSUME NEW r \in Records, NEW i \in 1 .. (Offset(r) - 1) PROVE <<Partit(r), i>> \in Records
  <2>1. Partit(r) \in Partition /\ Offset(r) \in Nat /\ Offset(r) \in 1 .. Len(log[Partit(r)])
    BY RecordFacts DEF TypeOK
  <2>2. i \in 1 .. Len(log[Partit(r)])
    BY <1>1, <2>1
  <2> QED BY <1>2, <2>1, <2>2
<1> QED BY <1>2, <1>3, <1>4, <1>5 DEF TypeOK, BufferedIsLogged

-----------------------------------------------------------------------------
(* What a step leaves alone                                                *)

LEMMA StillTraced ==
  ASSUME IInv, setup' = setup, Grown, acked \subseteq acked',
         \A r \in Records' : r \in Records \/ r \notin copied',
         \A r \in copied' : r \in copied \/ \E s \in Records' : s \notin copied' /\ Content(s)' = Content(r)
  PROVE  Traced'
<1> SUFFICES ASSUME NEW m \in Sent', m \notin Done'
             PROVE  \E s \in Records' \ copied' : Content(s)' = m
  BY DEF Traced
<1>1. PICK r \in Records' : Content(r)' = m /\ m \notin Foreign
  BY DEF Sent
<1>2. CASE r \notin Records
  BY <1>1, <1>2
<1>3. CASE r \in Records
  <2>1. Content(r) = m /\ m \in Sent
    BY <1>1, <1>3 DEF Grown, Sent
  <2>2. m \notin Done
    BY DEF Done, Grown, IInv, TypeOK
  <2>3. PICK s \in Records \ copied : Content(s) = m
    BY <2>1, <2>2 DEF IInv, Traced
  <2>4. s \in Records' /\ Content(s)' = m
    BY <2>3 DEF Grown
  <2> QED BY <2>3, <2>4
<1> QED BY <1>2, <1>3

LEMMA StillCommitted ==
  ASSUME IInv, setup' = setup, Grown, acked \subseteq acked', copied \subseteq copied',
         committed' = committed, used'.troubles = 0 => used.troubles = 0,
         ~OneLoopEach /\ used'.troubles = 0 =>
           \A c \in Consumer :
             \/ hand[c] = NoRecord \/ hand'[c] = hand[c]
             \/ \E r \in Records : hand[c] = r /\ Settled(r)'
  PROVE  CommittedIsSettled'
<1> SUFFICES ASSUME Orderly', NEW t \in Partition, NEW i \in 1 .. committed[t]
             PROVE  Settled(<<t, i>>)' \/ (~OneLoopEach /\ \E c \in Consumer : hand'[c] = <<t, i>>)
  BY SetupFixed DEF CommittedIsSettled
<1>1. Orderly
  BY SetupFixed DEF Orderly
<1>2. <<t, i>> \in Records
  BY Earlier DEF IInv
<1>3. Settled(<<t, i>>) \/ (~OneLoopEach /\ \E c \in Consumer : hand[c] = <<t, i>>)
  BY <1>1 DEF IInv, CommittedIsSettled
<1>4. CASE Settled(<<t, i>>)
  BY <1>2, <1>4, SettledStays
<1>5. CASE ~OneLoopEach /\ \E c \in Consumer : hand[c] = <<t, i>>
  <2>1. PICK c \in Consumer : hand[c] = <<t, i>>
    BY <1>5
  <2>2. used'.troubles = 0
    BY <1>5, SetupFixed DEF Orderly
  <2>3. hand[c] # NoRecord
    BY <1>2, <2>1, RecordFacts DEF IInv, TypeOK
  <2> QED BY <1>5, <2>1, <2>2, <2>3
<1> QED BY <1>3, <1>4, <1>5

(* Every instance keeps what it has but for what is settled, or has gone.  *)
StillHas(p) ==
  /\ \A c \in At(p) : \/ hand[c] = NoRecord \/ hand'[c] = hand[c]
                      \/ \E r \in Records : hand[c] = r /\ Settled(r)'
  /\ \A c \in At(p) : hand'[c] = hand[c] \/ hand'[c] = NoRecord
  /\ buffer'[p] = buffer[p]

HasNothing(p) ==
  /\ \A c \in At(p) : hand'[c] = NoRecord
  /\ buffer'[p] = <<>>

Kept(p) ==
  /\ StillHas(p)
  /\ \A t \in Partition : owner'[t] = p => owner[t] = p /\ position'[t] = position[t]

Gone(p) ==
  /\ HasNothing(p)
  /\ \A t \in Partition : owner'[t] # p

LEMMA StillInOrder ==
  ASSUME IInv, setup' = setup, Grown, acked \subseteq acked', copied \subseteq copied',
         used'.troubles = 0 => used.troubles = 0,
         \A p \in Process : StillHas(p) \/ HasNothing(p)
  PROVE  /\ HandsFollow' /\ BuffersFollow'
         /\ \A p \in Process : StillHas(p) =>
              \A r \in Records : Settled(r) \/ InHand(p, r) => InHand(p, r)' \/ Settled(r)'
<1>1. Orderly' => Orderly
  BY SetupFixed DEF Orderly
<1>2. ASSUME NEW p \in Process, StillHas(p), NEW r \in Records, InHand(p, r)
      PROVE  InHand(p, r)' \/ Settled(r)'
  <2>1. PICK c \in At(p) : hand[c] = r
    BY <1>2 DEF InHand
  <2>2. r # NoRecord
    BY RecordFacts DEF IInv, TypeOK
  <2>3. c \in At(p)'
    BY <2>1, SetupFixed
  <2> QED BY <1>2, <2>1, <2>2, <2>3 DEF StillHas, InHand
<1>3. \A r \in Records : Settled(r) => Settled(r)'
  BY SettledStays
<1>4. HandsFollow'
  <2> SUFFICES ASSUME Orderly', NEW c \in Consumer, hand'[c] # NoRecord,
                      NEW i \in 1 .. (Offset(hand[c])' - 1)
               PROVE  Settled(<<Partit(hand[c]), i>>)' \/ InHand(home[c], <<Partit(hand[c]), i>>)'
    BY DEF HandsFollow
  <2>1. PICK p \in Process : p = home[c] /\ c \in At(p) /\ home' = home
    BY Deployment, SetupFixed DEF IInv
  <2>2. StillHas(p) /\ hand'[c] = hand[c]
    BY <2>1 DEF StillHas, HasNothing
  <2>3. PICK r \in Records : r = hand[c]
    BY <2>2, Earlier DEF IInv
  <2>4. i \in 1 .. (Offset(r) - 1)
    BY <2>2, <2>3 DEF Offset
  <2>5. PICK s \in Records : s = <<Partit(r), i>>
    BY <2>4, Earlier DEF IInv
  <2>6. Settled(s) \/ InHand(p, s)
    BY <1>1, <2>1, <2>2, <2>3, <2>4, <2>5 DEF IInv, HandsFollow
  <2>7. Settled(s)' \/ InHand(p, s)'
    BY <1>2, <1>3, <2>2, <2>6
  <2>8. s = <<Partit(hand[c])', i>>
    BY <2>2, <2>3, <2>5 DEF Partit
  <2>9. p = home'[c]
    BY <2>1
  <2> QED BY <2>7, <2>8, <2>9 DEF Settled, InHand, At, Content, Partit, Offset
<1>5. BuffersFollow'
  <2> SUFFICES ASSUME Orderly', NEW p \in Process, NEW k \in DOMAIN buffer'[p]
               PROVE  EntryFollows(p, k)'
    BY DEF BuffersFollow
  <2>1. StillHas(p) /\ buffer'[p] = buffer[p] /\ k \in DOMAIN buffer[p]
    BY DEF StillHas, HasNothing
  <2>2. EntryFollows(p, k)
    BY <1>1, <2>1 DEF IInv, BuffersFollow
  <2>3. PICK r \in Records : r = buffer[p][k]
    BY <2>1 DEF IInv, BufferedIsLogged
  <2>4. ASSUME NEW i \in 1 .. (Offset(r) - 1)
        PROVE  \/ Settled(<<Partit(r), i>>)' \/ InHand(p, <<Partit(r), i>>)'
               \/ \E j \in 1 .. (k - 1) : buffer'[p][j] = <<Partit(r), i>>
    <3>1. PICK s \in Records : s = <<Partit(r), i>>
      BY <2>3, Earlier DEF IInv
    <3>2. \/ Settled(s) \/ InHand(p, s)
          \/ \E j \in 1 .. (k - 1) : buffer[p][j] = s
      BY <2>2, <2>3, <3>1 DEF EntryFollows
    <3>3. Settled(s)' \/ InHand(p, s)' \/ \E j \in 1 .. (k - 1) : buffer'[p][j] = s
      BY <1>2, <1>3, <2>1, <3>2
    <3> QED BY <3>1, <3>3
  <2> QED BY <2>1, <2>3, <2>4 DEF EntryFollows, Partit, Offset
<1> QED BY <1>2, <1>3, <1>4, <1>5

LEMMA StillFollows ==
  ASSUME IInv, setup' = setup, Grown, acked \subseteq acked', copied \subseteq copied',
         used'.troubles = 0 => used.troubles = 0,
         owner' \in [Partition -> Process \union {Nobody}],
         \A p \in Process : Kept(p) \/ Gone(p)
  PROVE  HandsFollow' /\ BuffersFollow' /\ PositionsFollow'
<1>1. Orderly' => Orderly
  BY SetupFixed DEF Orderly
<1>2. /\ HandsFollow' /\ BuffersFollow'
      /\ \A p \in Process : StillHas(p) =>
           \A r \in Records : Settled(r) \/ InHand(p, r) => InHand(p, r)' \/ Settled(r)'
  BY StillInOrder DEF Kept, Gone
<1>6. PositionsFollow'
  <2> SUFFICES ASSUME Orderly', NEW t \in Partition, owner'[t] # Nobody, NEW i \in 1 .. position'[t]
               PROVE  \/ Settled(<<t, i>>)' \/ InHand(owner[t], <<t, i>>)'
                      \/ \E j \in DOMAIN buffer'[owner'[t]] : buffer'[owner'[t]][j] = <<t, i>>
    BY DEF PositionsFollow
  <2>1. PICK p \in Process : p = owner'[t]
    OBVIOUS
  <2>2. Kept(p) /\ owner[t] = p /\ position'[t] = position[t] /\ buffer'[p] = buffer[p]
        /\ p # Nobody
    BY <2>1, NamesAssumption DEF Kept, Gone, StillHas
  <2>3. PICK s \in Records : s = <<t, i>>
    BY <2>2, Earlier DEF IInv
  <2>4. Settled(s) \/ InHand(p, s) \/ \E j \in DOMAIN buffer[p] : buffer[p][j] = s
    BY <1>1, <2>2, <2>3 DEF IInv, PositionsFollow
  <2>5. Settled(s)' \/ InHand(p, s)' \/ \E j \in DOMAIN buffer'[p] : buffer'[p][j] = s
    BY <1>2, <2>2, <2>4 DEF Kept
  <2> QED BY <2>1, <2>3, <2>5 DEF InHand
<1> QED BY <1>2, <1>6

(* Once there was trouble, nothing is claimed of calm times.               *)
LEMMA Troubled ==
  ASSUME used'.troubles # 0
  PROVE  Calm' /\ SettledIsBehind'
BY DEF Calm, SettledIsBehind

(* Only where loops and workers are changes, and how far close() is.       *)
LEMMA Quiet ==
  ASSUME IInv, setup' = setup, UNCHANGED <<brokerVars, buffer, hand, historyVars>>,
         TypeOK', Hands', Registry', used'.troubles = used.troubles,
         used.troubles = 0 =>
           /\ \A c \in Consumer : pc'[c] # "crashed"
           /\ \A c \in Consumer : pc'[c] = "handle" => pc[c] = "handle"
           /\ \A p \in Process : closing'[p] = "open" => closing[p] = "open"
           /\ NobodyLeft' => NobodyLeft
  PROVE  IInv'
<1>f. UNCHANGED <<log, committed, owner, position, buffer, hand, acked, copied>>
  BY DEF brokerVars, historyVars
<1>g. Grown /\ Records' = Records
  BY <1>f, NotGrown DEF IInv
<1>1. BufferedIsLogged'
  BY <1>f, <1>g DEF IInv, BufferedIsLogged
<1>2. Traced'
  BY <1>f, <1>g, StillTraced
<1>3. CommittedIsSettled'
  BY <1>f, <1>g, StillCommitted
<1>4. HandsFollow' /\ BuffersFollow' /\ PositionsFollow'
  <2>1. owner' \in [Partition -> Process \union {Nobody}]
    BY <1>f DEF IInv, TypeOK
  <2>2. \A p \in Process : Kept(p)
    BY <1>f DEF Kept, StillHas
  <2> QED BY <1>f, <1>g, <2>1, <2>2, StillFollows
<1>5. Calm'
  BY <1>f, SetupFixed DEF IInv, Calm, CalmHand, CalmBuffer, Joined, Before, Partit, Offset
<1>6. SettledIsBehind'
  BY <1>f, SetupFixed DEF IInv, SettledIsBehind, Behind, Partit, Offset
<1> QED BY <1>1, <1>2, <1>3, <1>4, <1>5, <1>6 DEF IInv

LEMMA SpendFacts ==
  ASSUME IInv, NEW bound \in {"rejects", "troubles"}, NEW limit, Spend(bound, limit)
  PROVE  /\ used' \in [{"rejects", "troubles"} -> Nat]
         /\ bound = "troubles" => used'.troubles # 0
         /\ bound = "rejects" => used'.troubles = used.troubles
         /\ used'.troubles = 0 => used.troubles = 0
<1>1. used \in [{"rejects", "troubles"} -> Nat] /\ used[bound] \in Nat
      /\ used' = [used EXCEPT ![bound] = used[bound] + 1]
  BY DEF Spend, IInv, TypeOK
<1> DEFINE k == used[bound] + 1
<1>2. k \in Nat /\ k # 0 /\ used' = [used EXCEPT ![bound] = k]
  BY <1>1
<1> HIDE DEF k
<1> QED BY <1>1, <1>2

LEMMA StillRegistered ==
  ASSUME IInv, setup' = setup, UNCHANGED <<inFlight, closing>>,
         used'.troubles = 0 => used.troubles = 0,
         \A c \in Consumer : pc'[c] = "handle" => pc[c] = "handle" /\ hand'[c] = hand[c]
  PROVE  Registry'
<1>1. home' = home /\ (Orderly' => Orderly)
  BY SetupFixed DEF Orderly
<1> QED BY <1>1 DEF IInv, Registry, Settleable

(* A settlement releases the record of its loop, and of no other loop as   *)
(* far as records are in the hands of one loop.                            *)
LEMMA Released ==
  ASSUME IInv, setup' = setup, UNCHANGED hand, used'.troubles = used.troubles,
         NEW c \in Consumer, pc[c] = "handle", Release(c), pc'[c] # "handle",
         \A d \in Consumer : pc'[d] = "handle" => pc[d] = "handle"
  PROVE  /\ Registry' /\ inFlight' \in [Process -> SUBSET Record]
         /\ closing' \in [Process -> {"open", "draining", "flushing", "closed"}]
         /\ \A p \in Process : closing'[p] = "open" => closing[p] = "open"
<1>1. /\ home \in [Consumer -> Process] /\ home' = home /\ (Orderly' => Orderly)
      /\ OneLoopEach' = OneLoopEach
  BY Deployment, SetupFixed DEF IInv, Orderly
<1>2. PICK p \in Process : p = home[c]
  BY <1>1
<1>3. /\ inFlight' = [inFlight EXCEPT ![p] = inFlight[p] \ {hand[c]}]
      /\ closing' = [closing EXCEPT ![p] =
                       IF closing[p] = "draining" /\ inFlight[p] = {hand[c]}
                         THEN "flushing" ELSE closing[p]]
  BY <1>2 DEF Release
<1>4. /\ inFlight \in [Process -> SUBSET Record]
      /\ closing \in [Process -> {"open", "draining", "flushing", "closed"}]
  BY DEF IInv, TypeOK
<1>5. /\ inFlight'[p] = inFlight[p] \ {hand[c]}
      /\ \A q \in Process : q # p => inFlight'[q] = inFlight[q] /\ closing'[q] = closing[q]
      /\ \/ closing'[p] = closing[p]
         \/ closing[p] = "draining" /\ closing'[p] = "flushing" /\ inFlight[p] = {hand[c]}
  BY <1>3, <1>4
<1>6. \A q \in Process : closing'[q] \in {"flushing", "closed"} => inFlight'[q] = {}
  BY <1>5 DEF IInv, Registry
<1>7. ASSUME Orderly', NEW d \in Consumer, pc'[d] = "handle"
      PROVE  hand[d] \in inFlight'[home[d]]
  <2>1. pc[d] = "handle" /\ d # c /\ hand[d] \in inFlight[home[d]] /\ home[d] \in Process
    BY <1>1, <1>7 DEF IInv, Registry, Settleable
  <2>2. CASE home[d] # p
    BY <1>5, <2>1, <2>2
  <2>3. CASE home[d] = p
    <3>1. ~OneLoopEach /\ used.troubles = 0
      BY <1>1, <1>2, <1>7, <2>1, <2>3 DEF OneLoopEach, Orderly
    <3>2. hand[d] # NoRecord /\ CalmHand(d)
      BY <2>1, <3>1 DEF IInv, Hands, HandFits, Holds, Calm
    <3>3. hand[d] # hand[c]
      BY <2>1, <3>2 DEF CalmHand
    <3> QED BY <1>5, <2>1, <2>3, <3>3
  <2> QED BY <2>2, <2>3
<1>8. Registry'
  BY <1>1, <1>6, <1>7 DEF Registry, Settleable
<1>9. /\ inFlight' \in [Process -> SUBSET Record]
      /\ closing' \in [Process -> {"open", "draining", "flushing", "closed"}]
  BY <1>3, <1>4
<1> QED BY <1>5, <1>8, <1>9

-----------------------------------------------------------------------------
(* Starting, looping, and being told to stop                               *)

LEMMA StartConsumerIInv ==
  ASSUME IInv, NEW p \in Process, StartConsumer(p)
  PROVE  IInv'
<1>s. setup' = setup
  BY DEF StartConsumer, MemberStep
<1>h. /\ home \in [Consumer -> Process] /\ home' = home /\ \A x : At(x)' = At(x)
      /\ \A y \in Consumer : home[y] \in Process /\ y \in At(home[y])
      /\ \A x : \A y \in At(x) : y \in Consumer /\ home[y] = x
  BY <1>s, Deployment, SetupFixed DEF IInv
<1>f. UNCHANGED <<log, committed, owner, position, buffer, hand, acked, copied, pc, closing,
                 aborted, used, inFlight>>
  BY DEF StartConsumer, MemberStep, brokerVars, historyVars, loopVars
<1>g. Records' = Records
  BY <1>f DEF Records
<1>e. /\ member[p] = "none" /\ member' = [member EXCEPT ![p] = "connect"]
      /\ used'.troubles = used.troubles
  BY <1>f DEF StartConsumer, MemberStep
<1>1. TypeOK'
  <2>1. log' \in [Partition -> Seq(Message)] /\ committed' \in [Partition -> Nat]
        /\ position' \in [Partition -> Nat]
        /\ \A t \in Partition : committed'[t] <= Len(log'[t]) /\ position'[t] <= Len(log'[t])
    BY <1>f, <1>g, <1>e, <1>h DEF IInv, TypeOK
  <2>2. owner' \in [Partition -> Process \union {Nobody}]
    BY <1>f, <1>g, <1>e, <1>h DEF IInv, TypeOK
  <2>3. member' \in [Process -> {"none", "connect", "subscribe", "joined", "left"}]
    BY <1>f, <1>g, <1>e, <1>h DEF IInv, TypeOK
  <2>4. buffer' \in [Process -> Seq(Record)]
    BY <1>f, <1>g, <1>e, <1>h DEF IInv, TypeOK
  <2>5. closing' \in [Process -> {"open", "draining", "flushing", "closed"}]
    BY <1>f, <1>g, <1>e, <1>h DEF IInv, TypeOK
  <2>6. pc' \in [Consumer -> {"start", "loop", "asleep", "discard", "handle", "publish",
                          "commit", "returned", "crashed"}]
    BY <1>f, <1>g, <1>e, <1>h DEF IInv, TypeOK
  <2>7. hand' \in [Consumer -> Records' \union {NoRecord}]
    BY <1>f, <1>g, <1>e, <1>h DEF IInv, TypeOK
  <2>8. aborted' \in [Consumer -> BOOLEAN] /\ used' \in [{"rejects", "troubles"} -> Nat]
    BY <1>f, <1>g, <1>e, <1>h DEF IInv, TypeOK
  <2>9. acked' \subseteq Records' /\ copied' \subseteq Records'
    BY <1>f, <1>g, <1>e, <1>h DEF IInv, TypeOK
  <2>10. inFlight' \in [Process -> SUBSET Record]
    BY <1>f, <1>g, <1>e, <1>h DEF IInv, TypeOK
  <2> QED BY <1>s, <2>1, <2>2, <2>3, <2>4, <2>5, <2>6, <2>7, <2>8, <2>9,
            <2>10 DEF IInv, TypeOK
<1>2. Hands'
  BY <1>f, <1>g, <1>e, <1>h DEF IInv, TypeOK, Hands, HandFits, Holds, Content, Partit, Offset
<1>3. Registry'
  BY <1>s, <1>e, <1>f, <1>h, SetupFixed DEF IInv, Registry, Settleable, Orderly, TypeOK
<1>4. UNCHANGED <<brokerVars, buffer, hand, historyVars>>
  BY <1>f DEF brokerVars, historyVars
<1>5. used.troubles = 0 =>
        /\ \A y \in Consumer : pc'[y] # "crashed"
        /\ \A y \in Consumer : pc'[y] = "handle" => pc[y] = "handle"
        /\ \A x \in Process : closing'[x] = "open" => closing[x] = "open"
        /\ NobodyLeft' => NobodyLeft
  BY <1>f, <1>e, <1>h DEF IInv, TypeOK, Calm, CalmHand, NobodyLeft
<1> QED BY <1>s, <1>f, <1>e, <1>1, <1>2, <1>3, <1>4, <1>5, Quiet

LEMMA ConnectedIInv ==
  ASSUME IInv, NEW p \in Process, Connected(p)
  PROVE  IInv'
<1>s. setup' = setup
  BY DEF Connected, MemberStep
<1>h. /\ home \in [Consumer -> Process] /\ home' = home /\ \A x : At(x)' = At(x)
      /\ \A y \in Consumer : home[y] \in Process /\ y \in At(home[y])
      /\ \A x : \A y \in At(x) : y \in Consumer /\ home[y] = x
  BY <1>s, Deployment, SetupFixed DEF IInv
<1>f. UNCHANGED <<log, committed, owner, position, buffer, hand, acked, copied, pc, closing,
                 aborted, used, inFlight>>
  BY DEF Connected, MemberStep, brokerVars, historyVars, loopVars
<1>g. Records' = Records
  BY <1>f DEF Records
<1>e. /\ member[p] = "connect" /\ member' = [member EXCEPT ![p] = "subscribe"]
      /\ used'.troubles = used.troubles
  BY <1>f DEF Connected, MemberStep
<1>1. TypeOK'
  <2>1. log' \in [Partition -> Seq(Message)] /\ committed' \in [Partition -> Nat]
        /\ position' \in [Partition -> Nat]
        /\ \A t \in Partition : committed'[t] <= Len(log'[t]) /\ position'[t] <= Len(log'[t])
    BY <1>f, <1>g, <1>e, <1>h DEF IInv, TypeOK
  <2>2. owner' \in [Partition -> Process \union {Nobody}]
    BY <1>f, <1>g, <1>e, <1>h DEF IInv, TypeOK
  <2>3. member' \in [Process -> {"none", "connect", "subscribe", "joined", "left"}]
    BY <1>f, <1>g, <1>e, <1>h DEF IInv, TypeOK
  <2>4. buffer' \in [Process -> Seq(Record)]
    BY <1>f, <1>g, <1>e, <1>h DEF IInv, TypeOK
  <2>5. closing' \in [Process -> {"open", "draining", "flushing", "closed"}]
    BY <1>f, <1>g, <1>e, <1>h DEF IInv, TypeOK
  <2>6. pc' \in [Consumer -> {"start", "loop", "asleep", "discard", "handle", "publish",
                          "commit", "returned", "crashed"}]
    BY <1>f, <1>g, <1>e, <1>h DEF IInv, TypeOK
  <2>7. hand' \in [Consumer -> Records' \union {NoRecord}]
    BY <1>f, <1>g, <1>e, <1>h DEF IInv, TypeOK
  <2>8. aborted' \in [Consumer -> BOOLEAN] /\ used' \in [{"rejects", "troubles"} -> Nat]
    BY <1>f, <1>g, <1>e, <1>h DEF IInv, TypeOK
  <2>9. acked' \subseteq Records' /\ copied' \subseteq Records'
    BY <1>f, <1>g, <1>e, <1>h DEF IInv, TypeOK
  <2>10. inFlight' \in [Process -> SUBSET Record]
    BY <1>f, <1>g, <1>e, <1>h DEF IInv, TypeOK
  <2> QED BY <1>s, <2>1, <2>2, <2>3, <2>4, <2>5, <2>6, <2>7, <2>8, <2>9,
            <2>10 DEF IInv, TypeOK
<1>2. Hands'
  BY <1>f, <1>g, <1>e, <1>h DEF IInv, TypeOK, Hands, HandFits, Holds, Content, Partit, Offset
<1>3. Registry'
  BY <1>s, <1>e, <1>f, <1>h, SetupFixed DEF IInv, Registry, Settleable, Orderly, TypeOK
<1>4. UNCHANGED <<brokerVars, buffer, hand, historyVars>>
  BY <1>f DEF brokerVars, historyVars
<1>5. used.troubles = 0 =>
        /\ \A y \in Consumer : pc'[y] # "crashed"
        /\ \A y \in Consumer : pc'[y] = "handle" => pc[y] = "handle"
        /\ \A x \in Process : closing'[x] = "open" => closing[x] = "open"
        /\ NobodyLeft' => NobodyLeft
  BY <1>f, <1>e, <1>h DEF IInv, TypeOK, Calm, CalmHand, NobodyLeft
<1> QED BY <1>s, <1>f, <1>e, <1>1, <1>2, <1>3, <1>4, <1>5, Quiet

LEMMA SubscribedIInv ==
  ASSUME IInv, NEW p \in Process, Subscribed(p)
  PROVE  IInv'
<1>s. setup' = setup
  BY DEF Subscribed, MemberStep
<1>h. /\ home \in [Consumer -> Process] /\ home' = home /\ \A x : At(x)' = At(x)
      /\ \A y \in Consumer : home[y] \in Process /\ y \in At(home[y])
      /\ \A x : \A y \in At(x) : y \in Consumer /\ home[y] = x
  BY <1>s, Deployment, SetupFixed DEF IInv
<1>f. UNCHANGED <<log, committed, owner, position, buffer, hand, acked, copied, pc, closing,
                 aborted, used, inFlight>>
  BY DEF Subscribed, MemberStep, brokerVars, historyVars, loopVars
<1>g. Records' = Records
  BY <1>f DEF Records
<1>e. /\ member[p] = "subscribe" /\ member' = [member EXCEPT ![p] = "joined"]
      /\ used'.troubles = used.troubles
  BY <1>f DEF Subscribed, MemberStep
<1>1. TypeOK'
  <2>1. log' \in [Partition -> Seq(Message)] /\ committed' \in [Partition -> Nat]
        /\ position' \in [Partition -> Nat]
        /\ \A t \in Partition : committed'[t] <= Len(log'[t]) /\ position'[t] <= Len(log'[t])
    BY <1>f, <1>g, <1>e, <1>h DEF IInv, TypeOK
  <2>2. owner' \in [Partition -> Process \union {Nobody}]
    BY <1>f, <1>g, <1>e, <1>h DEF IInv, TypeOK
  <2>3. member' \in [Process -> {"none", "connect", "subscribe", "joined", "left"}]
    BY <1>f, <1>g, <1>e, <1>h DEF IInv, TypeOK
  <2>4. buffer' \in [Process -> Seq(Record)]
    BY <1>f, <1>g, <1>e, <1>h DEF IInv, TypeOK
  <2>5. closing' \in [Process -> {"open", "draining", "flushing", "closed"}]
    BY <1>f, <1>g, <1>e, <1>h DEF IInv, TypeOK
  <2>6. pc' \in [Consumer -> {"start", "loop", "asleep", "discard", "handle", "publish",
                          "commit", "returned", "crashed"}]
    BY <1>f, <1>g, <1>e, <1>h DEF IInv, TypeOK
  <2>7. hand' \in [Consumer -> Records' \union {NoRecord}]
    BY <1>f, <1>g, <1>e, <1>h DEF IInv, TypeOK
  <2>8. aborted' \in [Consumer -> BOOLEAN] /\ used' \in [{"rejects", "troubles"} -> Nat]
    BY <1>f, <1>g, <1>e, <1>h DEF IInv, TypeOK
  <2>9. acked' \subseteq Records' /\ copied' \subseteq Records'
    BY <1>f, <1>g, <1>e, <1>h DEF IInv, TypeOK
  <2>10. inFlight' \in [Process -> SUBSET Record]
    BY <1>f, <1>g, <1>e, <1>h DEF IInv, TypeOK
  <2> QED BY <1>s, <2>1, <2>2, <2>3, <2>4, <2>5, <2>6, <2>7, <2>8, <2>9,
            <2>10 DEF IInv, TypeOK
<1>2. Hands'
  BY <1>f, <1>g, <1>e, <1>h DEF IInv, TypeOK, Hands, HandFits, Holds, Content, Partit, Offset
<1>3. Registry'
  BY <1>s, <1>e, <1>f, <1>h, SetupFixed DEF IInv, Registry, Settleable, Orderly, TypeOK
<1>4. UNCHANGED <<brokerVars, buffer, hand, historyVars>>
  BY <1>f DEF brokerVars, historyVars
<1>5. used.troubles = 0 =>
        /\ \A y \in Consumer : pc'[y] # "crashed"
        /\ \A y \in Consumer : pc'[y] = "handle" => pc[y] = "handle"
        /\ \A x \in Process : closing'[x] = "open" => closing[x] = "open"
        /\ NobodyLeft' => NobodyLeft
  BY <1>f, <1>e, <1>h DEF IInv, TypeOK, Calm, CalmHand, NobodyLeft
<1> QED BY <1>s, <1>f, <1>e, <1>1, <1>2, <1>3, <1>4, <1>5, Quiet

LEMMA EnterIInv ==
  ASSUME IInv, NEW c \in Consumer, Enter(c)
  PROVE  IInv'
<1>s. setup' = setup
  BY DEF Enter, Goto
<1>h. /\ home \in [Consumer -> Process] /\ home' = home /\ \A x : At(x)' = At(x)
      /\ \A y \in Consumer : home[y] \in Process /\ y \in At(home[y])
      /\ \A x : \A y \in At(x) : y \in Consumer /\ home[y] = x
  BY <1>s, Deployment, SetupFixed DEF IInv
<1>f. UNCHANGED <<log, committed, owner, position, buffer, hand, acked, copied, member,
                 closing, aborted, used, inFlight>>
  BY DEF Enter, Goto, brokerVars, historyVars, loopVars
<1>g. Records' = Records
  BY <1>f DEF Records
<1>e. /\ pc[c] = "start" /\ pc' = [pc EXCEPT ![c] = "loop"]
      /\ used'.troubles = used.troubles
  BY <1>f DEF Enter, Goto
<1>1. TypeOK'
  <2>1. log' \in [Partition -> Seq(Message)] /\ committed' \in [Partition -> Nat]
        /\ position' \in [Partition -> Nat]
        /\ \A t \in Partition : committed'[t] <= Len(log'[t]) /\ position'[t] <= Len(log'[t])
    BY <1>f, <1>g, <1>e, <1>h DEF IInv, TypeOK
  <2>2. owner' \in [Partition -> Process \union {Nobody}]
    BY <1>f, <1>g, <1>e, <1>h DEF IInv, TypeOK
  <2>3. member' \in [Process -> {"none", "connect", "subscribe", "joined", "left"}]
    BY <1>f, <1>g, <1>e, <1>h DEF IInv, TypeOK
  <2>4. buffer' \in [Process -> Seq(Record)]
    BY <1>f, <1>g, <1>e, <1>h DEF IInv, TypeOK
  <2>5. closing' \in [Process -> {"open", "draining", "flushing", "closed"}]
    BY <1>f, <1>g, <1>e, <1>h DEF IInv, TypeOK
  <2>6. pc' \in [Consumer -> {"start", "loop", "asleep", "discard", "handle", "publish",
                          "commit", "returned", "crashed"}]
    BY <1>f, <1>g, <1>e, <1>h DEF IInv, TypeOK
  <2>7. hand' \in [Consumer -> Records' \union {NoRecord}]
    BY <1>f, <1>g, <1>e, <1>h DEF IInv, TypeOK
  <2>8. aborted' \in [Consumer -> BOOLEAN] /\ used' \in [{"rejects", "troubles"} -> Nat]
    BY <1>f, <1>g, <1>e, <1>h DEF IInv, TypeOK
  <2>9. acked' \subseteq Records' /\ copied' \subseteq Records'
    BY <1>f, <1>g, <1>e, <1>h DEF IInv, TypeOK
  <2>10. inFlight' \in [Process -> SUBSET Record]
    BY <1>f, <1>g, <1>e, <1>h DEF IInv, TypeOK
  <2> QED BY <1>s, <2>1, <2>2, <2>3, <2>4, <2>5, <2>6, <2>7, <2>8, <2>9,
            <2>10 DEF IInv, TypeOK
<1>2. Hands'
  BY <1>f, <1>g, <1>e, <1>h DEF IInv, TypeOK, Hands, HandFits, Holds, Content, Partit, Offset
<1>3. Registry'
  BY <1>s, <1>e, <1>f, <1>h, SetupFixed DEF IInv, Registry, Settleable, Orderly, TypeOK
<1>4. UNCHANGED <<brokerVars, buffer, hand, historyVars>>
  BY <1>f DEF brokerVars, historyVars
<1>5. used.troubles = 0 =>
        /\ \A y \in Consumer : pc'[y] # "crashed"
        /\ \A y \in Consumer : pc'[y] = "handle" => pc[y] = "handle"
        /\ \A x \in Process : closing'[x] = "open" => closing[x] = "open"
        /\ NobodyLeft' => NobodyLeft
  BY <1>f, <1>e, <1>h DEF IInv, TypeOK, Calm, CalmHand, NobodyLeft
<1> QED BY <1>s, <1>f, <1>e, <1>1, <1>2, <1>3, <1>4, <1>5, Quiet

LEMMA SleepIInv ==
  ASSUME IInv, NEW c \in Consumer, Sleep(c)
  PROVE  IInv'
<1>s. setup' = setup
  BY DEF Sleep, Goto
<1>h. /\ home \in [Consumer -> Process] /\ home' = home /\ \A x : At(x)' = At(x)
      /\ \A y \in Consumer : home[y] \in Process /\ y \in At(home[y])
      /\ \A x : \A y \in At(x) : y \in Consumer /\ home[y] = x
  BY <1>s, Deployment, SetupFixed DEF IInv
<1>f. UNCHANGED <<log, committed, owner, position, buffer, hand, acked, copied, member,
                 closing, aborted, used, inFlight>>
  BY DEF Sleep, Goto, brokerVars, historyVars, loopVars
<1>g. Records' = Records
  BY <1>f DEF Records
<1>e. /\ pc[c] = "loop" /\ pc' = [pc EXCEPT ![c] = "asleep"]
      /\ used'.troubles = used.troubles
  BY <1>f DEF Sleep, Goto
<1>1. TypeOK'
  <2>1. log' \in [Partition -> Seq(Message)] /\ committed' \in [Partition -> Nat]
        /\ position' \in [Partition -> Nat]
        /\ \A t \in Partition : committed'[t] <= Len(log'[t]) /\ position'[t] <= Len(log'[t])
    BY <1>f, <1>g, <1>e, <1>h DEF IInv, TypeOK
  <2>2. owner' \in [Partition -> Process \union {Nobody}]
    BY <1>f, <1>g, <1>e, <1>h DEF IInv, TypeOK
  <2>3. member' \in [Process -> {"none", "connect", "subscribe", "joined", "left"}]
    BY <1>f, <1>g, <1>e, <1>h DEF IInv, TypeOK
  <2>4. buffer' \in [Process -> Seq(Record)]
    BY <1>f, <1>g, <1>e, <1>h DEF IInv, TypeOK
  <2>5. closing' \in [Process -> {"open", "draining", "flushing", "closed"}]
    BY <1>f, <1>g, <1>e, <1>h DEF IInv, TypeOK
  <2>6. pc' \in [Consumer -> {"start", "loop", "asleep", "discard", "handle", "publish",
                          "commit", "returned", "crashed"}]
    BY <1>f, <1>g, <1>e, <1>h DEF IInv, TypeOK
  <2>7. hand' \in [Consumer -> Records' \union {NoRecord}]
    BY <1>f, <1>g, <1>e, <1>h DEF IInv, TypeOK
  <2>8. aborted' \in [Consumer -> BOOLEAN] /\ used' \in [{"rejects", "troubles"} -> Nat]
    BY <1>f, <1>g, <1>e, <1>h DEF IInv, TypeOK
  <2>9. acked' \subseteq Records' /\ copied' \subseteq Records'
    BY <1>f, <1>g, <1>e, <1>h DEF IInv, TypeOK
  <2>10. inFlight' \in [Process -> SUBSET Record]
    BY <1>f, <1>g, <1>e, <1>h DEF IInv, TypeOK
  <2> QED BY <1>s, <2>1, <2>2, <2>3, <2>4, <2>5, <2>6, <2>7, <2>8, <2>9,
            <2>10 DEF IInv, TypeOK
<1>2. Hands'
  BY <1>f, <1>g, <1>e, <1>h DEF IInv, TypeOK, Hands, HandFits, Holds, Content, Partit, Offset
<1>3. Registry'
  BY <1>s, <1>e, <1>f, <1>h, SetupFixed DEF IInv, Registry, Settleable, Orderly, TypeOK
<1>4. UNCHANGED <<brokerVars, buffer, hand, historyVars>>
  BY <1>f DEF brokerVars, historyVars
<1>5. used.troubles = 0 =>
        /\ \A y \in Consumer : pc'[y] # "crashed"
        /\ \A y \in Consumer : pc'[y] = "handle" => pc[y] = "handle"
        /\ \A x \in Process : closing'[x] = "open" => closing[x] = "open"
        /\ NobodyLeft' => NobodyLeft
  BY <1>f, <1>e, <1>h DEF IInv, TypeOK, Calm, CalmHand, NobodyLeft
<1> QED BY <1>s, <1>f, <1>e, <1>1, <1>2, <1>3, <1>4, <1>5, Quiet

LEMMA ReturnIInv ==
  ASSUME IInv, NEW c \in Consumer, Return(c)
  PROVE  IInv'
<1>s. setup' = setup
  BY DEF Return, Goto
<1>h. /\ home \in [Consumer -> Process] /\ home' = home /\ \A x : At(x)' = At(x)
      /\ \A y \in Consumer : home[y] \in Process /\ y \in At(home[y])
      /\ \A x : \A y \in At(x) : y \in Consumer /\ home[y] = x
  BY <1>s, Deployment, SetupFixed DEF IInv
<1>f. UNCHANGED <<log, committed, owner, position, buffer, hand, acked, copied, member,
                 closing, aborted, used, inFlight>>
  BY DEF Return, Goto, brokerVars, historyVars, loopVars
<1>g. Records' = Records
  BY <1>f DEF Records
<1>e. /\ pc[c] = "loop" /\ pc' = [pc EXCEPT ![c] = "returned"]
      /\ used'.troubles = used.troubles
  BY <1>f DEF Return, Goto
<1>1. TypeOK'
  <2>1. log' \in [Partition -> Seq(Message)] /\ committed' \in [Partition -> Nat]
        /\ position' \in [Partition -> Nat]
        /\ \A t \in Partition : committed'[t] <= Len(log'[t]) /\ position'[t] <= Len(log'[t])
    BY <1>f, <1>g, <1>e, <1>h DEF IInv, TypeOK
  <2>2. owner' \in [Partition -> Process \union {Nobody}]
    BY <1>f, <1>g, <1>e, <1>h DEF IInv, TypeOK
  <2>3. member' \in [Process -> {"none", "connect", "subscribe", "joined", "left"}]
    BY <1>f, <1>g, <1>e, <1>h DEF IInv, TypeOK
  <2>4. buffer' \in [Process -> Seq(Record)]
    BY <1>f, <1>g, <1>e, <1>h DEF IInv, TypeOK
  <2>5. closing' \in [Process -> {"open", "draining", "flushing", "closed"}]
    BY <1>f, <1>g, <1>e, <1>h DEF IInv, TypeOK
  <2>6. pc' \in [Consumer -> {"start", "loop", "asleep", "discard", "handle", "publish",
                          "commit", "returned", "crashed"}]
    BY <1>f, <1>g, <1>e, <1>h DEF IInv, TypeOK
  <2>7. hand' \in [Consumer -> Records' \union {NoRecord}]
    BY <1>f, <1>g, <1>e, <1>h DEF IInv, TypeOK
  <2>8. aborted' \in [Consumer -> BOOLEAN] /\ used' \in [{"rejects", "troubles"} -> Nat]
    BY <1>f, <1>g, <1>e, <1>h DEF IInv, TypeOK
  <2>9. acked' \subseteq Records' /\ copied' \subseteq Records'
    BY <1>f, <1>g, <1>e, <1>h DEF IInv, TypeOK
  <2>10. inFlight' \in [Process -> SUBSET Record]
    BY <1>f, <1>g, <1>e, <1>h DEF IInv, TypeOK
  <2> QED BY <1>s, <2>1, <2>2, <2>3, <2>4, <2>5, <2>6, <2>7, <2>8, <2>9,
            <2>10 DEF IInv, TypeOK
<1>2. Hands'
  BY <1>f, <1>g, <1>e, <1>h DEF IInv, TypeOK, Hands, HandFits, Holds, Content, Partit, Offset
<1>3. Registry'
  BY <1>s, <1>e, <1>f, <1>h, SetupFixed DEF IInv, Registry, Settleable, Orderly, TypeOK
<1>4. UNCHANGED <<brokerVars, buffer, hand, historyVars>>
  BY <1>f DEF brokerVars, historyVars
<1>5. used.troubles = 0 =>
        /\ \A y \in Consumer : pc'[y] # "crashed"
        /\ \A y \in Consumer : pc'[y] = "handle" => pc[y] = "handle"
        /\ \A x \in Process : closing'[x] = "open" => closing[x] = "open"
        /\ NobodyLeft' => NobodyLeft
  BY <1>f, <1>e, <1>h DEF IInv, TypeOK, Calm, CalmHand, NobodyLeft
<1> QED BY <1>s, <1>f, <1>e, <1>1, <1>2, <1>3, <1>4, <1>5, Quiet

LEMMA AbortIInv ==
  ASSUME IInv, NEW c \in Consumer, Abort(c)
  PROVE  IInv'
<1>s. setup' = setup
  BY DEF Abort
<1>h. /\ home \in [Consumer -> Process] /\ home' = home /\ \A x : At(x)' = At(x)
      /\ \A y \in Consumer : home[y] \in Process /\ y \in At(home[y])
      /\ \A x : \A y \in At(x) : y \in Consumer /\ home[y] = x
  BY <1>s, Deployment, SetupFixed DEF IInv
<1>f. UNCHANGED <<log, committed, owner, position, buffer, hand, acked, copied, member,
                 closing, used, inFlight>>
  BY DEF Abort, brokerVars, historyVars, loopVars
<1>g. Records' = Records
  BY <1>f DEF Records
<1>e. /\ aborted' = [aborted EXCEPT ![c] = TRUE] /\ pc[c] # "crashed"
      /\ pc' = [pc EXCEPT ![c] = IF pc[c] = "asleep" THEN "loop" ELSE pc[c]]
      /\ used'.troubles = used.troubles
  BY <1>f DEF Abort
<1>1. TypeOK'
  <2>1. log' \in [Partition -> Seq(Message)] /\ committed' \in [Partition -> Nat]
        /\ position' \in [Partition -> Nat]
        /\ \A t \in Partition : committed'[t] <= Len(log'[t]) /\ position'[t] <= Len(log'[t])
    BY <1>f, <1>g, <1>e, <1>h DEF IInv, TypeOK
  <2>2. owner' \in [Partition -> Process \union {Nobody}]
    BY <1>f, <1>g, <1>e, <1>h DEF IInv, TypeOK
  <2>3. member' \in [Process -> {"none", "connect", "subscribe", "joined", "left"}]
    BY <1>f, <1>g, <1>e, <1>h DEF IInv, TypeOK
  <2>4. buffer' \in [Process -> Seq(Record)]
    BY <1>f, <1>g, <1>e, <1>h DEF IInv, TypeOK
  <2>5. closing' \in [Process -> {"open", "draining", "flushing", "closed"}]
    BY <1>f, <1>g, <1>e, <1>h DEF IInv, TypeOK
  <2>6. pc' \in [Consumer -> {"start", "loop", "asleep", "discard", "handle", "publish",
                          "commit", "returned", "crashed"}]
    BY <1>f, <1>g, <1>e, <1>h DEF IInv, TypeOK
  <2>7. hand' \in [Consumer -> Records' \union {NoRecord}]
    BY <1>f, <1>g, <1>e, <1>h DEF IInv, TypeOK
  <2>8. aborted' \in [Consumer -> BOOLEAN] /\ used' \in [{"rejects", "troubles"} -> Nat]
    BY <1>f, <1>g, <1>e, <1>h DEF IInv, TypeOK
  <2>9. acked' \subseteq Records' /\ copied' \subseteq Records'
    BY <1>f, <1>g, <1>e, <1>h DEF IInv, TypeOK
  <2>10. inFlight' \in [Process -> SUBSET Record]
    BY <1>f, <1>g, <1>e, <1>h DEF IInv, TypeOK
  <2> QED BY <1>s, <2>1, <2>2, <2>3, <2>4, <2>5, <2>6, <2>7, <2>8, <2>9,
            <2>10 DEF IInv, TypeOK
<1>2. Hands'
  BY <1>f, <1>g, <1>e, <1>h DEF IInv, TypeOK, Hands, HandFits, Holds, Content, Partit, Offset
<1>3. Registry'
  BY <1>s, <1>e, <1>f, <1>h, SetupFixed DEF IInv, Registry, Settleable, Orderly, TypeOK
<1>4. UNCHANGED <<brokerVars, buffer, hand, historyVars>>
  BY <1>f DEF brokerVars, historyVars
<1>5. used.troubles = 0 =>
        /\ \A y \in Consumer : pc'[y] # "crashed"
        /\ \A y \in Consumer : pc'[y] = "handle" => pc[y] = "handle"
        /\ \A x \in Process : closing'[x] = "open" => closing[x] = "open"
        /\ NobodyLeft' => NobodyLeft
  BY <1>f, <1>e, <1>h DEF IInv, TypeOK, Calm, CalmHand, NobodyLeft
<1> QED BY <1>s, <1>f, <1>e, <1>1, <1>2, <1>3, <1>4, <1>5, Quiet

LEMMA CloseIInv ==
  ASSUME IInv, NEW p \in Process, Close(p)
  PROVE  IInv'
<1>s. setup' = setup
  BY DEF Close
<1>h. /\ home \in [Consumer -> Process] /\ home' = home /\ \A x : At(x)' = At(x)
      /\ \A y \in Consumer : home[y] \in Process /\ y \in At(home[y])
      /\ \A x : \A y \in At(x) : y \in Consumer /\ home[y] = x
  BY <1>s, Deployment, SetupFixed DEF IInv
<1>f. UNCHANGED <<log, committed, owner, position, buffer, hand, acked, copied, member,
                 aborted, used, inFlight>>
  BY DEF Close, brokerVars, historyVars, loopVars
<1>g. Records' = Records
  BY <1>f DEF Records
<1>e. /\ closing[p] = "open" /\ used'.troubles = used.troubles
      /\ closing' = [closing EXCEPT ![p] = IF inFlight[p] = {} THEN "flushing" ELSE "draining"]
      /\ \A c \in Consumer : pc'[c] = IF c \in Asleep(p) THEN "loop" ELSE pc[c]
      /\ \A c \in Asleep(p) : pc[c] = "asleep"
      /\ pc' = [c \in Consumer |-> IF c \in Asleep(p) THEN "loop" ELSE pc[c]]
  BY <1>f DEF Close, Asleep
<1>1. TypeOK'
  <2>1. log' \in [Partition -> Seq(Message)] /\ committed' \in [Partition -> Nat]
        /\ position' \in [Partition -> Nat]
        /\ \A t \in Partition : committed'[t] <= Len(log'[t]) /\ position'[t] <= Len(log'[t])
    BY <1>f, <1>g, <1>e, <1>h DEF IInv, TypeOK
  <2>2. owner' \in [Partition -> Process \union {Nobody}]
    BY <1>f, <1>g, <1>e, <1>h DEF IInv, TypeOK
  <2>3. member' \in [Process -> {"none", "connect", "subscribe", "joined", "left"}]
    BY <1>f, <1>g, <1>e, <1>h DEF IInv, TypeOK
  <2>4. buffer' \in [Process -> Seq(Record)]
    BY <1>f, <1>g, <1>e, <1>h DEF IInv, TypeOK
  <2>5. closing' \in [Process -> {"open", "draining", "flushing", "closed"}]
    BY <1>f, <1>g, <1>e, <1>h DEF IInv, TypeOK
  <2>6. pc' \in [Consumer -> {"start", "loop", "asleep", "discard", "handle", "publish",
                          "commit", "returned", "crashed"}]
    BY <1>f, <1>g, <1>e, <1>h DEF IInv, TypeOK
  <2>7. hand' \in [Consumer -> Records' \union {NoRecord}]
    BY <1>f, <1>g, <1>e, <1>h DEF IInv, TypeOK
  <2>8. aborted' \in [Consumer -> BOOLEAN] /\ used' \in [{"rejects", "troubles"} -> Nat]
    BY <1>f, <1>g, <1>e, <1>h DEF IInv, TypeOK
  <2>9. acked' \subseteq Records' /\ copied' \subseteq Records'
    BY <1>f, <1>g, <1>e, <1>h DEF IInv, TypeOK
  <2>10. inFlight' \in [Process -> SUBSET Record]
    BY <1>f, <1>g, <1>e, <1>h DEF IInv, TypeOK
  <2> QED BY <1>s, <2>1, <2>2, <2>3, <2>4, <2>5, <2>6, <2>7, <2>8, <2>9,
            <2>10 DEF IInv, TypeOK
<1>2. Hands'
  BY <1>f, <1>g, <1>e, <1>h DEF IInv, TypeOK, Hands, HandFits, Holds, Content, Partit, Offset
<1>3. Registry'
  <2>1. \A x \in Process : closing'[x] \in {"flushing", "closed"} => inFlight[x] = {}
    BY <1>e DEF IInv, TypeOK, Registry
  <2>2. \A c \in Consumer : pc'[c] = "handle" => pc[c] = "handle"
    BY <1>e
  <2> QED BY <1>s, <1>e, <1>f, <1>h, <2>1, <2>2, SetupFixed DEF IInv, Registry, Settleable, Orderly
<1>4. UNCHANGED <<brokerVars, buffer, hand, historyVars>>
  BY <1>f DEF brokerVars, historyVars
<1>5. used.troubles = 0 =>
        /\ \A y \in Consumer : pc'[y] # "crashed"
        /\ \A y \in Consumer : pc'[y] = "handle" => pc[y] = "handle"
        /\ \A x \in Process : closing'[x] = "open" => closing[x] = "open"
        /\ NobodyLeft' => NobodyLeft
  BY <1>f, <1>e, <1>h DEF IInv, TypeOK, Calm, CalmHand, NobodyLeft
<1> QED BY <1>s, <1>f, <1>e, <1>1, <1>2, <1>3, <1>4, <1>5, Quiet

LEMMA RestartIInv ==
  ASSUME IInv, NEW p \in Process, Restart(p)
  PROVE  IInv'
<1>s. setup' = setup
  BY DEF Restart
<1>h. /\ home \in [Consumer -> Process] /\ home' = home /\ \A x : At(x)' = At(x)
      /\ \A y \in Consumer : home[y] \in Process /\ y \in At(home[y])
      /\ \A x : \A y \in At(x) : y \in Consumer /\ home[y] = x
  BY <1>s, Deployment, SetupFixed DEF IInv
<1>f. UNCHANGED <<log, committed, owner, position, buffer, hand, acked, copied, member, used,
                 inFlight>>
  BY DEF Restart, brokerVars, historyVars, loopVars
<1>g. Records' = Records
  BY <1>f DEF Records
<1>e. /\ \E c \in Consumer : pc[c] = "crashed"
      /\ closing' = [closing EXCEPT ![p] = "open"]
      /\ \A c \in At(p) : hand[c] = NoRecord
      /\ \A c \in Consumer : pc'[c] = IF c \in At(p) THEN "start" ELSE pc[c]
      /\ pc' = [c \in Consumer |-> IF c \in At(p) THEN "start" ELSE pc[c]]
      /\ aborted' = [c \in Consumer |-> IF c \in At(p) THEN FALSE ELSE aborted[c]]
      /\ used'.troubles = used.troubles
  <2>1. PICK c \in At(p) : pc[c] = "crashed"
    BY DEF Restart
  <2>2. \A d \in At(p) : pc[d] = "crashed"
    BY <1>h, <2>1 DEF IInv, Hands
  <2>3. \A d \in At(p) : hand[d] = NoRecord
    BY <1>h, <2>2 DEF IInv, Hands, HandFits, Holds
  <2> QED BY <1>f, <1>h, <2>1, <2>3 DEF Restart
<1>1. TypeOK'
  <2>1. log' \in [Partition -> Seq(Message)] /\ committed' \in [Partition -> Nat]
        /\ position' \in [Partition -> Nat]
        /\ \A t \in Partition : committed'[t] <= Len(log'[t]) /\ position'[t] <= Len(log'[t])
    BY <1>f, <1>g, <1>e, <1>h DEF IInv, TypeOK
  <2>2. owner' \in [Partition -> Process \union {Nobody}]
    BY <1>f, <1>g, <1>e, <1>h DEF IInv, TypeOK
  <2>3. member' \in [Process -> {"none", "connect", "subscribe", "joined", "left"}]
    BY <1>f, <1>g, <1>e, <1>h DEF IInv, TypeOK
  <2>4. buffer' \in [Process -> Seq(Record)]
    BY <1>f, <1>g, <1>e, <1>h DEF IInv, TypeOK
  <2>5. closing' \in [Process -> {"open", "draining", "flushing", "closed"}]
    BY <1>f, <1>g, <1>e, <1>h DEF IInv, TypeOK
  <2>6. pc' \in [Consumer -> {"start", "loop", "asleep", "discard", "handle", "publish",
                          "commit", "returned", "crashed"}]
    BY <1>f, <1>g, <1>e, <1>h DEF IInv, TypeOK
  <2>7. hand' \in [Consumer -> Records' \union {NoRecord}]
    BY <1>f, <1>g, <1>e, <1>h DEF IInv, TypeOK
  <2>8. aborted' \in [Consumer -> BOOLEAN] /\ used' \in [{"rejects", "troubles"} -> Nat]
    BY <1>f, <1>g, <1>e, <1>h DEF IInv, TypeOK
  <2>9. acked' \subseteq Records' /\ copied' \subseteq Records'
    BY <1>f, <1>g, <1>e, <1>h DEF IInv, TypeOK
  <2>10. inFlight' \in [Process -> SUBSET Record]
    BY <1>f, <1>g, <1>e, <1>h DEF IInv, TypeOK
  <2> QED BY <1>s, <2>1, <2>2, <2>3, <2>4, <2>5, <2>6, <2>7, <2>8, <2>9,
            <2>10 DEF IInv, TypeOK
<1>2. Hands'
  BY <1>f, <1>g, <1>e, <1>h DEF IInv, TypeOK, Hands, HandFits, Holds, Content, Partit, Offset
<1>3. Registry'
  BY <1>s, <1>e, <1>f, <1>h, SetupFixed DEF IInv, Registry, Settleable, Orderly, TypeOK
<1>4. UNCHANGED <<brokerVars, buffer, hand, historyVars>>
  BY <1>f DEF brokerVars, historyVars
<1>5. used.troubles # 0
  BY <1>e DEF IInv, Calm, CalmHand
<1> QED BY <1>s, <1>f, <1>e, <1>1, <1>2, <1>3, <1>4, <1>5, Quiet

LEMMA RejectIInv ==
  ASSUME IInv, NEW c \in Consumer, Reject(c)
  PROVE  IInv'
<1>s. setup' = setup
  BY DEF Reject, Release, Goto
<1>h. /\ home \in [Consumer -> Process] /\ home' = home /\ \A x : At(x)' = At(x)
      /\ \A y \in Consumer : home[y] \in Process /\ y \in At(home[y])
      /\ \A x : \A y \in At(x) : y \in Consumer /\ home[y] = x
  BY <1>s, Deployment, SetupFixed DEF IInv
<1>f. UNCHANGED <<log, committed, owner, position, buffer, hand, acked, copied, member,
                 aborted>>
  BY DEF Reject, Release, Goto, brokerVars, historyVars, loopVars
<1>g. Records' = Records
  BY <1>f DEF Records
<1>e. /\ pc[c] = "handle" /\ pc' = [pc EXCEPT ![c] = "publish"] /\ Release(c)
      /\ used' \in [{"rejects", "troubles"} -> Nat] /\ used'.troubles = used.troubles
  BY SpendFacts DEF Reject, Goto
<1>3. /\ Registry' /\ inFlight' \in [Process -> SUBSET Record]
      /\ closing' \in [Process -> {"open", "draining", "flushing", "closed"}]
      /\ \A p \in Process : closing'[p] = "open" => closing[p] = "open"
  <2>1. pc'[c] # "handle" /\ \A d \in Consumer : pc'[d] = "handle" => pc[d] = "handle"
    BY <1>e DEF IInv, TypeOK
  <2> QED BY <1>s, <1>e, <1>f, <2>1, Released
<1>1. TypeOK'
  <2>1. log' \in [Partition -> Seq(Message)] /\ committed' \in [Partition -> Nat]
        /\ position' \in [Partition -> Nat]
        /\ \A t \in Partition : committed'[t] <= Len(log'[t]) /\ position'[t] <= Len(log'[t])
    BY <1>f, <1>g, <1>e, <1>h DEF IInv, TypeOK
  <2>2. owner' \in [Partition -> Process \union {Nobody}]
    BY <1>f, <1>g, <1>e, <1>h DEF IInv, TypeOK
  <2>3. member' \in [Process -> {"none", "connect", "subscribe", "joined", "left"}]
    BY <1>f, <1>g, <1>e, <1>h DEF IInv, TypeOK
  <2>4. buffer' \in [Process -> Seq(Record)]
    BY <1>f, <1>g, <1>e, <1>h DEF IInv, TypeOK
  <2>5. closing' \in [Process -> {"open", "draining", "flushing", "closed"}]
    BY <1>3 DEF IInv, TypeOK
  <2>6. pc' \in [Consumer -> {"start", "loop", "asleep", "discard", "handle", "publish",
                          "commit", "returned", "crashed"}]
    BY <1>f, <1>g, <1>e, <1>h DEF IInv, TypeOK
  <2>7. hand' \in [Consumer -> Records' \union {NoRecord}]
    BY <1>f, <1>g, <1>e, <1>h DEF IInv, TypeOK
  <2>8. aborted' \in [Consumer -> BOOLEAN] /\ used' \in [{"rejects", "troubles"} -> Nat]
    BY <1>f, <1>g, <1>e, <1>h DEF IInv, TypeOK
  <2>9. acked' \subseteq Records' /\ copied' \subseteq Records'
    BY <1>f, <1>g, <1>e, <1>h DEF IInv, TypeOK
  <2>10. inFlight' \in [Process -> SUBSET Record]
    BY <1>3
  <2> QED BY <1>s, <2>1, <2>2, <2>3, <2>4, <2>5, <2>6, <2>7, <2>8, <2>9,
            <2>10 DEF IInv, TypeOK
<1>2. Hands'
  BY <1>f, <1>g, <1>e, <1>h DEF IInv, TypeOK, Hands, HandFits, Holds, Content, Partit, Offset
<1>4. UNCHANGED <<brokerVars, buffer, hand, historyVars>>
  BY <1>f DEF brokerVars, historyVars
<1>5. used.troubles = 0 =>
        /\ \A y \in Consumer : pc'[y] # "crashed"
        /\ \A y \in Consumer : pc'[y] = "handle" => pc[y] = "handle"
        /\ \A x \in Process : closing'[x] = "open" => closing[x] = "open"
        /\ NobodyLeft' => NobodyLeft
  BY <1>3, <1>f, <1>e, <1>h DEF IInv, TypeOK, Calm, CalmHand, NobodyLeft
<1> QED BY <1>s, <1>f, <1>e, <1>1, <1>2, <1>3, <1>4, <1>5, Quiet

-----------------------------------------------------------------------------
(* Sending and settling                                                    *)

LEMMA StillCalm ==
  ASSUME IInv, setup' = setup, UNCHANGED <<committed, owner, position, buffer, hand>>,
         used'.troubles = used.troubles,
         used.troubles = 0 =>
           /\ \A c \in Consumer : pc'[c] # "crashed"
           /\ \A p \in Process : closing'[p] = "open" => closing[p] = "open"
  PROVE  Calm'
BY SetupFixed DEF IInv, Calm, CalmHand, CalmBuffer, Joined, Before, Partit, Offset

(* What is settled from a hand is behind everything that is still to come. *)
LEMMA SettledNow ==
  ASSUME IInv, setup' = setup, UNCHANGED <<committed, owner, position, buffer, hand, member>>,
         NEW c \in Consumer, hand[c] # NoRecord, pc'[c] # "handle",
         acked' \union copied' = acked \union copied \union {hand[c]},
         used'.troubles = used.troubles,
         \A d \in Consumer : pc'[d] = "handle" => pc[d] = "handle",
         \A p \in Process : closing'[p] = "open" => closing[p] = "open"
  PROVE  SettledIsBehind'
<1> SUFFICES ASSUME used.troubles = 0, OneLoopEach \/ NobodyLeft,
                    NEW r \in acked' \union copied'
             PROVE  Behind(r)'
  BY SetupFixed DEF SettledIsBehind, NobodyLeft
<1>1. CASE r \in acked \union copied
  <2>1. Behind(r)
    BY <1>1 DEF IInv, SettledIsBehind
  <2> QED BY <2>1, SetupFixed DEF Behind, Partit, Offset
<1>2. CASE r = hand[c]
  <2>1. CalmHand(c) /\ \A p \in Process : closing[p] = "open" => CalmBuffer(p)
    BY DEF IInv, Calm
  <2>2. Joined(r, home[c]) /\ home[c] # Nobody
    BY <1>2, <2>1, Deployment DEF CalmHand, IInv
  <2>3. \A d \in Consumer : pc'[d] = "handle" => hand[d] # r
    BY <1>2, <2>1 DEF CalmHand
  <2>4. r \in Records /\ Offset(r) \in Nat
    BY <1>2, Earlier, RecordFacts DEF IInv, TypeOK
  <2>5. ASSUME NEW p \in Process, closing'[p] = "open", NEW k \in DOMAIN buffer[p]
        PROVE  buffer[p][k] # r
    BY <1>2, <2>1, <2>4, <2>5 DEF CalmBuffer, Before
  <2> QED BY <1>2, <2>2, <2>3, <2>5, SetupFixed DEF Behind, Joined, Partit, Offset
<1> QED BY <1>1, <1>2

(* A process dies, in trouble.                                             *)
LEMMA Died ==
  ASSUME IInv, setup' = setup, NEW p \in Process, Die(p), Grown,
         UNCHANGED <<position, closing, acked>>, copied' = copied, used'.troubles # 0
  PROVE  /\ pc' \in [Consumer -> {"start", "loop", "asleep", "discard", "handle", "publish",
                                  "commit", "returned", "crashed"}]
         /\ hand' \in [Consumer -> Records' \union {NoRecord}]
         /\ buffer' \in [Process -> Seq(Record)]
         /\ member' \in [Process -> {"none", "connect", "subscribe", "joined", "left"}]
         /\ owner' \in [Partition -> Process \union {Nobody}]
         /\ inFlight' \in [Process -> SUBSET Record]
         /\ Hands' /\ Registry' /\ BufferedIsLogged'
         /\ committed' = committed => CommittedIsSettled'
         /\ HandsFollow' /\ BuffersFollow' /\ PositionsFollow'
         /\ Calm' /\ SettledIsBehind'
<1>h. /\ home \in [Consumer -> Process] /\ home' = home /\ \A x : At(x)' = At(x)
      /\ \A y \in Consumer : home[y] \in Process /\ y \in At(home[y])
      /\ \A x : \A y \in At(x) : y \in Consumer /\ home[y] = x
  BY Deployment, SetupFixed DEF IInv
<1>1. /\ \A c \in Consumer : pc'[c] = IF c \in At(p) THEN "crashed" ELSE pc[c]
      /\ \A c \in Consumer : hand'[c] = IF c \in At(p) THEN NoRecord ELSE hand[c]
      /\ \A q \in Process : buffer'[q] = IF q = p THEN <<>> ELSE buffer[q]
      /\ \A t \in Partition : owner'[t] = IF owner[t] = p THEN Nobody ELSE owner[t]
  BY DEF Die, IInv, TypeOK
<1>2. /\ pc' \in [Consumer -> {"start", "loop", "asleep", "discard", "handle", "publish",
                               "commit", "returned", "crashed"}]
      /\ buffer' \in [Process -> Seq(Record)]
      /\ member' \in [Process -> {"none", "connect", "subscribe", "joined", "left"}]
      /\ owner' \in [Partition -> Process \union {Nobody}]
  BY DEF Die, IInv, TypeOK
<1>3. hand' \in [Consumer -> Records' \union {NoRecord}]
  <2>1. \A c \in Consumer : hand[c] = NoRecord \/ hand[c] \in Records'
    BY DEF IInv, TypeOK, Grown
  <2> QED BY <2>1 DEF Die
<1>4. Hands'
  <2>1. ASSUME NEW c \in Consumer PROVE HandFits(c)'
    <3>1. CASE c \in At(p)
      BY <1>1, <3>1 DEF HandFits, Holds
    <3>2. CASE c \notin At(p)
      <4>1. HandFits(c) /\ pc'[c] = pc[c] /\ hand'[c] = hand[c]
        BY <1>1, <3>2 DEF IInv, Hands
      <4>2. hand[c] # NoRecord => hand[c] \in Records
        BY Earlier DEF IInv
      <4>3. hand[c] # NoRecord => Content(hand[c])' = Content(hand[c])
        <5> SUFFICES ASSUME hand[c] # NoRecord PROVE Content(hand[c])' = Content(hand[c])
          OBVIOUS
        <5>1. PICK r \in Records : r = hand[c]
          BY <4>2
        <5>2. Content(r)' = Content(r)
          BY DEF Grown
        <5> QED BY <4>1, <5>1, <5>2 DEF Content, Partit, Offset
      <4> QED BY <4>1, <4>3 DEF HandFits, Holds
    <3> QED BY <3>1, <3>2
  <2>2. \A c, d \in Consumer : home[c] = home[d] /\ pc'[c] = "crashed" => pc'[d] = "crashed"
    BY <1>h, <1>1 DEF IInv, Hands, At
  <2> QED BY <1>h, <2>1, <2>2 DEF Hands
<1>5. Registry' /\ inFlight' \in [Process -> SUBSET Record]
  <2>1. inFlight' = [inFlight EXCEPT ![p] = {}] /\ inFlight \in [Process -> SUBSET Record]
    BY DEF Die, IInv, TypeOK
  <2>2. inFlight'[p] = {} /\ \A q \in Process : q # p => inFlight'[q] = inFlight[q]
    BY <2>1
  <2>3. ASSUME Orderly', NEW c \in Consumer, pc'[c] = "handle" PROVE hand'[c] \in inFlight'[home[c]]
    <3>1. c \notin At(p) /\ pc[c] = "handle" /\ hand'[c] = hand[c] /\ home[c] # p
      BY <1>h, <1>1, <2>3
    <3>2. OneLoopEach
      BY <2>3, SetupFixed DEF Orderly
    <3>3. hand[c] \in inFlight[home[c]]
      BY <3>1, <3>2 DEF IInv, Registry, Orderly, Settleable
    <3> QED BY <1>h, <2>2, <3>1, <3>3
  <2> QED BY <1>h, <2>1, <2>2, <2>3 DEF IInv, Registry, Settleable
<1>6. BufferedIsLogged'
  BY <1>1 DEF IInv, BufferedIsLogged, Grown
<1>7. HandsFollow' /\ BuffersFollow' /\ PositionsFollow'
  <2>1. Gone(p)
    BY <1>h, <1>1, Deployment DEF Gone, HasNothing, IInv
  <2>2. ASSUME NEW q \in Process, q # p PROVE Kept(q)
    <3>1. \A c \in At(q) : hand'[c] = hand[c]
      BY <1>h, <1>1, <2>2
    <3>2. \A t \in Partition : owner'[t] = q => owner[t] = q
      BY <1>1, <2>2, Deployment DEF IInv
    <3> QED BY <1>1, <2>2, <3>1, <3>2 DEF Kept, StillHas
  <2> QED BY <1>2, <2>1, <2>2, StillFollows
<1>8. committed' = committed => CommittedIsSettled'
  BY StillCommitted
<1> QED BY <1>2, <1>3, <1>4, <1>5, <1>6, <1>7, <1>8, Troubled

(* The committed offset moves to a record of which all before are settled. *)
LEMMA Committing ==
  ASSUME IInv, setup' = setup, NEW c \in Consumer, pc[c] \in {"commit", "discard"},
         CommitPast(hand[c]), UNCHANGED <<log, acked, copied>>,
         used'.troubles = 0 => used.troubles = 0,
         used'.troubles = 0 => \A d \in Consumer : d # c => hand'[d] = hand[d]
  PROVE  /\ committed' \in [Partition -> Nat]
         /\ \A t \in Partition : committed'[t] <= Len(log[t])
         /\ \A t \in Partition : committed'[t] = IF t = Partit(hand[c]) THEN Offset(hand[c])
                                                                     ELSE committed[t]
         /\ CommittedIsSettled'
<1>1. PICK r \in Records : r = hand[c] /\ Settled(r)
  BY Earlier DEF IInv, Hands, HandFits, Holds, Settled
<1>2. /\ Partit(r) \in Partition /\ Offset(r) \in Nat /\ Offset(r) \in 1 .. Len(log[Partit(r)])
      /\ r = <<Partit(r), Offset(r)>> /\ r # NoRecord
  BY RecordFacts DEF IInv, TypeOK
<1>3. committed' = [committed EXCEPT ![Partit(r)] = Offset(r)]
  BY <1>1 DEF CommitPast
<1>4. /\ committed' \in [Partition -> Nat]
      /\ \A t \in Partition : committed'[t] = IF t = Partit(r) THEN Offset(r) ELSE committed[t]
  BY <1>2, <1>3 DEF IInv, TypeOK
<1>5. \A t \in Partition : committed'[t] <= Len(log[t])
  <2>1. Offset(r) <= Len(log[Partit(r)])
    BY <1>2
  <2>2. \A t \in Partition : committed[t] <= Len(log[t])
    BY DEF IInv, TypeOK
  <2> QED BY <1>4, <2>1, <2>2
<1>6. Grown /\ \A s \in Records : Settled(s) => Settled(s)'
  BY NotGrown, SettledStays DEF IInv
<1>7. CommittedIsSettled'
  <2> SUFFICES ASSUME Orderly', NEW t \in Partition, NEW i \in 1 .. committed'[t]
               PROVE  Settled(<<t, i>>)' \/ (~OneLoopEach /\ \E d \in Consumer : hand'[d] = <<t, i>>)
    BY SetupFixed DEF CommittedIsSettled
  <2>1. Orderly
    BY SetupFixed DEF Orderly
  <2>2. \A s \in Records : \A d \in Consumer :
          ~OneLoopEach /\ hand[d] = s => Settled(s)' \/ hand'[d] = s
    BY <1>1, <1>6, SetupFixed DEF Orderly
  <2>3. CASE t # Partit(r)
    <3>1. PICK s \in Records : s = <<t, i>>
      BY <1>4, <2>3, Earlier DEF IInv
    <3>2. Settled(s) \/ (~OneLoopEach /\ \E d \in Consumer : hand[d] = s)
      BY <1>4, <2>1, <2>3, <3>1 DEF IInv, CommittedIsSettled
    <3>3. Settled(s)' \/ (~OneLoopEach /\ \E d \in Consumer : hand'[d] = s)
      BY <1>6, <2>2, <3>2
    <3> QED BY <3>1, <3>3
  <2>4. CASE t = Partit(r) /\ i = Offset(r)
    <3>1. r = <<t, i>> /\ Settled(r)'
      BY <1>1, <1>2, <1>6, <2>4
    <3> QED BY <3>1
  <2>5. CASE t = Partit(r) /\ i # Offset(r)
    <3>1. i \in 1 .. (Offset(r) - 1)
      BY <1>2, <1>4, <2>5
    <3>2. PICK s \in Records : s = <<Partit(r), i>>
      BY <3>1, Earlier DEF IInv
    <3>3. Settled(s) \/ InHand(home[c], s)
      BY <1>1, <1>2, <2>1, <3>1, <3>2 DEF IInv, HandsFollow
    <3>4. CASE Settled(s)
      BY <1>6, <2>5, <3>2, <3>4
    <3>5. CASE InHand(home[c], s)
      <4>1. PICK d \in Consumer : home[d] = home[c] /\ hand[d] = s
        BY <3>5, Deployment DEF InHand, IInv
      <4>2. s # r
        BY <1>2, <2>5, <3>2
      <4>3. ~OneLoopEach
        BY <1>1, <4>1, <4>2 DEF OneLoopEach
      <4>4. Settled(s)' \/ hand'[d] = s
        BY <2>2, <4>1, <4>3
      <4> QED BY <2>5, <3>2, <4>3, <4>4
    <3> QED BY <3>3, <3>4, <3>5
  <2> QED BY <2>3, <2>4, <2>5
<1> QED BY <1>1, <1>4, <1>5, <1>7

LEMMA SendIInv ==
  ASSUME IInv, NEW m \in Message, Send(m)
  PROVE  IInv'
<1>s. setup' = setup
  BY DEF Send
<1>h. /\ home \in [Consumer -> Process] /\ home' = home /\ \A x : At(x)' = At(x)
      /\ \A y \in Consumer : home[y] \in Process /\ y \in At(home[y])
      /\ \A x : \A y \in At(x) : y \in Consumer /\ home[y] = x
  BY <1>s, Deployment, SetupFixed DEF IInv
<1>f. UNCHANGED <<committed, owner, position, member, buffer, closing, pc, hand, aborted,
                  used, acked, copied, inFlight>>
  BY DEF Send, loopVars, historyVars
<1>0. PICK u \in Partition : Append1(u, m)
  BY DEF Send
<1>g. Grown /\ \E r \in Records' : /\ r \notin Records /\ Content(r)' = m
                                  /\ \A s \in Records' : s \in Records \/ s = r
  BY <1>0, Appended DEF IInv
<1>1. TypeOK'
  <2>1. log' \in [Partition -> Seq(Message)] /\ committed' \in [Partition -> Nat]
        /\ position' \in [Partition -> Nat]
        /\ \A t \in Partition : committed'[t] <= Len(log'[t]) /\ position'[t] <= Len(log'[t])
    BY <1>f, <1>g, StillInLog DEF IInv
  <2>2. owner' \in [Partition -> Process \union {Nobody}]
    BY <1>f, <1>g, <1>h DEF IInv, TypeOK
  <2>3. member' \in [Process -> {"none", "connect", "subscribe", "joined", "left"}]
    BY <1>f, <1>g, <1>h DEF IInv, TypeOK
  <2>4. buffer' \in [Process -> Seq(Record)]
    BY <1>f, <1>g, <1>h DEF IInv, TypeOK
  <2>5. closing' \in [Process -> {"open", "draining", "flushing", "closed"}]
    BY <1>f, <1>g, <1>h DEF IInv, TypeOK
  <2>6. pc' \in [Consumer -> {"start", "loop", "asleep", "discard", "handle", "publish",
                          "commit", "returned", "crashed"}]
    BY <1>f, <1>g, <1>h DEF IInv, TypeOK
  <2>7. hand' \in [Consumer -> Records' \union {NoRecord}]
    BY <1>f, <1>g DEF IInv, TypeOK, Grown
  <2>8. aborted' \in [Consumer -> BOOLEAN] /\ used' \in [{"rejects", "troubles"} -> Nat]
    BY <1>f, <1>g, <1>h DEF IInv, TypeOK
  <2>9. acked' \subseteq Records' /\ copied' \subseteq Records'
    BY <1>f, <1>g DEF IInv, TypeOK, Grown
  <2>10. inFlight' \in [Process -> SUBSET Record]
    BY <1>f, <1>g, <1>h DEF IInv, TypeOK
  <2> QED BY <1>s, <2>1, <2>2, <2>3, <2>4, <2>5, <2>6, <2>7, <2>8, <2>9,
            <2>10 DEF IInv, TypeOK
<1>2. Hands' /\ Registry' /\ BufferedIsLogged'
  <2>0. Registry'
    BY <1>f, <1>s, StillRegistered
  <2>1. ASSUME NEW c \in Consumer PROVE HandFits(c)'
    <3>1. HandFits(c) /\ pc'[c] = pc[c] /\ hand'[c] = hand[c]
      BY <1>f DEF IInv, Hands
    <3>2. CASE hand[c] = NoRecord
      BY <3>1, <3>2 DEF HandFits, Holds
    <3>3. CASE hand[c] # NoRecord
      <4>1. PICK r \in Records : r = hand[c]
        BY <3>3, Earlier DEF IInv
      <4>2. Content(r)' = Content(r)
        BY <1>g DEF Grown
      <4>3. Content(hand[c])' = Content(hand[c])
        BY <3>1, <4>1, <4>2 DEF Content, Partit, Offset
      <4> QED BY <1>f, <3>1, <4>3 DEF HandFits
    <3> QED BY <3>2, <3>3
  <2> QED BY <1>f, <1>g, <1>h, <2>0, <2>1 DEF IInv, Hands, BufferedIsLogged, Grown
<1>3. Traced'
  BY <1>f, <1>g, <1>s, StillTraced DEF IInv, TypeOK
<1>4. CommittedIsSettled'
  BY <1>f, <1>g, <1>s, StillCommitted
<1>5. HandsFollow' /\ BuffersFollow' /\ PositionsFollow'
  <2>1. owner' \in [Partition -> Process \union {Nobody}] /\ \A p \in Process : Kept(p)
    BY <1>f DEF IInv, TypeOK, Kept, StillHas
  <2> QED BY <1>f, <1>g, <1>s, <2>1, StillFollows
<1>6. Calm'
  BY <1>f, <1>s, StillCalm DEF IInv, Calm, CalmHand
<1>7. SettledIsBehind'
  BY <1>f, <1>s, SetupFixed DEF IInv, SettledIsBehind, Behind, Partit, Offset, NobodyLeft
<1> QED BY <1>1, <1>2, <1>3, <1>4, <1>5, <1>6, <1>7 DEF IInv

LEMMA AckIInv ==
  ASSUME IInv, NEW c \in Consumer, Ack(c)
  PROVE  IInv'
<1>s. setup' = setup
  BY DEF Ack
<1>h. /\ home \in [Consumer -> Process] /\ home' = home /\ \A x : At(x)' = At(x)
      /\ \A y \in Consumer : home[y] \in Process /\ y \in At(home[y])
      /\ \A x : \A y \in At(x) : y \in Consumer /\ home[y] = x
  BY <1>s, Deployment, SetupFixed DEF IInv
<1>f. UNCHANGED <<log, committed, owner, position, member, buffer, hand, aborted, used, copied>>
  BY DEF Ack, brokerVars
<1>e. /\ pc[c] = "handle" /\ pc' = [pc EXCEPT ![c] = "commit"] /\ Release(c)
      /\ acked' = acked \union {hand[c]}
  BY DEF Ack, Goto
<1>3. /\ Registry' /\ inFlight' \in [Process -> SUBSET Record]
      /\ closing' \in [Process -> {"open", "draining", "flushing", "closed"}]
      /\ \A p \in Process : closing'[p] = "open" => closing[p] = "open"
  <2>1. pc'[c] # "handle" /\ \A d \in Consumer : pc'[d] = "handle" => pc[d] = "handle"
    BY <1>e DEF IInv, TypeOK
  <2> QED BY <1>s, <1>e, <1>f, <2>1, Released
<1>g. Grown /\ Records' = Records
  BY <1>f, NotGrown DEF IInv
<1>r. hand[c] \in Records /\ hand[c] # NoRecord
  BY <1>e, Earlier DEF IInv, Hands, HandFits, Holds
<1>1. TypeOK'
  <2>1. log' \in [Partition -> Seq(Message)] /\ committed' \in [Partition -> Nat]
        /\ position' \in [Partition -> Nat]
        /\ \A t \in Partition : committed'[t] <= Len(log'[t]) /\ position'[t] <= Len(log'[t])
    BY <1>f, <1>g, <1>e, <1>h, <1>r DEF IInv, TypeOK
  <2>2. owner' \in [Partition -> Process \union {Nobody}]
    BY <1>f, <1>g, <1>e, <1>h, <1>r DEF IInv, TypeOK
  <2>3. member' \in [Process -> {"none", "connect", "subscribe", "joined", "left"}]
    BY <1>f, <1>g, <1>e, <1>h, <1>r DEF IInv, TypeOK
  <2>4. buffer' \in [Process -> Seq(Record)]
    BY <1>f, <1>g, <1>e, <1>h, <1>r DEF IInv, TypeOK
  <2>5. closing' \in [Process -> {"open", "draining", "flushing", "closed"}]
    BY <1>3
  <2>6. pc' \in [Consumer -> {"start", "loop", "asleep", "discard", "handle", "publish",
                          "commit", "returned", "crashed"}]
    BY <1>f, <1>g, <1>e, <1>h, <1>r DEF IInv, TypeOK
  <2>7. hand' \in [Consumer -> Records' \union {NoRecord}]
    BY <1>f, <1>g, <1>e, <1>h, <1>r DEF IInv, TypeOK
  <2>8. aborted' \in [Consumer -> BOOLEAN] /\ used' \in [{"rejects", "troubles"} -> Nat]
    BY <1>f, <1>g, <1>e, <1>h, <1>r DEF IInv, TypeOK
  <2>9. acked' \subseteq Records' /\ copied' \subseteq Records'
    BY <1>f, <1>g, <1>e, <1>h, <1>r DEF IInv, TypeOK
  <2>10. inFlight' \in [Process -> SUBSET Record]
    BY <1>3
  <2> QED BY <1>s, <2>1, <2>2, <2>3, <2>4, <2>5, <2>6, <2>7, <2>8, <2>9,
            <2>10 DEF IInv, TypeOK
<1>2. Hands'
  BY <1>f, <1>g, <1>e, <1>h DEF IInv, TypeOK, Hands, HandFits, Holds, Content, Partit, Offset
<1>4. BufferedIsLogged' /\ Traced'
  BY <1>s, <1>e, <1>f, <1>g, StillTraced DEF IInv, BufferedIsLogged
<1>5. CommittedIsSettled'
  BY <1>e, <1>f, <1>g, <1>s, StillCommitted
<1>6. HandsFollow' /\ BuffersFollow' /\ PositionsFollow'
  <2>1. owner' \in [Partition -> Process \union {Nobody}] /\ \A p \in Process : Kept(p)
    BY <1>f DEF IInv, TypeOK, Kept, StillHas
  <2> QED BY <1>e, <1>f, <1>g, <1>s, <2>1, StillFollows
<1>8. Calm' /\ SettledIsBehind'
  <2>1. \A d \in Consumer : /\ pc'[d] = "handle" => pc[d] = "handle"
                            /\ pc'[d] = "crashed" => pc[d] = "crashed"
    BY <1>e DEF IInv, TypeOK
  <2>2. Calm'
    BY <1>f, <1>s, <1>3, <2>1, StillCalm DEF IInv, Calm, CalmHand
  <2>3. pc'[c] # "handle" /\ acked' \union copied' = acked \union copied \union {hand[c]}
    BY <1>e, <1>f DEF IInv, TypeOK
  <2>4. SettledIsBehind'
    BY <1>f, <1>s, <1>r, <1>3, <2>1, <2>3, SettledNow
  <2> QED BY <2>2, <2>4
<1> QED BY <1>1, <1>2, <1>3, <1>4, <1>5, <1>6, <1>8 DEF IInv

(* The second settlement of a record: two loops of an instance had it, so  *)
(* there was trouble, and nothing is claimed but that it leaves no trace.  *)
LEMMA SettleAgainIInv ==
  ASSUME IInv, NEW c \in Consumer, SettleAgain(c)
  PROVE  IInv'
<1>s. setup' = setup
  BY DEF SettleAgain
<1>h. home \in [Consumer -> Process] /\ home' = home /\ OneLoopEach' = OneLoopEach
  BY <1>s, Deployment, SetupFixed DEF IInv
<1>f. UNCHANGED <<log, committed, owner, position, member, buffer, inFlight, closing, aborted,
                 used, acked, copied>>
  BY DEF SettleAgain, brokerVars, historyVars
<1>g. Grown /\ Records' = Records
  BY <1>f, NotGrown DEF IInv
<1>e. /\ pc[c] = "handle" /\ pc' = [pc EXCEPT ![c] = "loop"]
      /\ hand' = [hand EXCEPT ![c] = NoRecord]
      /\ pc'[c] = "loop" /\ hand'[c] = NoRecord
      /\ \A d \in Consumer : d # c => pc'[d] = pc[d] /\ hand'[d] = hand[d]
  BY DEF SettleAgain, Hold, Goto, IInv, TypeOK
<1>o. ~Orderly /\ ~Orderly' /\ used'.troubles # 0
  BY <1>e, <1>f, <1>h DEF SettleAgain, IInv, Registry, Orderly
<1>1. TypeOK'
  <2>1. /\ log' \in [Partition -> Seq(Message)] /\ committed' \in [Partition -> Nat]
        /\ position' \in [Partition -> Nat]
        /\ \A t \in Partition : committed'[t] <= Len(log'[t]) /\ position'[t] <= Len(log'[t])
        /\ owner' \in [Partition -> Process \union {Nobody}]
        /\ member' \in [Process -> {"none", "connect", "subscribe", "joined", "left"}]
        /\ buffer' \in [Process -> Seq(Record)] /\ inFlight' \in [Process -> SUBSET Record]
    BY <1>f DEF IInv, TypeOK
  <2>2. /\ closing' \in [Process -> {"open", "draining", "flushing", "closed"}]
        /\ aborted' \in [Consumer -> BOOLEAN] /\ used' \in [{"rejects", "troubles"} -> Nat]
        /\ acked' \subseteq Records' /\ copied' \subseteq Records'
    BY <1>f, <1>g DEF IInv, TypeOK
  <2>3. /\ pc' \in [Consumer -> {"start", "loop", "asleep", "discard", "handle", "publish",
                                 "commit", "returned", "crashed"}]
        /\ hand' \in [Consumer -> Records' \union {NoRecord}]
    BY <1>e, <1>g DEF IInv, TypeOK
  <2> QED BY <1>s, <2>1, <2>2, <2>3 DEF IInv, TypeOK
<1>2. Hands'
  <2>1. HandFits(c)'
    BY <1>e DEF HandFits, Holds
  <2>2. ASSUME NEW d \in Consumer, d # c PROVE HandFits(d)'
    <3>1. HandFits(d)
      BY DEF IInv, Hands
    <3> QED BY <1>e, <1>f, <2>2, <3>1 DEF HandFits, Holds, Content, Partit, Offset
  <2>3. \A x, y \in Consumer : home[x] = home[y] /\ pc'[x] = "crashed" => pc'[y] = "crashed"
    BY <1>e DEF IInv, Hands
  <2> QED BY <1>h, <2>1, <2>2, <2>3 DEF Hands
<1>3. Registry'
  BY <1>f, <1>o DEF IInv, Registry
<1>4. BufferedIsLogged' /\ Traced'
  BY <1>s, <1>f, <1>g, StillTraced DEF IInv, BufferedIsLogged
<1>5. CommittedIsSettled' /\ HandsFollow' /\ BuffersFollow' /\ PositionsFollow'
  BY <1>o DEF CommittedIsSettled, HandsFollow, BuffersFollow, PositionsFollow
<1> QED BY <1>1, <1>2, <1>3, <1>4, <1>5, <1>o, Troubled DEF IInv

LEMMA StartFailsIInv ==
  ASSUME IInv, NEW p \in Process, StartFails(p)
  PROVE  IInv'
<1>s. setup' = setup
  BY DEF StartFails
<1>h. /\ home \in [Consumer -> Process] /\ home' = home /\ \A x : At(x)' = At(x)
      /\ \A y \in Consumer : home[y] \in Process /\ y \in At(home[y])
      /\ \A x : \A y \in At(x) : y \in Consumer /\ home[y] = x
  BY <1>s, Deployment, SetupFixed DEF IInv
<1>f. UNCHANGED <<log, committed, position, closing, aborted, acked, copied>> /\ Die(p)
  BY DEF StartFails, historyVars
<1>g. Grown /\ Records' = Records
  BY <1>f, NotGrown DEF IInv
<1>u. used' \in [{"rejects", "troubles"} -> Nat] /\ used'.troubles # 0
  BY SpendFacts DEF StartFails
<1>d. /\ pc' \in [Consumer -> {"start", "loop", "asleep", "discard", "handle", "publish",
                               "commit", "returned", "crashed"}]
      /\ hand' \in [Consumer -> Records' \union {NoRecord}]
      /\ buffer' \in [Process -> Seq(Record)]
      /\ member' \in [Process -> {"none", "connect", "subscribe", "joined", "left"}]
      /\ owner' \in [Partition -> Process \union {Nobody}]
      /\ inFlight' \in [Process -> SUBSET Record]
      /\ Hands' /\ Registry' /\ BufferedIsLogged' /\ CommittedIsSettled'
      /\ HandsFollow' /\ BuffersFollow' /\ PositionsFollow'
      /\ Calm' /\ SettledIsBehind'
  BY <1>f, <1>g, <1>s, <1>u, Died
<1>1. TypeOK'
  <2>1. log' \in [Partition -> Seq(Message)] /\ committed' \in [Partition -> Nat]
        /\ position' \in [Partition -> Nat]
        /\ \A t \in Partition : committed'[t] <= Len(log'[t]) /\ position'[t] <= Len(log'[t])
    BY <1>f, <1>g, <1>u, <1>d DEF IInv, TypeOK
  <2>2. owner' \in [Partition -> Process \union {Nobody}]
    BY <1>f, <1>g, <1>u, <1>d DEF IInv, TypeOK
  <2>3. member' \in [Process -> {"none", "connect", "subscribe", "joined", "left"}]
    BY <1>f, <1>g, <1>u, <1>d DEF IInv, TypeOK
  <2>4. buffer' \in [Process -> Seq(Record)]
    BY <1>f, <1>g, <1>u, <1>d DEF IInv, TypeOK
  <2>5. closing' \in [Process -> {"open", "draining", "flushing", "closed"}]
    BY <1>f, <1>g, <1>u, <1>d DEF IInv, TypeOK
  <2>6. pc' \in [Consumer -> {"start", "loop", "asleep", "discard", "handle", "publish",
                          "commit", "returned", "crashed"}]
    BY <1>f, <1>g, <1>u, <1>d DEF IInv, TypeOK
  <2>7. hand' \in [Consumer -> Records' \union {NoRecord}]
    BY <1>f, <1>g, <1>u, <1>d DEF IInv, TypeOK
  <2>8. aborted' \in [Consumer -> BOOLEAN] /\ used' \in [{"rejects", "troubles"} -> Nat]
    BY <1>f, <1>g, <1>u, <1>d DEF IInv, TypeOK
  <2>9. acked' \subseteq Records' /\ copied' \subseteq Records'
    BY <1>f, <1>g, <1>u, <1>d DEF IInv, TypeOK
  <2>10. inFlight' \in [Process -> SUBSET Record]
    BY <1>f, <1>g, <1>u, <1>d DEF IInv, TypeOK
  <2> QED BY <1>s, <2>1, <2>2, <2>3, <2>4, <2>5, <2>6, <2>7, <2>8, <2>9,
            <2>10 DEF IInv, TypeOK
<1>2. Traced'
  BY <1>f, <1>g, <1>s, StillTraced
<1> QED BY <1>d, <1>1, <1>2 DEF IInv

LEMMA CrashIInv ==
  ASSUME IInv, NEW p \in Process, Crash(p)
  PROVE  IInv'
<1>s. setup' = setup
  BY DEF Crash
<1>h. /\ home \in [Consumer -> Process] /\ home' = home /\ \A x : At(x)' = At(x)
      /\ \A y \in Consumer : home[y] \in Process /\ y \in At(home[y])
      /\ \A x : \A y \in At(x) : y \in Consumer /\ home[y] = x
  BY <1>s, Deployment, SetupFixed DEF IInv
<1>f. UNCHANGED <<log, committed, position, closing, aborted, acked, copied>> /\ Die(p)
  BY DEF Crash, historyVars
<1>g. Grown /\ Records' = Records
  BY <1>f, NotGrown DEF IInv
<1>u. used' \in [{"rejects", "troubles"} -> Nat] /\ used'.troubles # 0
  BY SpendFacts DEF Crash
<1>d. /\ pc' \in [Consumer -> {"start", "loop", "asleep", "discard", "handle", "publish",
                               "commit", "returned", "crashed"}]
      /\ hand' \in [Consumer -> Records' \union {NoRecord}]
      /\ buffer' \in [Process -> Seq(Record)]
      /\ member' \in [Process -> {"none", "connect", "subscribe", "joined", "left"}]
      /\ owner' \in [Partition -> Process \union {Nobody}]
      /\ inFlight' \in [Process -> SUBSET Record]
      /\ Hands' /\ Registry' /\ BufferedIsLogged' /\ CommittedIsSettled'
      /\ HandsFollow' /\ BuffersFollow' /\ PositionsFollow'
      /\ Calm' /\ SettledIsBehind'
  BY <1>f, <1>g, <1>s, <1>u, Died
<1>1. TypeOK'
  <2>1. log' \in [Partition -> Seq(Message)] /\ committed' \in [Partition -> Nat]
        /\ position' \in [Partition -> Nat]
        /\ \A t \in Partition : committed'[t] <= Len(log'[t]) /\ position'[t] <= Len(log'[t])
    BY <1>f, <1>g, <1>u, <1>d DEF IInv, TypeOK
  <2>2. owner' \in [Partition -> Process \union {Nobody}]
    BY <1>f, <1>g, <1>u, <1>d DEF IInv, TypeOK
  <2>3. member' \in [Process -> {"none", "connect", "subscribe", "joined", "left"}]
    BY <1>f, <1>g, <1>u, <1>d DEF IInv, TypeOK
  <2>4. buffer' \in [Process -> Seq(Record)]
    BY <1>f, <1>g, <1>u, <1>d DEF IInv, TypeOK
  <2>5. closing' \in [Process -> {"open", "draining", "flushing", "closed"}]
    BY <1>f, <1>g, <1>u, <1>d DEF IInv, TypeOK
  <2>6. pc' \in [Consumer -> {"start", "loop", "asleep", "discard", "handle", "publish",
                          "commit", "returned", "crashed"}]
    BY <1>f, <1>g, <1>u, <1>d DEF IInv, TypeOK
  <2>7. hand' \in [Consumer -> Records' \union {NoRecord}]
    BY <1>f, <1>g, <1>u, <1>d DEF IInv, TypeOK
  <2>8. aborted' \in [Consumer -> BOOLEAN] /\ used' \in [{"rejects", "troubles"} -> Nat]
    BY <1>f, <1>g, <1>u, <1>d DEF IInv, TypeOK
  <2>9. acked' \subseteq Records' /\ copied' \subseteq Records'
    BY <1>f, <1>g, <1>u, <1>d DEF IInv, TypeOK
  <2>10. inFlight' \in [Process -> SUBSET Record]
    BY <1>f, <1>g, <1>u, <1>d DEF IInv, TypeOK
  <2> QED BY <1>s, <2>1, <2>2, <2>3, <2>4, <2>5, <2>6, <2>7, <2>8, <2>9,
            <2>10 DEF IInv, TypeOK
<1>2. Traced'
  BY <1>f, <1>g, <1>s, StillTraced
<1> QED BY <1>d, <1>1, <1>2 DEF IInv

LEMMA PublishedIInv ==
  ASSUME IInv, NEW c \in Consumer, pc[c] = "publish", NEW u \in Partition,
         Append1(u, Content(hand[c])), copied' = copied \union {hand[c]}, Goto(c, "commit"),
         UNCHANGED <<setup, committed, owner, position, member, buffer, inFlight,
                     closing, hand, aborted, used, acked>>
  PROVE  IInv'
<1>s. setup' = setup
  OBVIOUS
<1>h. /\ home \in [Consumer -> Process] /\ home' = home /\ \A x : At(x)' = At(x)
      /\ \A y \in Consumer : home[y] \in Process /\ y \in At(home[y])
      /\ \A x : \A y \in At(x) : y \in Consumer /\ home[y] = x
  BY <1>s, Deployment, SetupFixed DEF IInv
<1>f. UNCHANGED <<committed, owner, position, member, buffer, closing, hand, aborted, used,
                 acked, inFlight>>
  OBVIOUS
<1>e. pc[c] = "publish" /\ pc' = [pc EXCEPT ![c] = "commit"] /\ copied' = copied \union {hand[c]}
  BY DEF Goto
<1>r. hand[c] \in Records /\ hand[c] # NoRecord /\ Content(hand[c]) \in Message
  BY <1>e, Earlier, RecordFacts DEF IInv, TypeOK, Hands, HandFits, Holds
<1>m. PICK m \in Message : m = Content(hand[c])
  BY <1>r
<1>g. Grown /\ \E r \in Records' : /\ r \notin Records /\ Content(r)' = m
                                  /\ \A s \in Records' : s \in Records \/ s = r
  <2>1. Append1(u, m)
    BY <1>m
  <2> QED BY <2>1, Appended DEF IInv
<1>i. hand[c] \in Records' /\ Content(hand[c])' = m
  <2>1. PICK s \in Records : s = hand[c]
    BY <1>r
  <2>2. Content(s)' = Content(s) /\ s \in Records'
    BY <1>g DEF Grown
  <2> QED BY <1>f, <1>m, <2>1, <2>2 DEF Content, Partit, Offset
<1>1. TypeOK'
  <2>1. log' \in [Partition -> Seq(Message)] /\ committed' \in [Partition -> Nat]
        /\ position' \in [Partition -> Nat]
        /\ \A t \in Partition : committed'[t] <= Len(log'[t]) /\ position'[t] <= Len(log'[t])
    BY <1>f, <1>g, StillInLog DEF IInv
  <2>2. owner' \in [Partition -> Process \union {Nobody}]
    BY <1>f, <1>e, <1>g, <1>h DEF IInv, TypeOK
  <2>3. member' \in [Process -> {"none", "connect", "subscribe", "joined", "left"}]
    BY <1>f, <1>e, <1>g, <1>h DEF IInv, TypeOK
  <2>4. buffer' \in [Process -> Seq(Record)]
    BY <1>f, <1>e, <1>g, <1>h DEF IInv, TypeOK
  <2>5. closing' \in [Process -> {"open", "draining", "flushing", "closed"}]
    BY <1>f, <1>e, <1>g, <1>h DEF IInv, TypeOK
  <2>6. pc' \in [Consumer -> {"start", "loop", "asleep", "discard", "handle", "publish",
                          "commit", "returned", "crashed"}]
    BY <1>f, <1>e, <1>g, <1>h DEF IInv, TypeOK
  <2>7. hand' \in [Consumer -> Records' \union {NoRecord}]
    BY <1>f, <1>g DEF IInv, TypeOK, Grown
  <2>8. aborted' \in [Consumer -> BOOLEAN] /\ used' \in [{"rejects", "troubles"} -> Nat]
    BY <1>f, <1>e, <1>g, <1>h DEF IInv, TypeOK
  <2>9. acked' \subseteq Records' /\ copied' \subseteq Records'
    BY <1>f, <1>e, <1>g, <1>i DEF IInv, TypeOK, Grown
  <2>10. inFlight' \in [Process -> SUBSET Record]
    BY <1>f, <1>e, <1>g, <1>h DEF IInv, TypeOK
  <2> QED BY <1>s, <2>1, <2>2, <2>3, <2>4, <2>5, <2>6, <2>7, <2>8, <2>9,
            <2>10 DEF IInv, TypeOK
<1>2. Hands'
  <2>1. ASSUME NEW d \in Consumer, hand[d] # NoRecord PROVE Content(hand[d])' = Content(hand[d])
    <3>1. PICK s \in Records : s = hand[d]
      BY <2>1, Earlier DEF IInv
    <3>2. Content(s)' = Content(s)
      BY <1>g DEF Grown
    <3> QED BY <1>f, <3>1, <3>2 DEF Content, Partit, Offset
  <2>2. ASSUME NEW d \in Consumer PROVE HandFits(d)'
    <3>1. HandFits(d)
      BY DEF IInv, Hands
    <3> QED BY <1>f, <1>e, <2>1, <3>1 DEF IInv, TypeOK, HandFits, Holds
  <2>3. \A x, y \in Consumer : home[x] = home[y] /\ pc'[x] = "crashed" => pc'[y] = "crashed"
    BY <1>e DEF IInv, TypeOK, Hands
  <2> QED BY <1>h, <2>2, <2>3 DEF Hands
<1>3. Registry' /\ BufferedIsLogged'
  <2>1. \A d \in Consumer : pc'[d] = "handle" => pc[d] = "handle"
    BY <1>e DEF IInv, TypeOK
  <2>2. Registry'
    BY <1>f, <1>s, <2>1, StillRegistered
  <2> QED BY <1>f, <1>g, <2>2 DEF IInv, BufferedIsLogged, Grown
<1>4. Traced'
  <2>1. PICK r \in Records' : r \notin Records /\ Content(r)' = m /\ \A s \in Records' : s \in Records \/ s = r
    BY <1>g
  <2>2. r \notin copied'
    BY <1>e, <1>r, <2>1 DEF IInv, TypeOK
  <2>3. \A s \in copied' : s \in copied \/ \E v \in Records' : v \notin copied' /\ Content(v)' = Content(s)
    BY <1>e, <1>m, <2>1, <2>2
  <2> QED BY <1>s, <1>f, <1>g, <2>1, <2>2, <2>3, StillTraced
<1>5. CommittedIsSettled'
  BY <1>e, <1>f, <1>g, <1>s, StillCommitted
<1>6. HandsFollow' /\ BuffersFollow' /\ PositionsFollow'
  <2>1. owner' \in [Partition -> Process \union {Nobody}] /\ \A p \in Process : Kept(p)
    BY <1>f DEF IInv, TypeOK, Kept, StillHas
  <2> QED BY <1>e, <1>f, <1>g, <1>s, <2>1, StillFollows
<1>7. Calm' /\ SettledIsBehind'
  <2>1. \A d \in Consumer : /\ pc'[d] = "handle" => pc[d] = "handle"
                            /\ pc'[d] = "crashed" => pc[d] = "crashed"
    BY <1>e DEF IInv, TypeOK
  <2>2. Calm'
    BY <1>f, <1>s, <2>1, StillCalm DEF IInv, Calm, CalmHand
  <2>3. pc'[c] # "handle" /\ acked' \union copied' = acked \union copied \union {hand[c]}
    BY <1>e, <1>f DEF IInv, TypeOK
  <2>4. SettledIsBehind'
    BY <1>f, <1>s, <1>r, <2>1, <2>3, SettledNow
  <2> QED BY <2>2, <2>4
<1> QED BY <1>1, <1>2, <1>3, <1>4, <1>5, <1>6, <1>7 DEF IInv

LEMMA PublishFailsIInv ==
  ASSUME IInv, NEW c \in Consumer, pc[c] = "publish", Spend("troubles", setup.maxTroubles),
         UNCHANGED log \/ \E t \in Partition : Append1(t, Content(hand[c])), Die(home[c]),
         UNCHANGED <<setup, committed, position, closing, aborted, acked, copied>>
  PROVE  IInv'
<1>s. setup' = setup
  OBVIOUS
<1>h. /\ home \in [Consumer -> Process] /\ home' = home /\ \A x : At(x)' = At(x)
      /\ \A y \in Consumer : home[y] \in Process /\ y \in At(home[y])
      /\ \A x : \A y \in At(x) : y \in Consumer /\ home[y] = x
  BY <1>s, Deployment, SetupFixed DEF IInv
<1>f. UNCHANGED <<committed, position, closing, aborted, acked, copied>>
  OBVIOUS
<1>g. Grown
  <2>1. hand[c] \in Records /\ Content(hand[c]) \in Message
    BY Earlier, RecordFacts DEF IInv, TypeOK, Hands, HandFits, Holds
  <2> QED BY <2>1, NotGrown, Appended DEF IInv
<1>u. used' \in [{"rejects", "troubles"} -> Nat] /\ used'.troubles # 0
  BY SpendFacts
<1>d. /\ pc' \in [Consumer -> {"start", "loop", "asleep", "discard", "handle", "publish",
                               "commit", "returned", "crashed"}]
      /\ hand' \in [Consumer -> Records' \union {NoRecord}]
      /\ buffer' \in [Process -> Seq(Record)]
      /\ member' \in [Process -> {"none", "connect", "subscribe", "joined", "left"}]
      /\ owner' \in [Partition -> Process \union {Nobody}]
      /\ inFlight' \in [Process -> SUBSET Record]
      /\ Hands' /\ Registry' /\ BufferedIsLogged'
      /\ committed' = committed => CommittedIsSettled'
      /\ HandsFollow' /\ BuffersFollow' /\ PositionsFollow'
      /\ Calm' /\ SettledIsBehind'
  <2>1. PICK p \in Process : p = home[c] /\ Die(p)
    BY <1>h
  <2> QED BY <1>f, <1>g, <1>s, <1>u, <2>1, Died
<1>1. TypeOK'
  <2>1. log' \in [Partition -> Seq(Message)] /\ committed' \in [Partition -> Nat]
        /\ position' \in [Partition -> Nat]
        /\ \A t \in Partition : committed'[t] <= Len(log'[t]) /\ position'[t] <= Len(log'[t])
    BY <1>f, <1>g, StillInLog DEF IInv
  <2>2. owner' \in [Partition -> Process \union {Nobody}]
    BY <1>f, <1>u, <1>d DEF IInv, TypeOK
  <2>3. member' \in [Process -> {"none", "connect", "subscribe", "joined", "left"}]
    BY <1>f, <1>u, <1>d DEF IInv, TypeOK
  <2>4. buffer' \in [Process -> Seq(Record)]
    BY <1>f, <1>u, <1>d DEF IInv, TypeOK
  <2>5. closing' \in [Process -> {"open", "draining", "flushing", "closed"}]
    BY <1>f, <1>u, <1>d DEF IInv, TypeOK
  <2>6. pc' \in [Consumer -> {"start", "loop", "asleep", "discard", "handle", "publish",
                          "commit", "returned", "crashed"}]
    BY <1>f, <1>u, <1>d DEF IInv, TypeOK
  <2>7. hand' \in [Consumer -> Records' \union {NoRecord}]
    BY <1>f, <1>u, <1>d DEF IInv, TypeOK
  <2>8. aborted' \in [Consumer -> BOOLEAN] /\ used' \in [{"rejects", "troubles"} -> Nat]
    BY <1>f, <1>u, <1>d DEF IInv, TypeOK
  <2>9. acked' \subseteq Records' /\ copied' \subseteq Records'
    BY <1>f, <1>g DEF IInv, TypeOK, Grown
  <2>10. inFlight' \in [Process -> SUBSET Record]
    BY <1>f, <1>u, <1>d DEF IInv, TypeOK
  <2> QED BY <1>s, <2>1, <2>2, <2>3, <2>4, <2>5, <2>6, <2>7, <2>8, <2>9,
            <2>10 DEF IInv, TypeOK
<1>2. Traced'
  BY <1>f, <1>g, <1>s, StillTraced DEF IInv, TypeOK
<1> QED BY <1>f, <1>d, <1>1, <1>2 DEF IInv

LEMMA CommittedIInv ==
  ASSUME IInv, NEW c \in Consumer, pc[c] \in {"commit", "discard"}, CommitPast(hand[c]),
         Goto(c, "loop"), hand' = [hand EXCEPT ![c] = NoRecord],
         UNCHANGED <<setup, log, owner, position, member, buffer, inFlight, closing, aborted, used,
                     acked, copied>>
  PROVE  IInv'
<1>s. setup' = setup
  OBVIOUS
<1>h. /\ home \in [Consumer -> Process] /\ home' = home /\ \A x : At(x)' = At(x)
      /\ \A y \in Consumer : home[y] \in Process /\ y \in At(home[y])
      /\ \A x : \A y \in At(x) : y \in Consumer /\ home[y] = x
  BY <1>s, Deployment, SetupFixed DEF IInv
<1>f. UNCHANGED <<log, owner, position, member, buffer, closing, aborted, used, acked, copied,
                 inFlight>>
  OBVIOUS
<1>e. /\ pc[c] \in {"commit", "discard"} /\ pc' = [pc EXCEPT ![c] = "loop"]
      /\ hand' = [hand EXCEPT ![c] = NoRecord]
      /\ pc'[c] = "loop" /\ hand'[c] = NoRecord
      /\ \A d \in Consumer : d # c => pc'[d] = pc[d] /\ hand'[d] = hand[d]
  BY DEF Goto, IInv, TypeOK
<1>g. Grown /\ Records' = Records
  BY <1>f, NotGrown DEF IInv
<1>r. PICK r \in Records : /\ r = hand[c] /\ r # NoRecord /\ Settled(r)
                          /\ Partit(r) \in Partition /\ Offset(r) \in Nat
  BY <1>e, Earlier, RecordFacts DEF IInv, TypeOK, Hands, HandFits, Holds, Settled
<1>c. /\ committed' \in [Partition -> Nat]
      /\ \A t \in Partition : committed'[t] <= Len(log[t])
      /\ \A t \in Partition : committed'[t] = IF t = Partit(r) THEN Offset(r) ELSE committed[t]
      /\ CommittedIsSettled'
  <2>1. \A d \in Consumer : d # c => hand'[d] = hand[d]
    BY <1>e
  <2> QED BY <1>f, <1>r, <1>s, <2>1, Committing
<1>1. TypeOK'
  <2>1. log' \in [Partition -> Seq(Message)] /\ committed' \in [Partition -> Nat]
        /\ position' \in [Partition -> Nat]
        /\ \A t \in Partition : committed'[t] <= Len(log'[t]) /\ position'[t] <= Len(log'[t])
    BY <1>f, <1>e, <1>g, <1>h, <1>c DEF IInv, TypeOK
  <2>2. owner' \in [Partition -> Process \union {Nobody}]
    BY <1>f, <1>e, <1>g, <1>h, <1>c DEF IInv, TypeOK
  <2>3. member' \in [Process -> {"none", "connect", "subscribe", "joined", "left"}]
    BY <1>f, <1>e, <1>g, <1>h, <1>c DEF IInv, TypeOK
  <2>4. buffer' \in [Process -> Seq(Record)]
    BY <1>f, <1>e, <1>g, <1>h, <1>c DEF IInv, TypeOK
  <2>5. closing' \in [Process -> {"open", "draining", "flushing", "closed"}]
    BY <1>f, <1>e, <1>g, <1>h, <1>c DEF IInv, TypeOK
  <2>6. pc' \in [Consumer -> {"start", "loop", "asleep", "discard", "handle", "publish",
                          "commit", "returned", "crashed"}]
    BY <1>f, <1>e, <1>g, <1>h, <1>c DEF IInv, TypeOK
  <2>7. hand' \in [Consumer -> Records' \union {NoRecord}]
    BY <1>f, <1>e, <1>g, <1>h, <1>c DEF IInv, TypeOK
  <2>8. aborted' \in [Consumer -> BOOLEAN] /\ used' \in [{"rejects", "troubles"} -> Nat]
    BY <1>f, <1>e, <1>g, <1>h, <1>c DEF IInv, TypeOK
  <2>9. acked' \subseteq Records' /\ copied' \subseteq Records'
    BY <1>f, <1>e, <1>g, <1>h, <1>c DEF IInv, TypeOK
  <2>10. inFlight' \in [Process -> SUBSET Record]
    BY <1>f, <1>e, <1>g, <1>h, <1>c DEF IInv, TypeOK
  <2> QED BY <1>s, <2>1, <2>2, <2>3, <2>4, <2>5, <2>6, <2>7, <2>8, <2>9,
            <2>10 DEF IInv, TypeOK
<1>2. Hands'
  BY <1>f, <1>g, <1>e, <1>h DEF IInv, Hands, HandFits, Holds, Content, Partit, Offset
<1>3. Registry' /\ BufferedIsLogged'
  <2>1. \A d \in Consumer : pc'[d] = "handle" => pc[d] = "handle" /\ hand'[d] = hand[d]
    BY <1>e
  <2>2. Registry'
    BY <1>f, <1>s, <2>1, StillRegistered
  <2> QED BY <1>f, <1>g, <2>2 DEF IInv, BufferedIsLogged
<1>4. Traced'
  BY <1>s, <1>f, <1>g, StillTraced
<1>5. HandsFollow' /\ BuffersFollow' /\ PositionsFollow'
  <2>1. Settled(r)'
    BY <1>f, <1>g, <1>r, SettledStays
  <2>2. owner' \in [Partition -> Process \union {Nobody}]
    BY <1>f DEF IInv, TypeOK
  <2>3. \A p \in Process : Kept(p)
    BY <1>e, <1>f, <1>h, <1>r, <2>1 DEF Kept, StillHas
  <2> QED BY <1>f, <1>g, <1>s, <2>2, <2>3, StillFollows
<1>6. ASSUME used.troubles = 0
      PROVE  /\ \A d \in Consumer : CalmHand(d)
             /\ \A p \in Process : closing[p] = "open" => CalmBuffer(p)
             /\ \A t \in Partition : owner[t] # Nobody => committed[t] <= position[t]
             /\ owner[Partit(r)] = home[c] /\ home[c] # Nobody /\ Offset(r) <= position[Partit(r)]
             /\ \A d \in Consumer : hand[d] = r => d = c
             /\ OneLoopEach => committed[Partit(r)] < Offset(r)
  BY <1>h, <1>r, <1>6, NamesAssumption DEF IInv, Calm, CalmHand, Joined
<1>7. Calm'
  <2> SUFFICES ASSUME used.troubles = 0
               PROVE  /\ \A d \in Consumer : CalmHand(d)'
                      /\ \A p \in Process : closing[p] = "open" => CalmBuffer(p)'
                      /\ \A t \in Partition : owner[t] # Nobody => committed'[t] <= position[t]
    BY <1>f DEF Calm
  <2>1. ASSUME NEW d \in Consumer PROVE CalmHand(d)'
    <3>1. CASE d = c \/ hand[d] = NoRecord
      BY <1>e, <1>6, <3>1 DEF CalmHand
    <3>2. CASE d # c /\ hand[d] # NoRecord
      <4>1. PICK s \in Records : /\ s = hand[d] /\ s # NoRecord /\ Partit(s) \in Partition
        BY <3>2, Earlier, RecordFacts DEF IInv, TypeOK
      <4>2. OneLoopEach => committed'[Partit(s)] < Offset(s)
        BY <1>c, <1>6, <3>2, <4>1 DEF CalmHand, Joined, OneLoopEach
      <4>3. Joined(s, home[d])' /\ hand'[d] = s /\ pc'[d] # "crashed"
        BY <1>e, <1>f, <1>h, <1>6, <3>2, <4>1 DEF CalmHand, Joined, Partit, Offset
      <4>4. \A b \in Consumer : hand'[b] = s => d = b
        BY <1>e, <1>6, <3>2, <4>1 DEF CalmHand
      <4> QED BY <1>h, <1>s, <4>2, <4>3, <4>4, SetupFixed DEF CalmHand, Joined, Partit, Offset
    <3> QED BY <3>1, <3>2
  <2>2. ASSUME NEW p \in Process, closing[p] = "open" PROVE CalmBuffer(p)'
    <3>1. CalmBuffer(p)
      BY <1>6, <2>2
    <3>2. ASSUME NEW k \in DOMAIN buffer[p]
          PROVE  OneLoopEach => committed'[Partit(buffer[p][k])] < Offset(buffer[p][k])
      <4>1. PICK s \in Records : s = buffer[p][k] /\ Partit(s) \in Partition /\ Offset(s) \in Nat
        BY Earlier, RecordFacts DEF IInv, TypeOK
      <4>2. (OneLoopEach => committed[Partit(s)] < Offset(s)) /\ Before(r, s)
        BY <1>r, <3>1, <4>1 DEF CalmBuffer
      <4> QED BY <1>c, <1>r, <4>1, <4>2 DEF Before
    <3> QED BY <1>e, <1>f, <1>s, <3>1, <3>2, SetupFixed DEF CalmBuffer, Joined, Before, Partit, Offset
  <2>3. \A t \in Partition : owner[t] # Nobody => committed'[t] <= position[t]
    BY <1>c, <1>6
  <2> QED BY <2>1, <2>2, <2>3
<1>8. SettledIsBehind'
  <2> SUFFICES ASSUME used.troubles = 0, OneLoopEach \/ NobodyLeft, NEW s \in acked \union copied
               PROVE  Behind(s)'
    BY <1>f, <1>s, SetupFixed DEF SettledIsBehind, NobodyLeft
  <2>1. Behind(s) /\ Partit(s) \in Partition /\ Offset(s) \in Nat
    BY RecordFacts DEF IInv, SettledIsBehind, TypeOK
  <2>2. OneLoopEach => Offset(s) <= committed'[Partit(s)] \/ \E d \in Consumer : hand'[d] = s
    <3>1. CASE Offset(s) <= committed[Partit(s)]
      <4>1. committed[Partit(s)] \in Nat
        BY <2>1 DEF IInv, TypeOK
      <4> QED BY <1>c, <1>r, <1>6, <2>1, <3>1, <4>1
    <3>2. ASSUME NEW d \in Consumer, hand[d] = s
          PROVE  Offset(s) <= committed'[Partit(s)] \/ \E b \in Consumer : hand'[b] = s
      <4>1. CASE d = c
        BY <1>c, <1>r, <2>1, <3>2, <4>1
      <4>2. CASE d # c
        BY <1>e, <3>2, <4>2
      <4> QED BY <4>1, <4>2
    <3> QED BY <2>1, <3>1, <3>2 DEF Behind
  <2>3. IF owner[Partit(s)] = Nobody THEN Offset(s) <= committed'[Partit(s)]
                                     ELSE Offset(s) <= position[Partit(s)]
    BY <1>c, <1>6, <2>1 DEF Behind
  <2>4. \A d \in Consumer : pc'[d] = "handle" => hand'[d] # s
    BY <1>e, <2>1 DEF Behind
  <2> QED BY <1>f, <1>s, <2>1, <2>2, <2>3, <2>4, SetupFixed DEF Behind, Partit, Offset
<1> QED BY <1>c, <1>1, <1>2, <1>3, <1>4, <1>5, <1>7, <1>8 DEF IInv

LEMMA CommitFailsIInv ==
  ASSUME IInv, NEW c \in Consumer, pc[c] \in {"commit", "discard"},
         \/ owner[Partit(hand[c])] # home[c] /\ UNCHANGED <<committed, used>>
         \/ /\ Spend("troubles", setup.maxTroubles)
            /\ CommitPast(hand[c]) \/ UNCHANGED committed,
         Die(home[c]), UNCHANGED <<setup, log, position, closing, aborted, acked, copied>>
  PROVE  IInv'
<1>s. setup' = setup
  OBVIOUS
<1>h. /\ home \in [Consumer -> Process] /\ home' = home /\ \A x : At(x)' = At(x)
      /\ \A y \in Consumer : home[y] \in Process /\ y \in At(home[y])
      /\ \A x : \A y \in At(x) : y \in Consumer /\ home[y] = x
  BY <1>s, Deployment, SetupFixed DEF IInv
<1>f. UNCHANGED <<log, position, closing, aborted, acked, copied>>
  OBVIOUS
<1>g. Grown /\ Records' = Records
  BY NotGrown DEF IInv
<1>r. hand[c] # NoRecord
  BY DEF IInv, Hands, HandFits, Holds
<1>u. used' \in [{"rejects", "troubles"} -> Nat] /\ used'.troubles # 0
  <2>1. CASE owner[Partit(hand[c])] # home[c] /\ UNCHANGED used
    BY <1>r, <2>1 DEF IInv, TypeOK, Calm, CalmHand, Joined
  <2>2. CASE Spend("troubles", setup.maxTroubles)
    BY <2>2, SpendFacts
  <2> QED BY <2>1, <2>2
<1>d. /\ pc' \in [Consumer -> {"start", "loop", "asleep", "discard", "handle", "publish",
                               "commit", "returned", "crashed"}]
      /\ hand' \in [Consumer -> Records' \union {NoRecord}]
      /\ buffer' \in [Process -> Seq(Record)]
      /\ member' \in [Process -> {"none", "connect", "subscribe", "joined", "left"}]
      /\ owner' \in [Partition -> Process \union {Nobody}]
      /\ inFlight' \in [Process -> SUBSET Record]
      /\ Hands' /\ Registry' /\ BufferedIsLogged'
      /\ committed' = committed => CommittedIsSettled'
      /\ HandsFollow' /\ BuffersFollow' /\ PositionsFollow'
      /\ Calm' /\ SettledIsBehind'
  <2>1. PICK p \in Process : p = home[c] /\ Die(p)
    BY <1>h
  <2> QED BY <1>f, <1>g, <1>s, <1>u, <2>1, Died
<1>c. /\ committed' \in [Partition -> Nat]
      /\ \A t \in Partition : committed'[t] <= Len(log[t])
      /\ CommittedIsSettled'
  <2>1. CASE CommitPast(hand[c])
    BY <1>f, <1>s, <1>u, <2>1, Committing
  <2>2. CASE committed' = committed
    BY <1>d, <2>2 DEF IInv, TypeOK
  <2> QED BY <2>1, <2>2
<1>1. TypeOK'
  <2>1. log' \in [Partition -> Seq(Message)] /\ committed' \in [Partition -> Nat]
        /\ position' \in [Partition -> Nat]
        /\ \A t \in Partition : committed'[t] <= Len(log'[t]) /\ position'[t] <= Len(log'[t])
    BY <1>f, <1>g, <1>u, <1>c, <1>d DEF IInv, TypeOK
  <2>2. owner' \in [Partition -> Process \union {Nobody}]
    BY <1>f, <1>g, <1>u, <1>c, <1>d DEF IInv, TypeOK
  <2>3. member' \in [Process -> {"none", "connect", "subscribe", "joined", "left"}]
    BY <1>f, <1>g, <1>u, <1>c, <1>d DEF IInv, TypeOK
  <2>4. buffer' \in [Process -> Seq(Record)]
    BY <1>f, <1>g, <1>u, <1>c, <1>d DEF IInv, TypeOK
  <2>5. closing' \in [Process -> {"open", "draining", "flushing", "closed"}]
    BY <1>f, <1>g, <1>u, <1>c, <1>d DEF IInv, TypeOK
  <2>6. pc' \in [Consumer -> {"start", "loop", "asleep", "discard", "handle", "publish",
                          "commit", "returned", "crashed"}]
    BY <1>f, <1>g, <1>u, <1>c, <1>d DEF IInv, TypeOK
  <2>7. hand' \in [Consumer -> Records' \union {NoRecord}]
    BY <1>f, <1>g, <1>u, <1>c, <1>d DEF IInv, TypeOK
  <2>8. aborted' \in [Consumer -> BOOLEAN] /\ used' \in [{"rejects", "troubles"} -> Nat]
    BY <1>f, <1>g, <1>u, <1>c, <1>d DEF IInv, TypeOK
  <2>9. acked' \subseteq Records' /\ copied' \subseteq Records'
    BY <1>f, <1>g, <1>u, <1>c, <1>d DEF IInv, TypeOK
  <2>10. inFlight' \in [Process -> SUBSET Record]
    BY <1>f, <1>g, <1>u, <1>c, <1>d DEF IInv, TypeOK
  <2> QED BY <1>s, <2>1, <2>2, <2>3, <2>4, <2>5, <2>6, <2>7, <2>8, <2>9,
            <2>10 DEF IInv, TypeOK
<1>2. Traced'
  BY <1>f, <1>g, <1>s, StillTraced
<1> QED BY <1>c, <1>d, <1>1, <1>2 DEF IInv

-----------------------------------------------------------------------------
(* Leaving the group, and being given a partition                          *)

LEMMA DisconnectIInv ==
  ASSUME IInv, NEW p \in Process, Disconnect(p)
  PROVE  IInv'
<1>s. setup' = setup
  BY DEF Disconnect
<1>h. /\ home \in [Consumer -> Process] /\ home' = home /\ \A x : At(x)' = At(x)
      /\ \A y \in Consumer : home[y] \in Process /\ y \in At(home[y])
      /\ \A x : \A y \in At(x) : y \in Consumer /\ home[y] = x
  BY <1>s, Deployment, SetupFixed DEF IInv
<1>f. UNCHANGED <<log, committed, position, buffer, pc, hand, aborted, used, acked, copied,
                 inFlight>>
  BY DEF Disconnect, loopVars, historyVars
<1>e. /\ closing[p] = "flushing" /\ closing' = [closing EXCEPT ![p] = "closed"]
      /\ \A c \in At(p) : pc[c] \notin {"discard", "publish", "commit"}
      /\ \A t \in Partition : owner'[t] = owner[t] \/ (owner[t] = p /\ owner'[t] = Nobody)
      /\ owner' \in [Partition -> Process \union {Nobody}]
      /\ \/ member' = member /\ owner' = owner
         \/ member' = [member EXCEPT ![p] = "left"]
  BY DEF Disconnect, Calling, IInv, TypeOK
<1>g. Grown /\ Records' = Records
  BY <1>f, NotGrown DEF IInv
<1>r. Orderly => \A c \in At(p) : hand[c] = NoRecord /\ pc[c] # "handle"
  BY <1>e, <1>h DEF IInv, Registry, Settleable, Hands, HandFits, Holds
<1>c. \A q \in Process : closing'[q] = "open" => closing[q] = "open" /\ q # p
  BY <1>e DEF IInv, TypeOK
<1>1. TypeOK'
  <2>1. log' \in [Partition -> Seq(Message)] /\ committed' \in [Partition -> Nat]
        /\ position' \in [Partition -> Nat]
        /\ \A t \in Partition : committed'[t] <= Len(log'[t]) /\ position'[t] <= Len(log'[t])
    BY <1>f, <1>g, <1>e DEF IInv, TypeOK
  <2>2. owner' \in [Partition -> Process \union {Nobody}]
    BY <1>f, <1>g, <1>e DEF IInv, TypeOK
  <2>3. member' \in [Process -> {"none", "connect", "subscribe", "joined", "left"}]
    BY <1>f, <1>g, <1>e DEF IInv, TypeOK
  <2>4. buffer' \in [Process -> Seq(Record)]
    BY <1>f, <1>g, <1>e DEF IInv, TypeOK
  <2>5. closing' \in [Process -> {"open", "draining", "flushing", "closed"}]
    BY <1>f, <1>g, <1>e DEF IInv, TypeOK
  <2>6. pc' \in [Consumer -> {"start", "loop", "asleep", "discard", "handle", "publish",
                          "commit", "returned", "crashed"}]
    BY <1>f, <1>g, <1>e DEF IInv, TypeOK
  <2>7. hand' \in [Consumer -> Records' \union {NoRecord}]
    BY <1>f, <1>g, <1>e DEF IInv, TypeOK
  <2>8. aborted' \in [Consumer -> BOOLEAN] /\ used' \in [{"rejects", "troubles"} -> Nat]
    BY <1>f, <1>g, <1>e DEF IInv, TypeOK
  <2>9. acked' \subseteq Records' /\ copied' \subseteq Records'
    BY <1>f, <1>g, <1>e DEF IInv, TypeOK
  <2>10. inFlight' \in [Process -> SUBSET Record]
    BY <1>f, <1>g, <1>e DEF IInv, TypeOK
  <2> QED BY <1>s, <2>1, <2>2, <2>3, <2>4, <2>5, <2>6, <2>7, <2>8, <2>9,
            <2>10 DEF IInv, TypeOK
<1>2. Hands' /\ BufferedIsLogged'
  BY <1>f, <1>g, <1>h DEF IInv, Hands, HandFits, Content, Partit, Offset, BufferedIsLogged
<1>3. Registry'
  BY <1>s, <1>e, <1>f, <1>h, SetupFixed DEF IInv, TypeOK, Registry, Settleable, Orderly
<1>4. Traced' /\ CommittedIsSettled'
  BY <1>f, <1>g, <1>s, StillTraced, StillCommitted
<1>5. HandsFollow' /\ BuffersFollow' /\ PositionsFollow'
  <2>1. \A q \in Process : Kept(q)
    BY <1>e, <1>f, NamesAssumption DEF Kept, StillHas
  <2> QED BY <1>e, <1>f, <1>g, <1>s, <2>1, StillFollows
<1>6. ASSUME used.troubles = 0, NEW c \in Consumer, hand[c] # NoRecord
      PROVE  owner[Partit(hand[c])] = home[c] /\ home[c] # p /\ home[c] # Nobody
             /\ Partit(hand[c]) \in Partition /\ owner'[Partit(hand[c])] = home[c]
  <2>1. Partit(hand[c]) \in Partition /\ CalmHand(c)
    BY <1>6, Earlier, RecordFacts DEF IInv, TypeOK, Calm
  <2>2. owner[Partit(hand[c])] = home[c]
    BY <1>6, <2>1 DEF CalmHand, Joined
  <2> QED BY <1>e, <1>h, <1>r, <1>6, <2>1, <2>2, NamesAssumption DEF Orderly
<1>7. Calm'
  <2> SUFFICES ASSUME used.troubles = 0
               PROVE  /\ \A c \in Consumer : CalmHand(c)'
                      /\ \A q \in Process : closing'[q] = "open" => CalmBuffer(q)'
                      /\ \A t \in Partition : owner'[t] # Nobody => committed[t] <= position[t]
    BY <1>f DEF Calm
  <2>1. ASSUME NEW c \in Consumer PROVE CalmHand(c)'
    <3>1. CalmHand(c)
      BY DEF IInv, Calm
    <3> QED BY <1>f, <1>h, <1>s, <1>6, <3>1, SetupFixed DEF CalmHand, Joined, Partit, Offset
  <2>2. ASSUME NEW q \in Process, closing'[q] = "open" PROVE CalmBuffer(q)'
    <3>1. CalmBuffer(q) /\ q # p /\ q # Nobody
      BY <1>c, <2>2, NamesAssumption DEF IInv, Calm
    <3>2. ASSUME NEW k \in DOMAIN buffer[q]
          PROVE  owner'[Partit(buffer[q][k])] = q
      <4>1. Partit(buffer[q][k]) \in Partition /\ owner[Partit(buffer[q][k])] = q
        BY <3>1, Earlier, RecordFacts DEF IInv, TypeOK, CalmBuffer, Joined
      <4> QED BY <1>e, <3>1, <4>1
    <3> QED BY <1>f, <1>s, <3>1, <3>2, SetupFixed DEF CalmBuffer, Joined, Before, Partit, Offset
  <2>3. \A t \in Partition : owner'[t] # Nobody => committed[t] <= position[t]
    BY <1>e DEF IInv, Calm
  <2> QED BY <2>1, <2>2, <2>3
<1>8. SettledIsBehind'
  <2> SUFFICES ASSUME used.troubles = 0, OneLoopEach \/ NobodyLeft', NEW s \in acked \union copied
               PROVE  Behind(s)'
    BY <1>f, <1>s, SetupFixed DEF SettledIsBehind
  <2>1. NobodyLeft' => NobodyLeft /\ owner' = owner
    BY <1>e DEF NobodyLeft, IInv, TypeOK
  <2>2. Behind(s) /\ Partit(s) \in Partition /\ Offset(s) \in Nat
    BY <2>1, RecordFacts DEF IInv, SettledIsBehind, TypeOK
  <2>3. IF owner'[Partit(s)] = Nobody THEN Offset(s) <= committed[Partit(s)]
                                      ELSE Offset(s) <= position[Partit(s)]
    <3>1. CASE owner'[Partit(s)] = owner[Partit(s)]
      BY <2>2, <3>1 DEF Behind
    <3>2. CASE owner[Partit(s)] = p /\ owner'[Partit(s)] = Nobody /\ p # Nobody
      <4>1. OneLoopEach
        BY <2>1, <3>2
      <4>2. ASSUME NEW c \in Consumer, hand[c] = s PROVE FALSE
        <5>1. hand[c] # NoRecord
          BY <4>2, RecordFacts DEF IInv, TypeOK
        <5> QED BY <1>6, <3>2, <4>2, <5>1
      <4> QED BY <2>2, <3>2, <4>1, <4>2 DEF Behind
    <3> QED BY <1>e, <2>2, <3>1, <3>2, NamesAssumption
  <2> QED BY <1>c, <1>f, <1>s, <2>2, <2>3, SetupFixed DEF Behind, Partit, Offset
<1> QED BY <1>1, <1>2, <1>3, <1>4, <1>5, <1>6, <1>7, <1>8 DEF IInv

LEMMA GivenIInv ==
  ASSUME IInv, NEW v \in Partition, NEW p \in Process, GiveTo(v, p),
         used' \in [{"rejects", "troubles"} -> Nat],
         \/ owner[v] = Nobody /\ used'.troubles = used.troubles
         \/ used'.troubles # 0
  PROVE  IInv'
<1>s. setup' = setup
  BY DEF GiveTo
<1>h. /\ home \in [Consumer -> Process] /\ home' = home /\ \A x : At(x)' = At(x)
      /\ \A y \in Consumer : home[y] \in Process /\ y \in At(home[y])
      /\ \A x : \A y \in At(x) : y \in Consumer /\ home[y] = x
  BY <1>s, Deployment, SetupFixed DEF IInv
<1>f. UNCHANGED <<log, committed, member, buffer, closing, pc, hand, aborted, acked, copied,
                 inFlight>>
  BY DEF GiveTo, loopVars, historyVars
<1>e. /\ owner' = [owner EXCEPT ![v] = p] /\ position' = [position EXCEPT ![v] = committed[v]]
      /\ p # Nobody
      /\ owner'[v] = p /\ position'[v] = committed[v]
      /\ \A u \in Partition : u # v => owner'[u] = owner[u] /\ position'[u] = position[u]
  BY NamesAssumption DEF GiveTo, IInv, TypeOK
<1>g. Grown /\ Records' = Records
  BY <1>f, NotGrown DEF IInv
<1>u. used'.troubles = 0 => used.troubles = 0 /\ owner[v] = Nobody
  OBVIOUS
<1>o. (Orderly' => Orderly) /\ OneLoopEach' = OneLoopEach
  BY <1>s, <1>u, SetupFixed DEF Orderly
<1>1. TypeOK'
  <2>1. log' \in [Partition -> Seq(Message)] /\ committed' \in [Partition -> Nat]
        /\ position' \in [Partition -> Nat]
        /\ \A t \in Partition : committed'[t] <= Len(log'[t]) /\ position'[t] <= Len(log'[t])
    BY <1>f, <1>g, <1>e DEF IInv, TypeOK
  <2>2. owner' \in [Partition -> Process \union {Nobody}]
    BY <1>f, <1>g, <1>e DEF IInv, TypeOK
  <2>3. member' \in [Process -> {"none", "connect", "subscribe", "joined", "left"}]
    BY <1>f, <1>g, <1>e DEF IInv, TypeOK
  <2>4. buffer' \in [Process -> Seq(Record)]
    BY <1>f, <1>g, <1>e DEF IInv, TypeOK
  <2>5. closing' \in [Process -> {"open", "draining", "flushing", "closed"}]
    BY <1>f, <1>g, <1>e DEF IInv, TypeOK
  <2>6. pc' \in [Consumer -> {"start", "loop", "asleep", "discard", "handle", "publish",
                          "commit", "returned", "crashed"}]
    BY <1>f, <1>g, <1>e DEF IInv, TypeOK
  <2>7. hand' \in [Consumer -> Records' \union {NoRecord}]
    BY <1>f, <1>g, <1>e DEF IInv, TypeOK
  <2>8. aborted' \in [Consumer -> BOOLEAN] /\ used' \in [{"rejects", "troubles"} -> Nat]
    BY <1>f, <1>g, <1>e DEF IInv, TypeOK
  <2>9. acked' \subseteq Records' /\ copied' \subseteq Records'
    BY <1>f, <1>g, <1>e DEF IInv, TypeOK
  <2>10. inFlight' \in [Process -> SUBSET Record]
    BY <1>f, <1>g, <1>e DEF IInv, TypeOK
  <2> QED BY <1>s, <2>1, <2>2, <2>3, <2>4, <2>5, <2>6, <2>7, <2>8, <2>9,
            <2>10 DEF IInv, TypeOK
<1>2. Hands' /\ BufferedIsLogged' /\ Registry'
  <2>1. Registry'
    BY <1>f, <1>s, <1>u, StillRegistered
  <2> QED BY <1>f, <1>g, <1>h, <2>1 DEF IInv, Hands, HandFits, Content, Partit, Offset,
                                       BufferedIsLogged
<1>3. Traced' /\ CommittedIsSettled'
  BY <1>f, <1>g, <1>s, <1>u, StillTraced, StillCommitted
<1>c. \A c \in Consumer : hand[c] # NoRecord /\ used'.troubles = 0 =>
        owner[Partit(hand[c])] = home[c] /\ Partit(hand[c]) # v
  BY <1>h, <1>u, NamesAssumption DEF IInv, Calm, CalmHand, Joined
<1>4. /\ HandsFollow' /\ BuffersFollow'
      /\ \A q \in Process :
           \A r \in Records : Settled(r) \/ InHand(q, r) => InHand(q, r)' \/ Settled(r)'
  <2>1. \A q \in Process : StillHas(q)
    BY <1>f DEF StillHas
  <2> QED BY <1>f, <1>g, <1>s, <1>u, <2>1, StillInOrder
<1>5. PositionsFollow'
  <2> SUFFICES ASSUME Orderly', NEW u \in Partition, owner'[u] # Nobody, NEW i \in 1 .. position'[u]
               PROVE  \/ Settled(<<u, i>>)' \/ InHand(owner[u], <<u, i>>)'
                      \/ \E j \in DOMAIN buffer'[owner'[u]] : buffer'[owner'[u]][j] = <<u, i>>
    BY DEF PositionsFollow
  <2>1. CASE u # v
    <3>1. PICK q \in Process : q = owner'[u] /\ q = owner[u]
      BY <1>e, <2>1 DEF IInv, TypeOK
    <3>2. PICK s \in Records : s = <<u, i>>
      BY <1>e, <2>1, Earlier DEF IInv
    <3>3. Settled(s) \/ InHand(q, s) \/ \E j \in DOMAIN buffer[q] : buffer[q][j] = s
      <4>1. owner[u] = q /\ owner[u] # Nobody /\ i \in 1 .. position[u]
        BY <1>e, <2>1, <3>1
      <4>2. Orderly /\ PositionsFollow
        BY <1>o DEF IInv
      <4> QED BY <3>2, <4>1, <4>2 DEF PositionsFollow
    <3>4. Settled(s)' \/ InHand(q, s)' \/ \E j \in DOMAIN buffer'[q] : buffer'[q][j] = s
      BY <1>f, <1>4, <3>3
    <3> QED BY <3>1, <3>2, <3>4 DEF InHand
  <2>2. CASE u = v
    <3>1. <<v, i>> \in Records /\ (Settled(<<v, i>>)
            \/ (~OneLoopEach /\ \E c \in Consumer : hand[c] = <<v, i>>))
      <4>1. position'[v] = committed[v]
        BY <1>e, <2>2
      <4>2. i \in 1 .. committed[v]
        BY <2>2, <4>1
      <4>3. <<v, i>> \in Records
        BY <4>2, Earlier DEF IInv
      <4> QED BY <1>o, <4>2, <4>3 DEF IInv, CommittedIsSettled
    <3>2. CASE Settled(<<v, i>>)
      BY <1>f, <2>2, <3>2 DEF Settled, Content, Partit, Offset
    <3>3. ASSUME ~OneLoopEach, NEW c \in Consumer, hand[c] = <<v, i>> PROVE FALSE
      <4>1. hand[c] # NoRecord /\ Partit(hand[c]) = v /\ used'.troubles = 0
        BY <1>o, <3>1, <3>3, RecordFacts DEF IInv, TypeOK, Orderly
      <4> QED BY <1>c, <4>1
    <3> QED BY <3>1, <3>2, <3>3
  <2> QED BY <2>1, <2>2
<1>6. Calm'
  <2> SUFFICES ASSUME used'.troubles = 0
               PROVE  /\ \A c \in Consumer : CalmHand(c)'
                      /\ \A q \in Process : closing[q] = "open" => CalmBuffer(q)'
                      /\ \A u \in Partition : owner'[u] # Nobody => committed[u] <= position'[u]
    BY <1>f DEF Calm
  <2>1. ASSUME NEW c \in Consumer PROVE CalmHand(c)'
    <3>1. CalmHand(c)
      BY <1>u DEF IInv, Calm
    <3>2. hand[c] # NoRecord => Partit(hand[c]) \in Partition /\ Partit(hand[c]) # v
      BY <1>c, Earlier, RecordFacts DEF IInv, TypeOK
    <3> QED BY <1>e, <1>f, <1>h, <1>o, <3>1, <3>2 DEF CalmHand, Joined, Partit, Offset
  <2>2. ASSUME NEW q \in Process, closing[q] = "open" PROVE CalmBuffer(q)'
    <3>1. CalmBuffer(q) /\ q # Nobody
      BY <1>u, <2>2, NamesAssumption DEF IInv, Calm
    <3>2. \A k \in DOMAIN buffer[q] : Partit(buffer[q][k]) \in Partition /\ Partit(buffer[q][k]) # v
      BY <1>u, <3>1, Earlier, RecordFacts DEF IInv, TypeOK, CalmBuffer, Joined
    <3> QED BY <1>e, <1>f, <1>o, <3>1, <3>2 DEF CalmBuffer, Joined, Before, Partit, Offset
  <2>3. \A u \in Partition : owner'[u] # Nobody => committed[u] <= position'[u]
    <3>1. committed[v] <= position'[v]
      BY <1>e DEF IInv, TypeOK
    <3> QED BY <1>e, <1>u, <3>1 DEF IInv, Calm
  <2> QED BY <2>1, <2>2, <2>3
<1>7. SettledIsBehind'
  <2> SUFFICES ASSUME used'.troubles = 0, OneLoopEach \/ NobodyLeft, NEW s \in acked \union copied
               PROVE  Behind(s)'
    BY <1>f, <1>o DEF SettledIsBehind, NobodyLeft
  <2>1. Behind(s) /\ Partit(s) \in Partition /\ Offset(s) \in Nat
    BY <1>u, RecordFacts DEF IInv, SettledIsBehind, TypeOK
  <2>2. IF owner'[Partit(s)] = Nobody THEN Offset(s) <= committed[Partit(s)]
                                      ELSE Offset(s) <= position'[Partit(s)]
    BY <1>e, <1>u, <2>1 DEF Behind
  <2> QED BY <1>f, <1>o, <2>1, <2>2 DEF Behind, Partit, Offset
<1> QED BY <1>1, <1>2, <1>3, <1>4, <1>5, <1>6, <1>7 DEF IInv

LEMMA AssignIInv ==
  ASSUME IInv, NEW t \in Partition, Assign(t)
  PROVE  IInv'
<1>1. used' = used /\ owner[t] = Nobody /\ used \in [{"rejects", "troubles"} -> Nat]
  BY DEF Assign, IInv, TypeOK
<1> QED BY <1>1, GivenIInv DEF Assign

LEMMA RebalanceIInv ==
  ASSUME IInv, NEW t \in Partition, Rebalance(t)
  PROVE  IInv'
<1>1. used' \in [{"rejects", "troubles"} -> Nat] /\ used'.troubles # 0
  BY SpendFacts DEF Rebalance
<1> QED BY <1>1, GivenIInv DEF Rebalance

-----------------------------------------------------------------------------
(* A record goes through the buffer                                        *)

LEMMA TakeIInv ==
  ASSUME IInv, NEW c \in Consumer, Take(c)
  PROVE  IInv'
<1>s. setup' = setup
  BY DEF Take
<1>h. /\ home \in [Consumer -> Process] /\ home' = home /\ \A x : At(x)' = At(x)
      /\ \A y \in Consumer : home[y] \in Process /\ y \in At(home[y])
      /\ \A x : \A y \in At(x) : y \in Consumer /\ home[y] = x
  BY <1>s, Deployment, SetupFixed DEF IInv
<1>f. UNCHANGED <<log, committed, owner, position, member, closing, aborted, used, acked,
                 copied>>
  BY DEF Take, brokerVars, historyVars
<1>g. Grown /\ Records' = Records
  BY <1>f, NotGrown DEF IInv
<1>p. PICK p \in Process : p = home[c] /\ p # Nobody /\ c \in At(p)
  BY <1>h, NamesAssumption
<1>b. PICK b \in Seq(Record) : b = buffer[p] /\ b # <<>>
  BY <1>p DEF Take, IInv, TypeOK
<1>t. PICK more \in Seq(Record) : more = Tail(b)
  <2>1. Tail(b) \in Seq(Record)
    BY <1>b
  <2> QED BY <2>1
<1>k. /\ Len(b) \in Nat /\ DOMAIN b = 1 .. Len(b) /\ 1 \in DOMAIN b
      /\ \A k \in DOMAIN more : k \in Nat /\ k # 0 /\ k + 1 \in DOMAIN b /\ more[k] = b[k + 1]
      /\ \A j \in DOMAIN b : j \in Nat /\ j >= 1
      /\ \A j \in DOMAIN b : j # 1 => j - 1 \in DOMAIN more /\ more[j - 1] = b[j]
      /\ \A k \in DOMAIN more : \A j \in 1 .. (k - 1) : j \in DOMAIN more /\ j + 1 \in 1 .. ((k + 1) - 1)
  BY <1>b, <1>t
<1>r. PICK r \in Records : /\ r = b[1] /\ r = Head(b) /\ r # NoRecord /\ r = <<Partit(r), Offset(r)>>
                          /\ Partit(r) \in Partition /\ Offset(r) \in Nat
  <2>1. b[1] \in Records
    BY <1>b, <1>k, Earlier DEF IInv
  <2>2. b[1] = Head(b)
    BY <1>b
  <2> QED BY <2>1, <2>2, RecordFacts DEF IInv, TypeOK
<1>e. /\ pc[c] = "loop" /\ closing[p] = "open" /\ hand[c] = NoRecord
      /\ pc' = [pc EXCEPT ![c] = pc'[c]] /\ pc'[c] \in {"discard", "handle"}
      /\ pc'[c] = "discard" => Content(r) \in Foreign
      /\ hand' = [hand EXCEPT ![c] = r] /\ hand'[c] = r
      /\ \A d \in Consumer : d # c => hand'[d] = hand[d] /\ pc'[d] = pc[d]
      /\ buffer' = [buffer EXCEPT ![p] = more] /\ buffer'[p] = more
      /\ \A q \in Process : q # p => buffer'[q] = buffer[q]
      /\ pc'[c] = "handle" => r \in inFlight'[p]
      /\ \A q \in Process : inFlight[q] \subseteq inFlight'[q] /\ (q # p => inFlight'[q] = inFlight[q])
      /\ inFlight' \in [Process -> SUBSET Record]
  <2>1. pc[c] = "loop" /\ closing[p] = "open"
    BY <1>p DEF Take, ShouldStop
  <2>2. hand[c] = NoRecord
    BY <2>1 DEF IInv, Hands, HandFits, Holds
  <2>3. hand' = [hand EXCEPT ![c] = r]
        /\ pc' = [pc EXCEPT ![c] = IF Content(r) \in Foreign THEN "discard" ELSE "handle"]
    BY <1>b, <1>p, <1>r DEF Take, Hold, Goto
  <2>6. r \in Record /\ inFlight \in [Process -> SUBSET Record]
    BY <1>b, <1>k, <1>r DEF IInv, TypeOK
  <2>7. inFlight' = IF Content(r) \in Foreign THEN inFlight
                                              ELSE [inFlight EXCEPT ![p] = inFlight[p] \union {r}]
    BY <1>b, <1>p, <1>r DEF Take
  <2>4. buffer' = [buffer EXCEPT ![p] = more]
    BY <1>b, <1>p, <1>t DEF Take
  <2>5. pc \in [Consumer -> {"start", "loop", "asleep", "discard", "handle", "publish",
                          "commit", "returned", "crashed"}]
        /\ hand \in [Consumer -> Records \union {NoRecord}] /\ buffer \in [Process -> Seq(Record)]
    BY DEF IInv, TypeOK
  <2>8. /\ Content(r) \notin Foreign => r \in inFlight'[p]
        /\ \A q \in Process : inFlight[q] \subseteq inFlight'[q] /\ (q # p => inFlight'[q] = inFlight[q])
        /\ inFlight' \in [Process -> SUBSET Record]
    BY <2>6, <2>7
  <2> QED BY <2>1, <2>2, <2>3, <2>4, <2>5, <2>8
<1>1. TypeOK'
  <2>1. log' \in [Partition -> Seq(Message)] /\ committed' \in [Partition -> Nat]
        /\ position' \in [Partition -> Nat]
        /\ \A t \in Partition : committed'[t] <= Len(log'[t]) /\ position'[t] <= Len(log'[t])
    BY <1>f, <1>g, <1>e, <1>h DEF IInv, TypeOK
  <2>2. owner' \in [Partition -> Process \union {Nobody}]
    BY <1>f, <1>g, <1>e, <1>h DEF IInv, TypeOK
  <2>3. member' \in [Process -> {"none", "connect", "subscribe", "joined", "left"}]
    BY <1>f, <1>g, <1>e, <1>h DEF IInv, TypeOK
  <2>4. buffer' \in [Process -> Seq(Record)]
    BY <1>f, <1>g, <1>e, <1>h DEF IInv, TypeOK
  <2>5. closing' \in [Process -> {"open", "draining", "flushing", "closed"}]
    BY <1>f, <1>g, <1>e, <1>h DEF IInv, TypeOK
  <2>6. pc' \in [Consumer -> {"start", "loop", "asleep", "discard", "handle", "publish",
                          "commit", "returned", "crashed"}]
    <3>1. pc \in [Consumer -> {"start", "loop", "asleep", "discard", "handle", "publish",
                               "commit", "returned", "crashed"}]
      BY DEF IInv, TypeOK
    <3>2. pc' = [pc EXCEPT ![c] = pc'[c]] /\ pc'[c] \in {"discard", "handle"}
      BY <1>e
    <3> QED BY <3>1, <3>2
  <2>7. hand' \in [Consumer -> Records' \union {NoRecord}]
    BY <1>f, <1>g, <1>e, <1>h DEF IInv, TypeOK
  <2>8. aborted' \in [Consumer -> BOOLEAN] /\ used' \in [{"rejects", "troubles"} -> Nat]
    BY <1>f, <1>g, <1>e, <1>h DEF IInv, TypeOK
  <2>9. acked' \subseteq Records' /\ copied' \subseteq Records'
    BY <1>f, <1>g, <1>e, <1>h DEF IInv, TypeOK
  <2>10. inFlight' \in [Process -> SUBSET Record]
    BY <1>f, <1>g, <1>e, <1>h DEF IInv, TypeOK
  <2> QED BY <1>s, <2>1, <2>2, <2>3, <2>4, <2>5, <2>6, <2>7, <2>8, <2>9,
            <2>10 DEF IInv, TypeOK
<1>2. Hands'
  <2>1. \A d \in Consumer : Content(hand'[d]) = Content(hand[d])' \/ d = c
    BY <1>f, <1>e DEF Content, Partit, Offset
  <2>2. HandFits(c)'
    BY <1>e, <1>f, <1>r DEF HandFits, Holds, Content, Partit, Offset
  <2>3. ASSUME NEW d \in Consumer, d # c PROVE HandFits(d)'
    <3>1. HandFits(d)
      BY DEF IInv, Hands
    <3> QED BY <1>e, <1>f, <2>3, <3>1 DEF HandFits, Holds, Content, Partit, Offset
  <2>4. \A x, y \in Consumer : home[x] = home[y] /\ pc'[x] = "crashed" => pc'[y] = "crashed"
    BY <1>e DEF IInv, Hands
  <2> QED BY <1>h, <2>2, <2>3, <2>4 DEF Hands
<1>3. Registry'
  <2>1. \A q \in Process : closing'[q] \in {"flushing", "closed"} => inFlight'[q] = {}
    BY <1>e, <1>f DEF IInv, Registry
  <2>2. ASSUME Orderly', NEW d \in Consumer, pc'[d] = "handle" PROVE hand'[d] \in inFlight'[home[d]]
    <3>1. CASE d = c
      BY <1>e, <1>p, <2>2, <3>1
    <3>2. CASE d # c
      BY <1>e, <1>f, <1>h, <1>s, <2>2, <3>2, SetupFixed DEF IInv, Registry, Orderly, Settleable
    <3> QED BY <3>1, <3>2
  <2> QED BY <1>h, <2>1, <2>2 DEF Registry, Settleable
<1>4. BufferedIsLogged'
  <2>1. \A n \in DOMAIN b : b[n] \in Records
    BY <1>b DEF IInv, BufferedIsLogged
  <2>2. \A n \in DOMAIN more : more[n] \in Records
    BY <1>k, <2>1
  <2>3. \A q \in Process : q # p => \A n \in DOMAIN buffer'[q] : buffer'[q][n] \in Records
    BY <1>e DEF IInv, BufferedIsLogged
  <2> QED BY <1>e, <1>g, <2>2, <2>3 DEF BufferedIsLogged
<1>5. Traced' /\ CommittedIsSettled'
  BY <1>e, <1>f, <1>g, <1>s, StillTraced, StillCommitted
<1>i. \A s \in Records : /\ (Settled(s) => Settled(s)')
                        /\ \A q \in Process : (InHand(q, s) => InHand(q, s)')
                        /\ (s = r => InHand(p, s)')
  <2>1. ASSUME NEW s \in Records, Settled(s) PROVE Settled(s)'
    BY <1>f, <1>g, <2>1, SettledStays
  <2>2. ASSUME NEW s \in Records, NEW q \in Process, InHand(q, s) PROVE InHand(q, s)'
    <3>1. PICK d \in At(q) : hand[d] = s
      BY <2>2 DEF InHand
    <3>2. s # NoRecord /\ d \in Consumer
      BY <1>h, RecordFacts DEF IInv, TypeOK
    <3>3. hand'[d] = s
      BY <1>e, <3>1, <3>2
    <3> QED BY <1>h, <3>1, <3>3 DEF InHand
  <2>3. InHand(p, r)'
    BY <1>e, <1>h, <1>p DEF InHand
  <2> QED BY <2>1, <2>2, <2>3
<1>o. Orderly' => Orderly
  BY <1>f, <1>s, SetupFixed DEF Orderly
<1>6. HandsFollow'
  <2> SUFFICES ASSUME Orderly', NEW d \in Consumer, hand'[d] # NoRecord,
                      NEW i \in 1 .. (Offset(hand[d])' - 1)
               PROVE  Settled(<<Partit(hand[d]), i>>)' \/ InHand(home[d], <<Partit(hand[d]), i>>)'
    BY DEF HandsFollow
  <2>1. PICK q \in Process : q = home[d] /\ d \in At(q) /\ home' = home
    BY <1>h
  <2>2. PICK v \in Records : v = hand'[d]
    BY <1>e, <1>r, Earlier DEF IInv
  <2>3. i \in 1 .. (Offset(v) - 1)
    BY <2>2 DEF Offset
  <2>4. PICK s \in Records : s = <<Partit(v), i>>
    BY <2>3, Earlier DEF IInv
  <2>5. Settled(s) \/ InHand(q, s)
    <3>1. CASE d = c
      <4>1. EntryFollows(p, 1) /\ v = r /\ q = p
        BY <1>b, <1>e, <1>k, <1>o, <1>p, <2>1, <2>2, <3>1 DEF IInv, BuffersFollow
      <4> QED BY <1>b, <1>r, <2>3, <2>4, <4>1 DEF EntryFollows
    <3>2. CASE d # c
      BY <1>e, <1>o, <2>1, <2>2, <2>3, <2>4, <3>2 DEF IInv, HandsFollow
    <3> QED BY <3>1, <3>2
  <2>6. Settled(s)' \/ InHand(q, s)'
    BY <1>i, <2>5
  <2>7. s = <<Partit(hand[d])', i>> /\ q = home'[d]
    BY <2>1, <2>2, <2>4 DEF Partit
  <2> QED BY <2>6, <2>7 DEF Settled, InHand, At, Content, Partit, Offset
<1>7. BuffersFollow'
  <2> SUFFICES ASSUME Orderly', NEW q \in Process, NEW k \in DOMAIN buffer'[q]
               PROVE  EntryFollows(q, k)'
    BY DEF BuffersFollow
  <2>1. CASE q # p
    <3>1. EntryFollows(q, k) /\ buffer'[q] = buffer[q] /\ k \in DOMAIN buffer[q]
      BY <1>e, <1>o, <2>1 DEF IInv, BuffersFollow
    <3>2. PICK v \in Records : v = buffer[q][k]
      BY <3>1, Earlier DEF IInv
    <3>3. ASSUME NEW i \in 1 .. (Offset(v) - 1)
          PROVE  \/ Settled(<<Partit(v), i>>)' \/ InHand(q, <<Partit(v), i>>)'
                 \/ \E j \in 1 .. (k - 1) : buffer'[q][j] = <<Partit(v), i>>
      <4>1. PICK s \in Records : s = <<Partit(v), i>>
        BY <3>2, Earlier DEF IInv
      <4>2. \/ Settled(s) \/ InHand(q, s)
            \/ \E j \in 1 .. (k - 1) : buffer[q][j] = s
        BY <3>1, <3>2, <4>1 DEF EntryFollows
      <4>3. Settled(s)' \/ InHand(q, s)' \/ \E j \in 1 .. (k - 1) : buffer'[q][j] = s
        BY <1>i, <3>1, <4>2
      <4> QED BY <4>1, <4>3
    <3> QED BY <3>1, <3>2, <3>3 DEF EntryFollows, Partit, Offset
  <2>2. CASE q = p
    <3>0. PICK n \in DOMAIN b : n = k + 1 /\ more[k] = b[n] /\ k \in DOMAIN more /\ k \in Nat
      BY <1>e, <1>k, <2>2
    <3>1. EntryFollows(p, n)
      BY <1>b, <1>o, <3>0 DEF IInv, BuffersFollow
    <3>2. PICK v \in Records : v = b[n]
      BY <1>b, <3>0, Earlier DEF IInv
    <3>3. ASSUME NEW i \in 1 .. (Offset(v) - 1)
          PROVE  \/ Settled(<<Partit(v), i>>)' \/ InHand(p, <<Partit(v), i>>)'
                 \/ \E j \in 1 .. (k - 1) : more[j] = <<Partit(v), i>>
      <4>1. PICK s \in Records : s = <<Partit(v), i>>
        BY <3>2, Earlier DEF IInv
      <4>2. \/ Settled(s) \/ InHand(p, s)
            \/ \E j \in 1 .. (n - 1) : b[j] = s
        BY <1>b, <3>1, <3>2, <4>1 DEF EntryFollows
      <4>3. ASSUME NEW j \in 1 .. (n - 1), b[j] = s
            PROVE  InHand(p, s)' \/ \E l \in 1 .. (k - 1) : more[l] = s
        <5>1. CASE j = 1
          BY <1>i, <1>r, <4>3, <5>1
        <5>2. CASE j # 1
          <6>1. j \in DOMAIN b /\ j - 1 \in 1 .. (k - 1)
            BY <1>k, <3>0, <5>2
          <6> QED BY <1>k, <4>3, <5>2, <6>1
        <5> QED BY <5>1, <5>2
      <4>4. Settled(s)' \/ InHand(p, s)' \/ \E j \in 1 .. (k - 1) : more[j] = s
        BY <1>i, <4>2, <4>3
      <4> QED BY <4>1, <4>4
    <3>4. buffer'[q] = more /\ buffer'[q][k] = v
      BY <1>e, <2>2, <3>0, <3>2
    <3>5. \A i \in 1 .. (Offset(v) - 1) :
            \/ Settled(<<Partit(v), i>>)' \/ InHand(q, <<Partit(v), i>>)'
            \/ \E j \in 1 .. (k - 1) : buffer'[q][j] = <<Partit(v), i>>
      BY <2>2, <3>3, <3>4
    <3> QED BY <3>4, <3>5 DEF EntryFollows, Partit, Offset
  <2> QED BY <2>1, <2>2
<1>8. PositionsFollow'
  <2> SUFFICES ASSUME Orderly', NEW t \in Partition, owner'[t] # Nobody, NEW i \in 1 .. position'[t]
               PROVE  \/ Settled(<<t, i>>)' \/ InHand(owner[t], <<t, i>>)'
                      \/ \E j \in DOMAIN buffer'[owner'[t]] : buffer'[owner'[t]][j] = <<t, i>>
    BY DEF PositionsFollow
  <2>1. PICK q \in Process : q = owner'[t] /\ q = owner[t]
    BY <1>f DEF IInv, TypeOK
  <2>2. PICK s \in Records : s = <<t, i>>
    BY <1>f, Earlier DEF IInv
  <2>3. Settled(s) \/ InHand(q, s) \/ \E j \in DOMAIN buffer[q] : buffer[q][j] = s
    BY <1>f, <1>o, <2>1, <2>2, NamesAssumption DEF IInv, PositionsFollow
  <2>4. Settled(s)' \/ InHand(q, s)' \/ \E j \in DOMAIN buffer'[q] : buffer'[q][j] = s
    <3>1. ASSUME NEW j \in DOMAIN b, b[j] = s
          PROVE  InHand(p, s)' \/ \E l \in DOMAIN more : more[l] = s
      BY <1>i, <1>k, <1>r, <3>1
    <3> QED BY <1>b, <1>e, <1>i, <2>3, <3>1
  <2> QED BY <2>1, <2>2, <2>4 DEF InHand
<1>9. ASSUME used.troubles = 0
      PROVE  /\ \A d \in Consumer : CalmHand(d)
             /\ \A q \in Process : closing[q] = "open" => CalmBuffer(q)
             /\ CalmBuffer(p) /\ Joined(r, p)
             /\ \A d \in Consumer : hand[d] # r
             /\ OneLoopEach => committed[Partit(r)] < Offset(r)
  <2>1. CalmBuffer(p)
    BY <1>e, <1>9 DEF IInv, Calm
  <2>2. Joined(r, p) /\ (OneLoopEach => committed[Partit(r)] < Offset(r))
    BY <1>b, <1>k, <1>r, <2>1 DEF CalmBuffer
  <2>3. ASSUME NEW d \in Consumer, hand[d] = r PROVE FALSE
    <3>1. Before(r, r)
      BY <1>b, <1>k, <1>r, <2>1, <2>3 DEF CalmBuffer
    <3> QED BY <1>r, <3>1 DEF Before
  <2> QED BY <1>9, <2>1, <2>2, <2>3 DEF IInv, Calm
<1>10. Calm'
  <2> SUFFICES ASSUME used.troubles = 0
               PROVE  /\ \A d \in Consumer : CalmHand(d)'
                      /\ \A q \in Process : closing[q] = "open" => CalmBuffer(q)'
                      /\ \A t \in Partition : owner[t] # Nobody => committed[t] <= position[t]
    BY <1>f DEF Calm
  <2>1. CalmHand(c)'
    <3>1. Joined(r, p)' /\ \A d \in Consumer : hand'[d] = r => c = d
      BY <1>e, <1>f, <1>9 DEF Joined, Partit, Offset
    <3> QED BY <1>e, <1>f, <1>h, <1>p, <1>s, <1>9, <3>1, SetupFixed DEF CalmHand, Joined, Partit, Offset
  <2>2. ASSUME NEW d \in Consumer, d # c PROVE CalmHand(d)'
    <3>1. CalmHand(d) /\ hand'[d] = hand[d] /\ pc'[d] = pc[d] /\ hand[d] # r
      BY <1>e, <1>9, <2>2
    <3>2. \A x \in Consumer : hand[d] # NoRecord /\ hand'[x] = hand[d] => d = x
      BY <1>e, <3>1 DEF CalmHand
    <3> QED BY <1>f, <1>h, <1>s, <3>1, <3>2, SetupFixed DEF CalmHand, Joined, Partit, Offset
  <2>3. ASSUME NEW q \in Process, closing[q] = "open", NEW k \in DOMAIN buffer'[q]
        PROVE  /\ Joined(buffer[q][k], q)'
               /\ \A d \in Consumer : hand'[d] # NoRecord => Before(hand'[d], buffer'[q][k])
               /\ \A j \in 1 .. (k - 1) : Before(buffer'[q][j], buffer'[q][k])
               /\ OneLoopEach => committed[Partit(buffer'[q][k])] < Offset(buffer'[q][k])
    <3>1. CalmBuffer(q)
      BY <1>9, <2>3
    <3>2. CASE q # p
      <4>1. buffer'[q] = buffer[q] /\ k \in DOMAIN buffer[q]
        BY <1>e, <3>2
      <4>2. Partit(r) # Partit(buffer[q][k])
        BY <1>9, <3>1, <3>2, <4>1 DEF CalmBuffer, Joined
      <4>3. Before(r, buffer[q][k])
        BY <4>2 DEF Before
      <4>4. \A d \in Consumer : hand'[d] # NoRecord => Before(hand'[d], buffer[q][k])
        BY <1>e, <3>1, <4>1, <4>3 DEF CalmBuffer
      <4> QED BY <1>f, <3>1, <4>1, <4>4 DEF CalmBuffer, Joined, Partit, Offset
    <3>3. CASE q = p
      <4>0. PICK n \in DOMAIN b : n = k + 1 /\ more[k] = b[n] /\ k \in DOMAIN more /\ k \in Nat
        BY <1>e, <1>k, <3>3
      <4>1. PICK v : v = b[n] /\ v = buffer'[p][k]
        BY <1>e, <4>0
      <4>2. /\ Joined(v, p) /\ \A d \in Consumer : hand[d] # NoRecord => Before(hand[d], v)
            /\ \A j \in 1 .. (n - 1) : Before(b[j], v)
            /\ OneLoopEach => committed[Partit(v)] < Offset(v)
        BY <1>b, <1>9, <4>1 DEF CalmBuffer
      <4>3. Before(r, v)
        <5>1. 1 \in 1 .. (n - 1)
          BY <1>k, <4>0
        <5> QED BY <1>r, <4>2, <5>1
      <4>4. \A d \in Consumer : hand'[d] # NoRecord => Before(hand'[d], v)
        BY <1>e, <4>2, <4>3
      <4>5. \A j \in 1 .. (k - 1) : Before(more[j], v)
        <5>1. \A j \in 1 .. (k - 1) : j + 1 \in 1 .. (n - 1) /\ more[j] = b[j + 1]
          BY <1>k, <4>0
        <5> QED BY <4>2, <5>1
      <4>6. Joined(v, p)'
        BY <1>f, <4>2 DEF Joined, Partit, Offset
      <4> QED BY <1>e, <3>3, <4>1, <4>2, <4>4, <4>5, <4>6 DEF Joined, Partit, Offset
    <3> QED BY <3>2, <3>3
  <2>4. \A q \in Process : closing[q] = "open" => CalmBuffer(q)'
    BY <1>f, <1>s, <2>3, SetupFixed DEF CalmBuffer, Before, Partit, Offset
  <2> QED BY <1>e, <2>1, <2>2, <2>4 DEF IInv, Calm
<1>11. SettledIsBehind'
  <2> SUFFICES ASSUME used.troubles = 0, OneLoopEach \/ NobodyLeft, NEW s \in acked \union copied
               PROVE  Behind(s)'
    BY <1>f, <1>s, SetupFixed DEF SettledIsBehind, NobodyLeft
  <2>1. Behind(s) /\ s # NoRecord
    BY RecordFacts DEF IInv, SettledIsBehind, TypeOK
  <2>2. r # s /\ \A k \in DOMAIN more : more[k] # s
    <3>1. \A k \in DOMAIN b : b[k] # s
      BY <1>b, <1>e, <2>1 DEF Behind
    <3> QED BY <1>k, <1>r, <3>1, SMTT(30)
  <2>3. \A d \in Consumer : hand[d] = s => hand'[d] = s
    BY <1>e, <2>1
  <2>4. \A d \in Consumer : pc'[d] = "handle" => hand'[d] # s
    BY <1>e, <2>1, <2>2 DEF Behind
  <2>5. \A q \in Process : closing[q] = "open" => \A k \in DOMAIN buffer'[q] : buffer'[q][k] # s
    BY <1>e, <2>1, <2>2 DEF Behind
  <2> QED BY <1>f, <1>s, <2>1, <2>3, <2>4, <2>5, SetupFixed DEF Behind, Partit, Offset
<1> QED BY <1>1, <1>2, <1>3, <1>4, <1>5, <1>6, <1>7, <1>8, <1>10, <1>11 DEF IInv

LEMMA PushIInv ==
  ASSUME IInv, NEW v \in Partition, Push(v)
  PROVE  IInv'
<1>s. setup' = setup
  BY DEF Push
<1>h. /\ home \in [Consumer -> Process] /\ home' = home /\ \A x : At(x)' = At(x)
      /\ \A y \in Consumer : home[y] \in Process /\ y \in At(home[y])
      /\ \A x : \A y \in At(x) : y \in Consumer /\ home[y] = x
  BY <1>s, Deployment, SetupFixed DEF IInv
<1>f. UNCHANGED <<log, committed, owner, member, closing, hand, aborted, used, acked, copied,
                 inFlight>>
  BY DEF Push, historyVars
<1>g. Grown /\ Records' = Records
  BY <1>f, NotGrown DEF IInv
<1>p. PICK p \in Process : p = owner[v] /\ p # Nobody
  BY NamesAssumption DEF Push, IInv, TypeOK
<1>n. PICK n \in Nat \ {0} : n = position[v] + 1 /\ n <= Len(log[v]) /\ n \in 1 .. Len(log[v])
  <2>1. position[v] \in Nat /\ Len(log[v]) \in Nat /\ position[v] < Len(log[v])
    BY LogFacts DEF Push, IInv, TypeOK
  <2> QED BY <2>1
<1>x. PICK x \in Records : /\ x = <<v, n>> /\ Partit(x) = v /\ Offset(x) = n /\ x \in Record
  BY <1>n, RecordFacts DEF IInv, TypeOK
<1>b. PICK b \in Seq(Record) : b = buffer[p]
  BY DEF IInv, TypeOK
<1>t. PICK more \in Seq(Record) : more = Append(b, x)
  <2>1. Append(b, x) \in Seq(Record)
    BY <1>b, <1>x
  <2> QED BY <2>1
<1>l. PICK last \in Nat : last = Len(b) + 1
  BY <1>b
<1>k. /\ \A j \in DOMAIN b : j \in DOMAIN more /\ more[j] = b[j] /\ j \in Nat /\ j >= 1
      /\ last \in DOMAIN more /\ more[last] = x
      /\ \A j \in DOMAIN more : j \in DOMAIN b \/ j = last
      /\ \A j \in DOMAIN b : \A i \in 1 .. (j - 1) : i \in DOMAIN b
      /\ DOMAIN b = 1 .. (last - 1)
  <2>1. Len(b) \in Nat /\ DOMAIN b = 1 .. Len(b) /\ DOMAIN more = 1 .. last
    BY <1>b, <1>l, <1>t, <1>x
  <2>2. more[last] = x /\ \A j \in 1 .. Len(b) : more[j] = b[j]
    BY <1>b, <1>l, <1>t, <1>x
  <2> QED BY <1>l, <2>1, <2>2
<1>e. /\ position' = [position EXCEPT ![v] = n] /\ position'[v] = n
      /\ \A t \in Partition : t # v => position'[t] = position[t]
      /\ \A t \in Partition : position[t] \in Nat /\ position'[t] \in Nat /\ position[t] <= position'[t]
      /\ buffer' = [buffer EXCEPT ![p] = more] /\ buffer'[p] = more
      /\ \A q \in Process : q # p => buffer'[q] = buffer[q]
  <2>1. position' = [position EXCEPT ![v] = n]
    BY <1>n DEF Push
  <2>2. buffer' = [buffer EXCEPT ![p] = more]
    BY <1>b, <1>n, <1>p, <1>t, <1>x DEF Push
  <2>3. position \in [Partition -> Nat] /\ buffer \in [Process -> Seq(Record)]
    BY DEF IInv, TypeOK
  <2> QED BY <1>n, <2>1, <2>2, <2>3
<1>w. /\ pc' \in [Consumer -> {"start", "loop", "asleep", "discard", "handle", "publish",
                          "commit", "returned", "crashed"}]
      /\ \A c \in Consumer : pc'[c] = pc[c] \/ (pc[c] = "asleep" /\ pc'[c] = "loop")
  <2>1. Wake(p)
    BY <1>p DEF Push
  <2>2. CASE UNCHANGED pc
    BY <2>2 DEF IInv, TypeOK
  <2>3. CASE \E c \in Asleep(p) : pc' = [pc EXCEPT ![c] = "loop"]
    <3>1. PICK c \in Asleep(p) : pc' = [pc EXCEPT ![c] = "loop"]
      BY <2>3
    <3>2. c \in Consumer /\ pc[c] = "asleep"
      BY <1>h, <3>1 DEF Asleep
    <3> QED BY <3>1, <3>2 DEF IInv, TypeOK
  <2> QED BY <2>1, <2>2, <2>3 DEF Wake, Goto
<1>1. TypeOK'
  <2>1. log' \in [Partition -> Seq(Message)] /\ committed' \in [Partition -> Nat]
        /\ position' \in [Partition -> Nat]
        /\ \A t \in Partition : committed'[t] <= Len(log'[t]) /\ position'[t] <= Len(log'[t])
    BY <1>e, <1>f, <1>n DEF IInv, TypeOK
  <2>2. owner' \in [Partition -> Process \union {Nobody}]
    BY <1>f, <1>g, <1>e, <1>h, <1>w DEF IInv, TypeOK
  <2>3. member' \in [Process -> {"none", "connect", "subscribe", "joined", "left"}]
    BY <1>f, <1>g, <1>e, <1>h, <1>w DEF IInv, TypeOK
  <2>4. buffer' \in [Process -> Seq(Record)]
    BY <1>f, <1>g, <1>e, <1>h, <1>w DEF IInv, TypeOK
  <2>5. closing' \in [Process -> {"open", "draining", "flushing", "closed"}]
    BY <1>f, <1>g, <1>e, <1>h, <1>w DEF IInv, TypeOK
  <2>6. pc' \in [Consumer -> {"start", "loop", "asleep", "discard", "handle", "publish",
                          "commit", "returned", "crashed"}]
    BY <1>f, <1>g, <1>e, <1>h, <1>w DEF IInv, TypeOK
  <2>7. hand' \in [Consumer -> Records' \union {NoRecord}]
    BY <1>f, <1>g, <1>e, <1>h, <1>w DEF IInv, TypeOK
  <2>8. aborted' \in [Consumer -> BOOLEAN] /\ used' \in [{"rejects", "troubles"} -> Nat]
    BY <1>f, <1>g, <1>e, <1>h, <1>w DEF IInv, TypeOK
  <2>9. acked' \subseteq Records' /\ copied' \subseteq Records'
    BY <1>f, <1>g, <1>e, <1>h, <1>w DEF IInv, TypeOK
  <2>10. inFlight' \in [Process -> SUBSET Record]
    BY <1>f, <1>g, <1>e, <1>h, <1>w DEF IInv, TypeOK
  <2> QED BY <1>s, <2>1, <2>2, <2>3, <2>4, <2>5, <2>6, <2>7, <2>8, <2>9,
            <2>10 DEF IInv, TypeOK
<1>2. Hands'
  <2>1. ASSUME NEW d \in Consumer PROVE HandFits(d)'
    <3>1. HandFits(d)
      BY DEF IInv, Hands
    <3> QED BY <1>f, <1>w, <3>1 DEF HandFits, Holds, Content, Partit, Offset
  <2>2. \A c, d \in Consumer : home[c] = home[d] /\ pc'[c] = "crashed" => pc'[d] = "crashed"
    BY <1>w DEF IInv, Hands
  <2> QED BY <1>h, <2>1, <2>2 DEF Hands
<1>3. Registry'
  BY <1>f, <1>s, <1>w, StillRegistered
<1>4. BufferedIsLogged'
  <2>1. \A k \in DOMAIN b : b[k] \in Records
    BY <1>b DEF IInv, BufferedIsLogged
  <2>2. \A k \in DOMAIN more : more[k] \in Records
    BY <1>k, <1>x, <2>1
  <2>3. \A q \in Process : q # p => \A k \in DOMAIN buffer'[q] : buffer'[q][k] \in Records
    BY <1>e DEF IInv, BufferedIsLogged
  <2> QED BY <1>e, <1>g, <2>2, <2>3 DEF BufferedIsLogged
<1>5. Traced' /\ CommittedIsSettled'
  BY <1>f, <1>g, <1>s, StillTraced, StillCommitted
<1>i. \A s \in Records : /\ (Settled(s) => Settled(s)')
                        /\ \A q \in Process : (InHand(q, s) => InHand(q, s)')
  <2>1. ASSUME NEW s \in Records, Settled(s) PROVE Settled(s)'
    BY <1>f, <1>g, <2>1, SettledStays
  <2>2. ASSUME NEW s \in Records, NEW q \in Process, InHand(q, s) PROVE InHand(q, s)'
    BY <1>f, <1>h, <2>2 DEF InHand
  <2> QED BY <2>1, <2>2
<1>o. Orderly' => Orderly
  BY <1>f, <1>s, SetupFixed DEF Orderly
<1>6. HandsFollow'
  <2> SUFFICES ASSUME Orderly', NEW d \in Consumer, hand'[d] # NoRecord,
                      NEW i \in 1 .. (Offset(hand[d])' - 1)
               PROVE  Settled(<<Partit(hand[d]), i>>)' \/ InHand(home[d], <<Partit(hand[d]), i>>)'
    BY DEF HandsFollow
  <2>1. PICK q \in Process : q = home[d] /\ d \in At(q) /\ home' = home
    BY <1>h
  <2>2. PICK y \in Records : y = hand'[d] /\ y = hand[d]
    BY <1>f, Earlier DEF IInv
  <2>3. i \in 1 .. (Offset(y) - 1)
    BY <2>2 DEF Offset
  <2>4. PICK s \in Records : s = <<Partit(y), i>>
    BY <2>3, Earlier DEF IInv
  <2>5. Settled(s) \/ InHand(q, s)
    BY <1>f, <1>o, <2>1, <2>2, <2>3, <2>4 DEF IInv, HandsFollow
  <2>6. Settled(s)' \/ InHand(q, s)'
    BY <1>i, <2>5
  <2>7. s = <<Partit(hand[d])', i>> /\ q = home'[d]
    BY <2>1, <2>2, <2>4 DEF Partit
  <2> QED BY <2>6, <2>7 DEF Settled, InHand, At, Content, Partit, Offset
<1>7. BuffersFollow'
  <2> SUFFICES ASSUME Orderly', NEW q \in Process, NEW k \in DOMAIN buffer'[q]
               PROVE  EntryFollows(q, k)'
    BY DEF BuffersFollow
  <2>1. CASE k \in DOMAIN buffer[q]
    <3>1. EntryFollows(q, k)
      BY <1>o, <2>1 DEF IInv, BuffersFollow
    <3>2. /\ buffer'[q][k] = buffer[q][k]
          /\ \A j \in 1 .. (k - 1) : buffer'[q][j] = buffer[q][j]
      <4>1. CASE q = p
        BY <1>b, <1>e, <1>k, <2>1, <4>1
      <4>2. CASE q # p
        BY <1>e, <4>2
      <4> QED BY <4>1, <4>2
    <3>3. PICK y \in Records : y = buffer[q][k]
      BY <2>1, Earlier DEF IInv
    <3>4. ASSUME NEW i \in 1 .. (Offset(y) - 1)
          PROVE  \/ Settled(<<Partit(y), i>>)' \/ InHand(q, <<Partit(y), i>>)'
                 \/ \E j \in 1 .. (k - 1) : buffer'[q][j] = <<Partit(y), i>>
      <4>1. PICK s \in Records : s = <<Partit(y), i>>
        BY <3>3, Earlier DEF IInv
      <4>2. \/ Settled(s) \/ InHand(q, s)
            \/ \E j \in 1 .. (k - 1) : buffer[q][j] = s
        BY <3>1, <3>3, <4>1 DEF EntryFollows
      <4>3. Settled(s)' \/ InHand(q, s)' \/ \E j \in 1 .. (k - 1) : buffer'[q][j] = s
        BY <1>i, <3>2, <4>2
      <4> QED BY <4>1, <4>3
    <3> QED BY <3>2, <3>3, <3>4 DEF EntryFollows, Partit, Offset
  <2>2. CASE k \notin DOMAIN buffer[q]
    <3>1. q = p /\ k = last /\ buffer'[q] = more /\ buffer'[q][k] = x
      BY <1>b, <1>e, <1>k, <2>2
    <3>2. ASSUME NEW i \in 1 .. (n - 1)
          PROVE  \/ Settled(<<v, i>>)' \/ InHand(q, <<v, i>>)'
                 \/ \E j \in 1 .. (k - 1) : buffer'[q][j] = <<v, i>>
      <4>1. i \in 1 .. position[v] /\ position[v] \in Nat
        BY <1>e, <1>n
      <4>2. PICK s \in Records : s = <<v, i>>
        BY <4>1, Earlier DEF IInv
      <4>3. Settled(s) \/ InHand(p, s) \/ \E j \in DOMAIN b : b[j] = s
        BY <1>b, <1>o, <1>p, <4>1, <4>2 DEF IInv, PositionsFollow
      <4>4. Settled(s)' \/ InHand(p, s)' \/ \E j \in 1 .. (k - 1) : more[j] = s
        BY <1>i, <1>k, <3>1, <4>3
      <4> QED BY <3>1, <4>2, <4>4
    <3>3. Partit(buffer'[q][k]) = v /\ Offset(buffer'[q][k]) = n
      BY <1>x, <3>1
    <3> QED BY <3>2, <3>3 DEF EntryFollows, Partit, Offset
  <2> QED BY <2>1, <2>2
<1>8. PositionsFollow'
  <2> SUFFICES ASSUME Orderly', NEW t \in Partition, owner'[t] # Nobody, NEW i \in 1 .. position'[t]
               PROVE  \/ Settled(<<t, i>>)' \/ InHand(owner[t], <<t, i>>)'
                      \/ \E j \in DOMAIN buffer'[owner'[t]] : buffer'[owner'[t]][j] = <<t, i>>
    BY DEF PositionsFollow
  <2>1. PICK q \in Process : q = owner'[t] /\ q = owner[t] /\ q # Nobody
    BY <1>f, NamesAssumption DEF IInv, TypeOK
  <2>2. CASE i \in 1 .. position[t]
    <3>1. PICK s \in Records : s = <<t, i>>
      BY <2>2, Earlier DEF IInv
    <3>2. Settled(s) \/ InHand(q, s) \/ \E j \in DOMAIN buffer[q] : buffer[q][j] = s
      BY <1>o, <2>1, <2>2, <3>1 DEF IInv, PositionsFollow
    <3>3. ASSUME NEW j \in DOMAIN buffer[q], buffer[q][j] = s
          PROVE  \E l \in DOMAIN buffer'[q] : buffer'[q][l] = s
      <4>1. CASE q = p
        BY <1>b, <1>e, <1>k, <3>3, <4>1, SMTT(30)
      <4>2. CASE q # p
        BY <1>e, <3>3, <4>2
      <4> QED BY <4>1, <4>2
    <3>4. Settled(s)' \/ InHand(q, s)' \/ \E j \in DOMAIN buffer'[q] : buffer'[q][j] = s
      BY <1>i, <3>2, <3>3
    <3> QED BY <2>1, <3>1, <3>4 DEF InHand
  <2>3. CASE i \notin 1 .. position[t]
    <3>1. t = v /\ i = n
      BY <1>e, <1>n, <2>3
    <3>2. buffer'[owner'[t]][last] = <<t, i>> /\ last \in DOMAIN buffer'[owner'[t]]
      BY <1>e, <1>k, <1>p, <1>x, <2>1, <3>1
    <3> QED BY <3>2
  <2> QED BY <2>2, <2>3
<1>j. \A s \in Records : \A q \in Process : (Joined(s, q) => Joined(s, q)')
  <2>1. \A s \in Records : Partit(s) \in Partition /\ Offset(s) \in Nat
    BY RecordFacts DEF IInv, TypeOK
  <2> QED BY <1>e, <1>f, <2>1 DEF Joined, Partit, Offset
<1>c. \A s \in Records : Joined(s, p) => Before(s, x)
  <2>1. \A s \in Records : Partit(s) \in Partition /\ Offset(s) \in Nat
    BY RecordFacts DEF IInv, TypeOK
  <2> QED BY <1>e, <1>n, <1>x, <2>1 DEF Joined, Before
<1>10. Calm'
  <2> SUFFICES ASSUME used.troubles = 0
               PROVE  /\ \A d \in Consumer : CalmHand(d)'
                      /\ \A q \in Process : closing[q] = "open" => CalmBuffer(q)'
                      /\ \A t \in Partition : owner[t] # Nobody => committed[t] <= position'[t]
    BY <1>f DEF Calm
  <2>1. ASSUME NEW d \in Consumer PROVE CalmHand(d)'
    <3>1. CalmHand(d) /\ pc'[d] # "crashed" /\ home[d] \in Process
      BY <1>h, <1>w DEF IInv, Calm, CalmHand
    <3>2. hand[d] # NoRecord => Joined(hand[d], home[d])'
      <4> SUFFICES ASSUME hand[d] # NoRecord PROVE Joined(hand[d], home[d])'
        OBVIOUS
      <4>1. PICK s \in Records : s = hand[d] /\ Joined(s, home[d])
        BY <3>1, Earlier DEF IInv, CalmHand
      <4>2. PICK q \in Process : q = home[d]
        BY <3>1
      <4>3. Joined(s, q)'
        BY <1>j, <4>1, <4>2
      <4> QED BY <1>f, <1>h, <4>1, <4>2, <4>3 DEF Joined, Partit, Offset
    <3> QED BY <1>f, <1>h, <1>s, <3>1, <3>2, SetupFixed DEF CalmHand, Joined, Partit, Offset
  <2>2. ASSUME NEW q \in Process, closing[q] = "open", NEW k \in DOMAIN buffer'[q]
        PROVE  /\ Joined(buffer[q][k], q)'
               /\ \A d \in Consumer : hand[d] # NoRecord => Before(hand[d], buffer'[q][k])
               /\ \A j \in 1 .. (k - 1) : Before(buffer'[q][j], buffer'[q][k])
               /\ OneLoopEach => committed[Partit(buffer'[q][k])] < Offset(buffer'[q][k])
    <3>1. CalmBuffer(q)
      BY <2>2 DEF IInv, Calm
    <3>2. CASE k \in DOMAIN buffer[q]
      <4>1. /\ buffer'[q][k] = buffer[q][k]
            /\ \A j \in 1 .. (k - 1) : buffer'[q][j] = buffer[q][j]
        <5>1. CASE q = p
          BY <1>b, <1>e, <1>k, <3>2, <5>1, SMTT(30)
        <5>2. CASE q # p
          BY <1>e, <5>2
        <5> QED BY <5>1, <5>2
      <4>2. PICK s \in Records : s = buffer[q][k]
        BY <3>2, Earlier DEF IInv
      <4>3. Joined(s, q)'
        BY <1>j, <3>1, <3>2, <4>2 DEF CalmBuffer
      <4>4. Joined(buffer[q][k], q)'
        BY <4>1, <4>2, <4>3 DEF Joined, Partit, Offset
      <4> QED BY <3>1, <3>2, <4>1, <4>4 DEF CalmBuffer
    <3>3. CASE k \notin DOMAIN buffer[q]
      <4>1. q = p /\ k = last /\ buffer'[q] = more /\ buffer'[q][k] = x
        BY <1>b, <1>e, <1>k, <3>3
      <4>2. Joined(buffer[q][k], q)'
        BY <1>e, <1>f, <1>p, <1>x, <4>1 DEF Joined, Partit, Offset
      <4>3. ASSUME NEW d \in Consumer, hand[d] # NoRecord PROVE Before(hand[d], x)
        <5>1. hand[d] \in Records /\ Joined(hand[d], home[d])
          BY <4>3, Earlier DEF IInv, Calm, CalmHand
        <5>2. CASE home[d] = p
          BY <1>c, <5>1, <5>2
        <5>3. CASE home[d] # p
          BY <1>p, <1>x, <5>1, <5>3 DEF Joined, Before
        <5> QED BY <5>2, <5>3
      <4>4. \A j \in DOMAIN b : Before(b[j], x)
        BY <1>b, <1>c, <3>1, <4>1, Earlier DEF IInv, CalmBuffer
      <4>5. \A j \in 1 .. (k - 1) : Before(more[j], x)
        BY <1>k, <4>1, <4>4
      <4>6. committed[v] < n
        <5>1. committed[v] <= position[v]
          BY <1>p DEF IInv, Calm
        <5> QED BY <1>e, <1>n, <5>1 DEF IInv, TypeOK
      <4> QED BY <1>x, <4>1, <4>2, <4>3, <4>5, <4>6
    <3> QED BY <3>2, <3>3
  <2>3. \A q \in Process : closing[q] = "open" => CalmBuffer(q)'
    BY <1>f, <1>s, <2>2, SetupFixed DEF CalmBuffer, Before, Partit, Offset
  <2>4. ASSUME NEW t \in Partition, owner[t] # Nobody PROVE committed[t] <= position'[t]
    <3>1. committed[t] <= position[t] /\ committed[t] \in Nat
      BY <2>4 DEF IInv, Calm, TypeOK
    <3> QED BY <1>e, <3>1
  <2> QED BY <2>1, <2>3, <2>4
<1>11. SettledIsBehind'
  <2> SUFFICES ASSUME used.troubles = 0, OneLoopEach \/ NobodyLeft, NEW s \in acked \union copied
               PROVE  Behind(s)'
    BY <1>f, <1>s, SetupFixed DEF SettledIsBehind, NobodyLeft
  <2>1. Behind(s) /\ Partit(s) \in Partition /\ Offset(s) \in Nat
    BY RecordFacts DEF IInv, SettledIsBehind, TypeOK
  <2>2. x # s
    <3>1. Partit(s) = v => Offset(s) <= position[v]
      BY <1>p, <2>1 DEF Behind
    <3>2. position[v] \in Nat
      BY <1>e
    <3>3. ASSUME x = s PROVE FALSE
      <4>1. n <= position[v]
        BY <1>x, <3>1, <3>3
      <4> QED BY <1>n, <3>2, <4>1
    <3> QED BY <3>3
  <2>3. \A q \in Process : closing[q] = "open" => \A k \in DOMAIN buffer'[q] : buffer'[q][k] # s
    <3>1. \A q \in Process : closing[q] = "open" => \A k \in DOMAIN buffer[q] : buffer[q][k] # s
      BY <2>1 DEF Behind
    <3>2. closing[p] = "open" => \A k \in DOMAIN more : more[k] # s
      BY <1>b, <1>k, <2>2, <3>1
    <3> QED BY <1>e, <3>1, <3>2
  <2>4. IF owner[Partit(s)] = Nobody THEN Offset(s) <= committed[Partit(s)]
                                     ELSE Offset(s) <= position'[Partit(s)]
    <3>1. position[Partit(s)] <= position'[Partit(s)] /\ position[Partit(s)] \in Nat
          /\ position'[Partit(s)] \in Nat
      BY <1>e, <2>1
    <3> QED BY <2>1, <3>1 DEF Behind
  <2>5. \A d \in Consumer : pc'[d] = "handle" => hand[d] # s
    BY <1>w, <2>1 DEF Behind
  <2> QED BY <1>f, <1>s, <2>1, <2>3, <2>4, <2>5, SetupFixed DEF Behind, Partit, Offset
<1> QED BY <1>1, <1>2, <1>3, <1>4, <1>5, <1>6, <1>7, <1>8, <1>10, <1>11 DEF IInv

-----------------------------------------------------------------------------
(* All steps                                                               *)

LEMMA PublishIInv ==
  ASSUME IInv, NEW c \in Consumer, Publish(c)
  PROVE  IInv'
<1>1. CASE /\ \E u \in Partition : Append1(u, Content(hand[c]))
           /\ copied' = copied \union {hand[c]} /\ Goto(c, "commit")
           /\ UNCHANGED <<owner, member, buffer, inFlight, hand, used>>
  BY <1>1, PublishedIInv DEF Publish
<1>2. CASE /\ Spend("troubles", setup.maxTroubles)
           /\ UNCHANGED log \/ \E u \in Partition : Append1(u, Content(hand[c]))
           /\ Die(home[c]) /\ UNCHANGED copied
  BY <1>2, PublishFailsIInv DEF Publish
<1> QED BY <1>1, <1>2 DEF Publish

LEMMA CommitIInv ==
  ASSUME IInv, NEW c \in Consumer, Commit(c)
  PROVE  IInv'
<1>1. CASE /\ CommitPast(hand[c]) /\ Goto(c, "loop") /\ hand' = [hand EXCEPT ![c] = NoRecord]
           /\ UNCHANGED <<owner, member, buffer, inFlight, used>>
  BY <1>1, CommittedIInv DEF Commit, historyVars
<1>2. CASE /\ \/ owner[Partit(hand[c])] # home[c] /\ UNCHANGED <<committed, used>>
              \/ /\ Spend("troubles", setup.maxTroubles)
                 /\ CommitPast(hand[c]) \/ UNCHANGED committed
           /\ Die(home[c])
  BY <1>2, CommitFailsIInv DEF Commit, historyVars
<1> QED BY <1>1, <1>2 DEF Commit

LEMMA StutterIInv ==
  ASSUME IInv, UNCHANGED vars
  PROVE  IInv'
<1>1. UNCHANGED <<setup, log, committed, owner, position, member, buffer, inFlight,
                  closing, pc, hand, aborted, used, acked, copied>>
  BY DEF vars, brokerVars, loopVars, historyVars
<1>2. UNCHANGED <<brokerVars, buffer, hand, historyVars>>
  BY <1>1 DEF brokerVars, historyVars
<1>3. Records' = Records
  BY <1>1 DEF Records
<1>4. TypeOK'
  BY <1>1, <1>3 DEF IInv, TypeOK
<1>5. Hands' /\ Registry'
  BY <1>1, SetupFixed DEF IInv, Hands, HandFits, Holds, Content, Partit, Offset, Registry,
                          Settleable, Orderly
<1>6. used.troubles = 0 => \A c \in Consumer : pc'[c] # "crashed"
  BY <1>1 DEF IInv, Calm, CalmHand
<1>7. NobodyLeft' => NobodyLeft
  BY <1>1 DEF NobodyLeft
<1> QED BY <1>1, <1>2, <1>4, <1>5, <1>6, <1>7, Quiet

LEMMA InitIInv == Init => IInv
<1> SUFFICES ASSUME Init PROVE IInv
  OBVIOUS
<1>1. Records = {}
  <2>1. \A t \in Partition : DOMAIN log[t] = {}
    BY DEF Init
  <2> QED BY <2>1 DEF Records
<1>2. /\ setup \in Setups /\ log = [t \in Partition |-> <<>>]
      /\ \A t \in Partition : log[t] = <<>> /\ Len(log[t]) = 0
      /\ committed = [t \in Partition |-> 0] /\ position = [t \in Partition |-> 0]
      /\ owner = [t \in Partition |-> Nobody]
      /\ member = [p \in Process |-> "none"] /\ buffer = [p \in Process |-> <<>>]
      /\ inFlight = [p \in Process |-> {}]
      /\ closing = [p \in Process |-> "open"] /\ pc = [c \in Consumer |-> "start"]
      /\ hand = [c \in Consumer |-> NoRecord] /\ aborted = [c \in Consumer |-> FALSE]
      /\ used = [b \in {"rejects", "troubles"} |-> 0] /\ acked = {} /\ copied = {}
  BY DEF Init
<1>3. TypeOK
  <2>1. /\ log \in [Partition -> Seq(Message)] /\ buffer \in [Process -> Seq(Record)]
        /\ inFlight \in [Process -> SUBSET Record]
    BY <1>2
  <2>2. /\ committed \in [Partition -> Nat] /\ position \in [Partition -> Nat]
        /\ \A t \in Partition : committed[t] <= Len(log[t]) /\ position[t] <= Len(log[t])
    BY <1>2
  <2>3. /\ owner \in [Partition -> Process \union {Nobody}]
        /\ member \in [Process -> {"none", "connect", "subscribe", "joined", "left"}]
        /\ closing \in [Process -> {"open", "draining", "flushing", "closed"}]
    BY <1>2
  <2>4. /\ pc \in [Consumer -> {"start", "loop", "asleep", "discard", "handle", "publish",
                                "commit", "returned", "crashed"}]
        /\ hand \in [Consumer -> Records \union {NoRecord}]
        /\ aborted \in [Consumer -> BOOLEAN] /\ used \in [{"rejects", "troubles"} -> Nat]
    BY <1>2
  <2> QED BY <1>2, <2>1, <2>2, <2>3, <2>4 DEF TypeOK
<1>4. home \in [Consumer -> Process]
  BY <1>3, Deployment
<1>5. \A p \in Process : DOMAIN buffer[p] = {}
  <2>1. \A p \in Process : buffer[p] = <<>>
    BY <1>2
  <2>2. DOMAIN <<>> = {}
    OBVIOUS
  <2> QED BY <2>1, <2>2
<1>6. BufferedIsLogged /\ Hands /\ Registry
  BY <1>2, <1>4, <1>5 DEF BufferedIsLogged, Hands, HandFits, Holds, Registry
<1>7. Traced
  BY <1>1 DEF Traced, Sent
<1>8. CommittedIsSettled /\ HandsFollow /\ BuffersFollow /\ PositionsFollow
  BY <1>2, <1>5 DEF CommittedIsSettled, HandsFollow, BuffersFollow, PositionsFollow
<1>9. Calm /\ SettledIsBehind
  BY <1>2, <1>5 DEF Calm, CalmHand, CalmBuffer, SettledIsBehind
<1> QED BY <1>3, <1>6, <1>7, <1>8, <1>9 DEF IInv

LEMMA NextIInv == IInv /\ [Next]_vars => IInv'
<1> SUFFICES ASSUME IInv, [Next]_vars PROVE IInv'
  OBVIOUS
<1>1. CASE \E m \in Message : Send(m)
  BY <1>1, SendIInv
<1>2. CASE \E t \in Partition : Assign(t) \/ Rebalance(t) \/ Push(t)
  BY <1>2, AssignIInv, RebalanceIInv, PushIInv
<1>3. CASE \E p \in Process : Starting(p) \/ StartFails(p)
  BY <1>3, StartConsumerIInv, ConnectedIInv, SubscribedIInv, StartFailsIInv DEF Starting
<1>4. CASE \E c \in Consumer : Looping(c)
  BY <1>4, EnterIInv, TakeIInv, SleepIInv, ReturnIInv DEF Looping
<1>5. CASE \E c \in Consumer : Settling(c)
  BY <1>5, AckIInv, RejectIInv, SettleAgainIInv, PublishIInv, CommitIInv DEF Settling
<1>6. CASE \E c \in Consumer : Abort(c)
  BY <1>6, AbortIInv
<1>7. CASE \E p \in Process : Close(p) \/ Disconnect(p) \/ Crash(p) \/ Restart(p)
  BY <1>7, CloseIInv, DisconnectIInv, CrashIInv, RestartIInv
<1>8. CASE UNCHANGED vars
  BY <1>8, StutterIInv
<1> QED BY <1>1, <1>2, <1>3, <1>4, <1>5, <1>6, <1>7, <1>8 DEF Next

LEMMA Invariance == Spec => []IInv
BY InitIInv, NextIInv, PTL DEF Spec

-----------------------------------------------------------------------------
(* The theorems                                                            *)

(* Every variable keeps its type; in particular, the committed offset and  *)
(* the position of a partition never run past its log.                     *)
THEOREM TypeCorrect == Spec => []TypeOK
<1>1. IInv => TypeOK
  BY DEF IInv
<1> QED BY <1>1, Invariance, PTL

(* At least once: a message that is on the topic and is not acknowledged   *)
(* has a record the committed offset has not passed, or, where loops share *)
(* an instance and nothing went wrong, one that a loop has in hand: its    *)
(* record that was not copied is not settled, and whatever is committed is.*)
THEOREM NothingLost == Spec => []NoLoss
<1>1. IInv => NoLoss
  <2> SUFFICES ASSUME IInv, Orderly, NEW m \in Sent \ Done
               PROVE  \/ \E r \in Records : Content(r) = m /\ Ahead(r)
                      \/ ~OneLoopEach /\ \E c \in Consumer : hand[c] # NoRecord /\ Content(hand[c]) = m
    BY DEF NoLoss, Orderly
  <2>1. PICK r \in Records \ copied : Content(r) = m
    BY DEF IInv, Traced
  <2>2. ~Settled(r)
    BY <2>1 DEF Settled, Sent, Done
  <2>3. /\ r = <<Partit(r), Offset(r)>> /\ Partit(r) \in Partition /\ r # NoRecord
        /\ Offset(r) \in Nat \ {0}
    BY <2>1, RecordFacts DEF IInv, TypeOK
  <2>4. CASE Ahead(r)
    BY <2>1, <2>4
  <2>5. CASE ~Ahead(r)
    <3>1. Offset(r) \in 1 .. committed[Partit(r)]
      BY <2>3, <2>5 DEF Ahead, IInv, TypeOK
    <3>2. ~OneLoopEach /\ \E c \in Consumer : hand[c] = r
      BY <2>2, <2>3, <3>1 DEF IInv, CommittedIsSettled
    <3> QED BY <2>1, <2>3, <3>2
  <2> QED BY <2>4, <2>5
<1> QED BY <1>1, Invariance, PTL

(* While no member loses a partition but by close(), no record is handled  *)
(* by two loops; nor is one handled after it was settled, with one loop to *)
(* an instance or until a member leaves.                                   *)
THEOREM NotHandledAgain == Spec => []NotHandledTwice
<1>1. IInv => NotHandledTwice
  <2> SUFFICES ASSUME IInv, used.troubles = 0, NEW c \in Consumer, pc[c] = "handle"
               PROVE  /\ OneLoopEach \/ NobodyLeft => hand[c] \notin acked \union copied
                      /\ \A d \in Consumer : pc[d] = "handle" /\ hand[d] = hand[c] => c = d
    BY DEF NotHandledTwice
  <2>1. hand[c] # NoRecord /\ CalmHand(c)
    BY DEF IInv, Hands, HandFits, Holds, Calm
  <2>2. \A d \in Consumer : hand[d] = hand[c] => c = d
    BY <2>1 DEF CalmHand
  <2>3. OneLoopEach \/ NobodyLeft => \A r \in acked \union copied : hand[c] # r
    BY DEF IInv, SettledIsBehind, Behind
  <2> QED BY <2>2, <2>3
<1> QED BY <1>1, Invariance, PTL
=============================================================================
