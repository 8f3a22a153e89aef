------------------------- MODULE SqlTransport_proofs -------------------------
(***************************************************************************)
(* Theorems about SqlTransport, for every deployment: any number of        *)
(* processes, loops and messages, with LISTEN/NOTIFY or polling, and any   *)
(* bound on rejections and troubles.                                       *)
(*                                                                         *)
(* What is in a loop's hand was read from the table and may be out of date:*)
(* the row may have expired, been claimed by another loop, and be gone.    *)
(* RowFacts says what is true of it all the same, because ids are never    *)
(* used twice.  CloseFacts follows close() through its phases.             *)
(***************************************************************************)
EXTENDS SqlTransport, TLAPS

(* Loops of the deployment run, the others do not; whoever handles or      *)
(* settles has a row; a process crashes with all of its loops.             *)
Places ==
  /\ \A c \in Consumer \ setup.loops : pc[c] = "returned"
  /\ \A c \in Consumer :
       pc[c] \in {"handle", "discard", "delete", "redeliver"} => hand[c] # NoRow
  /\ \A c, d \in setup.loops : home[c] = home[d] /\ pc[c] = "crashed" => pc[d] = "crashed"

(* Ids are unique and below the identity column; a row in hand that is     *)
(* still in the table is the same message there.                           *)
RowFacts ==
  /\ \A r, s \in rows : r.id = s.id => r = s
  /\ \A r \in rows : r.id < nextId
  /\ \A c \in Consumer :
       hand[c] # NoRow =>
         /\ hand[c].id < nextId
         /\ \A r \in rows : r.id = hand[c].id => r.msg = hand[c].msg

(* What is about to be deleted was acknowledged.                           *)
DeletedIsDone == \A c \in Consumer : pc[c] = "delete" => hand[c].msg \in done

(* Unless a row expired under its consumer, a row in hand that is still in *)
(* the table is claimed there, and nobody else has it.                     *)
Exclusive ==
  used["slow"] = 0 =>
    \A c \in Consumer :
      hand[c] # NoRow =>
        /\ \A r \in rows : r.id = hand[c].id => r.held
        /\ \A d \in Consumer : hand[d] # NoRow /\ hand[d].id = hand[c].id => d = c

Past  == {"listener", "pool", "closed"}

(* From the moment close() stops waiting for deliveries only late ones are *)
(* handled; it waits for the settlements it found under way; after that    *)
(* only late ones are settled.                                             *)
CloseFacts ==
  \A c \in setup.loops :
    /\ closing[home[c]] \in Past \union {"flushing"} /\ pc[c] = "handle" => c \in late
    /\ closing[home[c]] = "flushing" /\ pc[c] \in {"delete", "redeliver"}
         => c \in late \/ c \in awaited[home[c]]
    /\ closing[home[c]] \in Past /\ pc[c] \in {"delete", "redeliver"} => c \in late

IInv ==
  /\ TypeOK
  /\ Places
  /\ RowFacts
  /\ NoLoss
  /\ DeletedIsDone
  /\ Exclusive
  /\ CloseFacts

-----------------------------------------------------------------------------
(* The invariant holds initially.                                          *)
LEMMA InitIInv == Init => IInv
<1> SUFFICES ASSUME Init PROVE IInv
  OBVIOUS
<1>1. TypeOK
  BY DEF Init, TypeOK
<1>2. Places
  BY SetupsAssumption DEF Init, Places, home
<1>3. RowFacts /\ NoLoss /\ DeletedIsDone /\ Exclusive
  BY DEF Init, RowFacts, NoLoss, DeletedIsDone, Exclusive
<1>4. CloseFacts
  BY SetupsAssumption DEF Init, CloseFacts, Past, home
<1> QED BY <1>1, <1>2, <1>3, <1>4 DEF IInv

(* A step that leaves the table alone, and gives nobody a row, only has to *)
(* respect the types, the places and the phases of close().                *)
LEMMA QuietIInv ==
  ASSUME IInv, TypeOK', Places', CloseFacts',
         UNCHANGED <<tableVars, sent>>,
         done \subseteq done',
         used'["slow"] = 0 => used["slow"] = 0,
         \A c \in Consumer : hand'[c] = hand[c] \/ hand'[c] = NoRow,
         \A c \in Consumer : pc'[c] = "delete" => hand'[c].msg \in done'
  PROVE  IInv'
<1>1. RowFacts'
  BY DEF IInv, RowFacts, tableVars
<1>2. NoLoss' /\ DeletedIsDone'
  BY DEF IInv, NoLoss, DeletedIsDone, tableVars
<1>3. Exclusive'
  BY DEF IInv, Exclusive, tableVars
<1> QED BY <1>1, <1>2, <1>3 DEF IInv


LEMMA PollIInv ==
  ASSUME IInv, NEW c \in Consumer, Poll(c)
  PROVE  IInv'
<1> USE DEF IInv, Poll, Goto, GoWith, ShouldStop, historyVars, tableVars, driverVars,
            Statements, Pending, Waiting, At
<1>1. TypeOK'
  BY SetupsAssumption DEF TypeOK, home
<1>2. Places'
  BY SetupsAssumption DEF TypeOK, Places, home
<1>3. CloseFacts'
  BY SetupsAssumption DEF TypeOK, Places, CloseFacts, Past, home
<1>4. \A e \in Consumer : hand'[e] = hand[e] \/ hand'[e] = NoRow
  BY DEF TypeOK
<1>5. \A e \in Consumer : pc'[e] = "delete" => hand'[e].msg \in done'
  BY DEF TypeOK, DeletedIsDone
<1>6. used'["slow"] = 0 => used["slow"] = 0
  BY DEF TypeOK
<1> QED BY <1>1, <1>2, <1>3, <1>4, <1>5, <1>6, QuietIInv

LEMMA SchemaDoneIInv ==
  ASSUME IInv, NEW p \in Process, SchemaDone(p)
  PROVE  IInv'
<1> USE DEF IInv, SchemaDone, SendTo, SettingUp, historyVars, tableVars, driverVars,
            Statements, Pending, Waiting, At
<1>1. TypeOK'
  BY SetupsAssumption DEF TypeOK, home
<1>2. Places'
  BY SetupsAssumption DEF TypeOK, Places, home
<1>3. CloseFacts'
  BY SetupsAssumption DEF TypeOK, Places, CloseFacts, Past, home
<1>4. \A e \in Consumer : hand'[e] = hand[e] \/ hand'[e] = NoRow
  BY DEF TypeOK
<1>5. \A e \in Consumer : pc'[e] = "delete" => hand'[e].msg \in done'
  BY DEF TypeOK, DeletedIsDone
<1>6. used'["slow"] = 0 => used["slow"] = 0
  BY DEF TypeOK
<1> QED BY <1>1, <1>2, <1>3, <1>4, <1>5, <1>6, QuietIInv

LEMMA SchemaFailsIInv ==
  ASSUME IInv, NEW p \in Process, SchemaFails(p)
  PROVE  IInv'
<1> USE DEF IInv, SchemaFails, SendTo, SettingUp, Trouble, Spend, historyVars, tableVars,
            driverVars, Statements, Pending, Waiting, At
<1>1. TypeOK'
  BY SetupsAssumption DEF TypeOK, home
<1>2. Places'
  BY SetupsAssumption DEF TypeOK, Places, home
<1>3. CloseFacts'
  BY SetupsAssumption DEF TypeOK, Places, CloseFacts, Past, home
<1>4. \A e \in Consumer : hand'[e] = hand[e] \/ hand'[e] = NoRow
  BY DEF TypeOK
<1>5. \A e \in Consumer : pc'[e] = "delete" => hand'[e].msg \in done'
  BY DEF TypeOK, DeletedIsDone
<1>6. used'["slow"] = 0 => used["slow"] = 0
  BY DEF TypeOK
<1> QED BY <1>1, <1>2, <1>3, <1>4, <1>5, <1>6, QuietIInv

LEMMA YieldIInv ==
  ASSUME IInv, NEW c \in Consumer, Yield(c)
  PROVE  IInv'
<1> USE DEF IInv, Yield, Goto, GoWith, Resolved, historyVars, tableVars, driverVars,
            Statements, Pending, Waiting, At
<1>1. TypeOK'
  BY SetupsAssumption DEF TypeOK, home
<1>2. Places'
  BY SetupsAssumption DEF TypeOK, Places, home
<1>3. CloseFacts'
  BY SetupsAssumption DEF TypeOK, Places, CloseFacts, Past, home
<1>4. \A e \in Consumer : hand'[e] = hand[e] \/ hand'[e] = NoRow
  BY DEF TypeOK
<1>5. \A e \in Consumer : pc'[e] = "delete" => hand'[e].msg \in done'
  BY DEF TypeOK, DeletedIsDone
<1>6. used'["slow"] = 0 => used["slow"] = 0
  BY DEF TypeOK
<1> QED BY <1>1, <1>2, <1>3, <1>4, <1>5, <1>6, QuietIInv

LEMMA LoopFailsIInv ==
  ASSUME IInv, NEW c \in Consumer, LoopFails(c)
  PROVE  IInv'
<1> USE DEF IInv, LoopFails, GoWith, Resolved, Trouble, Spend, historyVars, tableVars,
            driverVars, Statements, Pending, Waiting, At
<1>1. TypeOK'
  BY SetupsAssumption DEF TypeOK, home
<1>2. Places'
  BY SetupsAssumption DEF TypeOK, Places, home
<1>3. CloseFacts'
  BY SetupsAssumption DEF TypeOK, Places, CloseFacts, Past, home
<1>4. \A e \in Consumer : hand'[e] = hand[e] \/ hand'[e] = NoRow
  BY DEF TypeOK
<1>5. \A e \in Consumer : pc'[e] = "delete" => hand'[e].msg \in done'
  BY DEF TypeOK, DeletedIsDone
<1>6. used'["slow"] = 0 => used["slow"] = 0
  BY DEF TypeOK
<1> QED BY <1>1, <1>2, <1>3, <1>4, <1>5, <1>6, QuietIInv

LEMMA ReturnIInv ==
  ASSUME IInv, NEW c \in Consumer, Return(c)
  PROVE  IInv'
<1> USE DEF IInv, Return, Goto, GoWith, historyVars, tableVars, driverVars, Statements,
            Pending, Waiting, At
<1>1. TypeOK'
  BY SetupsAssumption DEF TypeOK, home
<1>2. Places'
  BY SetupsAssumption DEF TypeOK, Places, home
<1>3. CloseFacts'
  BY SetupsAssumption DEF TypeOK, Places, CloseFacts, Past, home
<1>4. \A e \in Consumer : hand'[e] = hand[e] \/ hand'[e] = NoRow
  BY DEF TypeOK
<1>5. \A e \in Consumer : pc'[e] = "delete" => hand'[e].msg \in done'
  BY DEF TypeOK, DeletedIsDone
<1>6. used'["slow"] = 0 => used["slow"] = 0
  BY DEF TypeOK
<1> QED BY <1>1, <1>2, <1>3, <1>4, <1>5, <1>6, QuietIInv

LEMMA RerunIInv ==
  ASSUME IInv, NEW c \in Consumer, Rerun(c)
  PROVE  IInv'
<1> USE DEF IInv, Rerun, Goto, GoWith, historyVars, tableVars, driverVars, Statements,
            Pending, Waiting, At
<1>1. TypeOK'
  BY SetupsAssumption DEF TypeOK, home
<1>2. Places'
  BY SetupsAssumption DEF TypeOK, Places, home
<1>3. CloseFacts'
  BY SetupsAssumption DEF TypeOK, Places, CloseFacts, Past, home
<1>4. \A e \in Consumer : hand'[e] = hand[e] \/ hand'[e] = NoRow
  BY DEF TypeOK
<1>5. \A e \in Consumer : pc'[e] = "delete" => hand'[e].msg \in done'
  BY DEF TypeOK, DeletedIsDone
<1>6. used'["slow"] = 0 => used["slow"] = 0
  BY DEF TypeOK
<1> QED BY <1>1, <1>2, <1>3, <1>4, <1>5, <1>6, QuietIInv

LEMMA WaitIInv ==
  ASSUME IInv, NEW c \in Consumer, Wait(c)
  PROVE  IInv'
<1> USE DEF IInv, Wait, Goto, GoWith, Resolved, PoolEnded, historyVars, tableVars,
            driverVars, Statements, Pending, Waiting, At
<1>a. hand' = hand /\ hand[c] = NoRow /\ home[c] \in Process
  BY SetupsAssumption DEF TypeOK, home
<1>b. PICK l \in {"loop", "polling", "listen", "waiting", "peek"} : pc' = [pc EXCEPT ![c] = l]
  OBVIOUS
<1>c. listener' = listener \/ listener' = [listener EXCEPT ![home[c]] = "connecting"]
  OBVIOUS
<1>1. TypeOK'
  BY <1>a, <1>b, <1>c DEF TypeOK
<1>2. Places'
  BY SetupsAssumption DEF TypeOK, Places, home
<1>3. CloseFacts'
  BY SetupsAssumption DEF TypeOK, Places, CloseFacts, Past, home
<1>4. \A e \in Consumer : hand'[e] = hand[e] \/ hand'[e] = NoRow
  BY DEF TypeOK
<1>5. \A e \in Consumer : pc'[e] = "delete" => hand'[e].msg \in done'
  BY DEF TypeOK, DeletedIsDone
<1>6. used'["slow"] = 0 => used["slow"] = 0
  BY DEF TypeOK
<1> QED BY <1>1, <1>2, <1>3, <1>4, <1>5, <1>6, QuietIInv

LEMMA ListenerUpIInv ==
  ASSUME IInv, NEW p \in Process, ListenerUp(p)
  PROVE  IInv'
<1> USE DEF IInv, ListenerUp, SendTo, Listening, PoolEnded, historyVars, tableVars,
            driverVars, Statements, Pending, Waiting, At
<1>1. TypeOK'
  BY SetupsAssumption DEF TypeOK, home
<1>2. Places'
  BY SetupsAssumption DEF TypeOK, Places, home
<1>3. CloseFacts'
  BY SetupsAssumption DEF TypeOK, Places, CloseFacts, Past, home
<1>4. \A e \in Consumer : hand'[e] = hand[e] \/ hand'[e] = NoRow
  BY DEF TypeOK
<1>5. \A e \in Consumer : pc'[e] = "delete" => hand'[e].msg \in done'
  BY DEF TypeOK, DeletedIsDone
<1>6. used'["slow"] = 0 => used["slow"] = 0
  BY DEF TypeOK
<1> QED BY <1>1, <1>2, <1>3, <1>4, <1>5, <1>6, QuietIInv

LEMMA ListenerFailsIInv ==
  ASSUME IInv, NEW p \in Process, ListenerFails(p)
  PROVE  IInv'
<1> USE DEF IInv, ListenerFails, SendTo, Listening, Trouble, Spend, historyVars, tableVars,
            driverVars, Statements, Pending, Waiting, At
<1>1. TypeOK'
  BY SetupsAssumption DEF TypeOK, home
<1>2. Places'
  BY SetupsAssumption DEF TypeOK, Places, home
<1>3. CloseFacts'
  BY SetupsAssumption DEF TypeOK, Places, CloseFacts, Past, home
<1>4. \A e \in Consumer : hand'[e] = hand[e] \/ hand'[e] = NoRow
  BY DEF TypeOK
<1>5. \A e \in Consumer : pc'[e] = "delete" => hand'[e].msg \in done'
  BY DEF TypeOK, DeletedIsDone
<1>6. used'["slow"] = 0 => used["slow"] = 0
  BY DEF TypeOK
<1> QED BY <1>1, <1>2, <1>3, <1>4, <1>5, <1>6, QuietIInv

LEMMA ListenerDiesIInv ==
  ASSUME IInv, NEW p \in Process, ListenerDies(p)
  PROVE  IInv'
<1> USE DEF IInv, ListenerDies, SendTo, Waiters, Trouble, Spend, historyVars, tableVars,
            driverVars, Statements, Pending, Waiting, At
<1>1. TypeOK'
  BY SetupsAssumption DEF TypeOK, home
<1>2. Places'
  BY SetupsAssumption DEF TypeOK, Places, home
<1>3. CloseFacts'
  BY SetupsAssumption DEF TypeOK, Places, CloseFacts, Past, home
<1>4. \A e \in Consumer : hand'[e] = hand[e] \/ hand'[e] = NoRow
  BY DEF TypeOK
<1>5. \A e \in Consumer : pc'[e] = "delete" => hand'[e].msg \in done'
  BY DEF TypeOK, DeletedIsDone
<1>6. used'["slow"] = 0 => used["slow"] = 0
  BY DEF TypeOK
<1> QED BY <1>1, <1>2, <1>3, <1>4, <1>5, <1>6, QuietIInv

LEMMA NotificationIInv ==
  ASSUME IInv, NEW p \in Process, Notification(p)
  PROVE  IInv'
<1> USE DEF IInv, Notification, SendTo, Waiters, historyVars, tableVars, driverVars,
            Statements, Pending, Waiting, At
<1>1. TypeOK'
  BY SetupsAssumption DEF TypeOK, home
<1>2. Places'
  BY SetupsAssumption DEF TypeOK, Places, home
<1>3. CloseFacts'
  BY SetupsAssumption DEF TypeOK, Places, CloseFacts, Past, home
<1>4. \A e \in Consumer : hand'[e] = hand[e] \/ hand'[e] = NoRow
  BY DEF TypeOK
<1>5. \A e \in Consumer : pc'[e] = "delete" => hand'[e].msg \in done'
  BY DEF TypeOK, DeletedIsDone
<1>6. used'["slow"] = 0 => used["slow"] = 0
  BY DEF TypeOK
<1> QED BY <1>1, <1>2, <1>3, <1>4, <1>5, <1>6, QuietIInv

LEMMA PeekIInv ==
  ASSUME IInv, NEW c \in Consumer, Peek(c)
  PROVE  IInv'
<1> USE DEF IInv, Peek, Goto, GoWith, historyVars, tableVars, driverVars, Statements,
            Pending, Waiting, At
<1>1. TypeOK'
  BY SetupsAssumption DEF TypeOK, home
<1>2. Places'
  BY SetupsAssumption DEF TypeOK, Places, home
<1>3. CloseFacts'
  BY SetupsAssumption DEF TypeOK, Places, CloseFacts, Past, home
<1>4. \A e \in Consumer : hand'[e] = hand[e] \/ hand'[e] = NoRow
  BY DEF TypeOK
<1>5. \A e \in Consumer : pc'[e] = "delete" => hand'[e].msg \in done'
  BY DEF TypeOK, DeletedIsDone
<1>6. used'["slow"] = 0 => used["slow"] = 0
  BY DEF TypeOK
<1> QED BY <1>1, <1>2, <1>3, <1>4, <1>5, <1>6, QuietIInv

LEMMA RegisterIInv ==
  ASSUME IInv, NEW c \in Consumer, Register(c)
  PROVE  IInv'
<1> USE DEF IInv, Register, Goto, GoWith, historyVars, tableVars, driverVars, Statements,
            Pending, Waiting, At
<1>1. TypeOK'
  BY SetupsAssumption DEF TypeOK, home
<1>2. Places'
  BY SetupsAssumption DEF TypeOK, Places, home
<1>3. CloseFacts'
  BY SetupsAssumption DEF TypeOK, Places, CloseFacts, Past, home
<1>4. \A e \in Consumer : hand'[e] = hand[e] \/ hand'[e] = NoRow
  BY DEF TypeOK
<1>5. \A e \in Consumer : pc'[e] = "delete" => hand'[e].msg \in done'
  BY DEF TypeOK, DeletedIsDone
<1>6. used'["slow"] = 0 => used["slow"] = 0
  BY DEF TypeOK
<1> QED BY <1>1, <1>2, <1>3, <1>4, <1>5, <1>6, QuietIInv

LEMMA TimerIInv ==
  ASSUME IInv, NEW c \in Consumer, Timer(c)
  PROVE  IInv'
<1> USE DEF IInv, Timer, Goto, GoWith, historyVars, tableVars, driverVars, Statements,
            Pending, Waiting, At
<1>1. TypeOK'
  BY SetupsAssumption DEF TypeOK, home
<1>2. Places'
  BY SetupsAssumption DEF TypeOK, Places, home
<1>3. CloseFacts'
  BY SetupsAssumption DEF TypeOK, Places, CloseFacts, Past, home
<1>4. \A e \in Consumer : hand'[e] = hand[e] \/ hand'[e] = NoRow
  BY DEF TypeOK
<1>5. \A e \in Consumer : pc'[e] = "delete" => hand'[e].msg \in done'
  BY DEF TypeOK, DeletedIsDone
<1>6. used'["slow"] = 0 => used["slow"] = 0
  BY DEF TypeOK
<1> QED BY <1>1, <1>2, <1>3, <1>4, <1>5, <1>6, QuietIInv

LEMMA AbortIInv ==
  ASSUME IInv, NEW c \in Consumer, Abort(c)
  PROVE  IInv'
<1> USE DEF IInv, Abort, historyVars, tableVars, driverVars, Statements, Pending, Waiting, At
<1>1. TypeOK'
  BY SetupsAssumption DEF TypeOK, home
<1>2. Places'
  BY SetupsAssumption DEF TypeOK, Places, home
<1>3. CloseFacts'
  BY SetupsAssumption DEF TypeOK, Places, CloseFacts, Past, home
<1>4. \A e \in Consumer : hand'[e] = hand[e] \/ hand'[e] = NoRow
  BY DEF TypeOK
<1>5. \A e \in Consumer : pc'[e] = "delete" => hand'[e].msg \in done'
  BY DEF TypeOK, DeletedIsDone
<1>6. used'["slow"] = 0 => used["slow"] = 0
  BY DEF TypeOK
<1> QED BY <1>1, <1>2, <1>3, <1>4, <1>5, <1>6, QuietIInv

LEMMA AckIInv ==
  ASSUME IInv, NEW c \in Consumer, Ack(c)
  PROVE  IInv'
<1> USE DEF IInv, Ack, Settle, Goto, GoWith, Release, PoolEnded, InFlight, Calling,
            historyVars, tableVars, driverVars, Statements, Pending, Waiting, At
<1>a. home[c] \in Process
  BY SetupsAssumption DEF TypeOK, home
<1>b. \/ pc' = [pc EXCEPT ![c] = "threw"] /\ hand' = [hand EXCEPT ![c] = NoRow]
      \/ pc' = [pc EXCEPT ![c] = "delete"] /\ hand' = hand
  BY DEF TypeOK
<1>c. \E S \in SUBSET Consumer, k \in {"flushing", closing[home[c]]} :
        closing' = [closing EXCEPT ![home[c]] = k] /\ awaited' = [awaited EXCEPT ![home[c]] = S]
  <2>1. Calling(home[c]) \union {c} \subseteq Consumer /\ awaited[home[c]] \subseteq Consumer
    BY <1>a, SetupsAssumption DEF TypeOK
  <2> QED BY <2>1
<1>d. done' \subseteq Message /\ used' \in [{"rejects", "troubles", "slow"} -> Nat]
  BY DEF TypeOK, Places
<1>e. \A e \in Consumer : hand'[e] # NoRow => pc'[e] \in Statements \union {"handle"}
  BY <1>b DEF TypeOK
<1>f. /\ pc' \in [Consumer -> {"loop", "handle", "listen", "peek", "sawSome", "sawNone", "polling",
                               "returned", "threw", "crashed"}
                                \union Pending \union Waiting]
      /\ hand' \in [Consumer -> [id : Nat, msg : Message] \union {NoRow}]
  BY <1>b DEF TypeOK
<1>1. TypeOK'
  BY <1>a, <1>c, <1>d, <1>e, <1>f DEF TypeOK
<1>2. Places'
  BY SetupsAssumption DEF TypeOK, Places, home
<1>3. CloseFacts'
  BY SetupsAssumption DEF TypeOK, Places, CloseFacts, Past, home
<1>4. \A e \in Consumer : hand'[e] = hand[e] \/ hand'[e] = NoRow
  BY DEF TypeOK
<1>5. \A e \in Consumer : pc'[e] = "delete" => hand'[e].msg \in done'
  BY DEF TypeOK, DeletedIsDone
<1>6. used'["slow"] = 0 => used["slow"] = 0
  BY DEF TypeOK
<1> QED BY <1>1, <1>2, <1>3, <1>4, <1>5, <1>6, QuietIInv

LEMMA RejectIInv ==
  ASSUME IInv, NEW c \in Consumer, Reject(c)
  PROVE  IInv'
<1> USE DEF IInv, Reject, Settle, Goto, GoWith, Release, PoolEnded, InFlight, Calling, Spend,
            historyVars, tableVars, driverVars, Statements, Pending, Waiting, At
<1>a. home[c] \in Process
  BY SetupsAssumption DEF TypeOK, home
<1>b. \/ pc' = [pc EXCEPT ![c] = "threw"] /\ hand' = [hand EXCEPT ![c] = NoRow]
      \/ pc' = [pc EXCEPT ![c] = "redeliver"] /\ hand' = hand
  BY DEF TypeOK
<1>c. \E S \in SUBSET Consumer, k \in {"flushing", closing[home[c]]} :
        closing' = [closing EXCEPT ![home[c]] = k] /\ awaited' = [awaited EXCEPT ![home[c]] = S]
  <2>1. Calling(home[c]) \union {c} \subseteq Consumer /\ awaited[home[c]] \subseteq Consumer
    BY <1>a, SetupsAssumption DEF TypeOK
  <2> QED BY <2>1
<1>d. done' \subseteq Message /\ used' \in [{"rejects", "troubles", "slow"} -> Nat]
  BY DEF TypeOK, Places
<1>e. \A e \in Consumer : hand'[e] # NoRow => pc'[e] \in Statements \union {"handle"}
  BY <1>b DEF TypeOK
<1>f. /\ pc' \in [Consumer -> {"loop", "handle", "listen", "peek", "sawSome", "sawNone", "polling",
                               "returned", "threw", "crashed"}
                                \union Pending \union Waiting]
      /\ hand' \in [Consumer -> [id : Nat, msg : Message] \union {NoRow}]
  BY <1>b DEF TypeOK
<1>1. TypeOK'
  BY <1>a, <1>c, <1>d, <1>e, <1>f DEF TypeOK
<1>2. Places'
  BY SetupsAssumption DEF TypeOK, Places, home
<1>3. CloseFacts'
  BY SetupsAssumption DEF TypeOK, Places, CloseFacts, Past, home
<1>4. \A e \in Consumer : hand'[e] = hand[e] \/ hand'[e] = NoRow
  BY DEF TypeOK
<1>5. \A e \in Consumer : pc'[e] = "delete" => hand'[e].msg \in done'
  BY DEF TypeOK, DeletedIsDone
<1>6. used'["slow"] = 0 => used["slow"] = 0
  BY DEF TypeOK
<1> QED BY <1>1, <1>2, <1>3, <1>4, <1>5, <1>6, QuietIInv

LEMMA CloseIInv ==
  ASSUME IInv, NEW p \in Process, Close(p)
  PROVE  IInv'
<1> USE DEF IInv, Close, InFlight, Calling, historyVars, tableVars, driverVars, Statements,
            Pending, Waiting, At
<1>1. TypeOK'
  BY SetupsAssumption, SMTT(30) DEF TypeOK, home
<1>2. Places'
  BY SetupsAssumption DEF TypeOK, Places, home
<1>3. CloseFacts'
  BY SetupsAssumption DEF TypeOK, Places, CloseFacts, Past, home
<1>4. \A e \in Consumer : hand'[e] = hand[e] \/ hand'[e] = NoRow
  BY DEF TypeOK
<1>5. \A e \in Consumer : pc'[e] = "delete" => hand'[e].msg \in done'
  BY DEF TypeOK, DeletedIsDone
<1>6. used'["slow"] = 0 => used["slow"] = 0
  BY DEF TypeOK
<1> QED BY <1>1, <1>2, <1>3, <1>4, <1>5, <1>6, QuietIInv

LEMMA CloseDriverIInv ==
  ASSUME IInv, NEW p \in Process, CloseDriver(p)
  PROVE  IInv'
<1> USE DEF IInv, CloseDriver, SendTo, Waiters, historyVars, tableVars, driverVars,
            Statements, Pending, Waiting, At
<1>1. TypeOK'
  BY SetupsAssumption DEF TypeOK, home
<1>2. Places'
  BY SetupsAssumption DEF TypeOK, Places, home
<1>3. CloseFacts'
  BY SetupsAssumption DEF TypeOK, Places, CloseFacts, Past, home
<1>4. \A e \in Consumer : hand'[e] = hand[e] \/ hand'[e] = NoRow
  BY DEF TypeOK
<1>5. \A e \in Consumer : pc'[e] = "delete" => hand'[e].msg \in done'
  BY DEF TypeOK, DeletedIsDone
<1>6. used'["slow"] = 0 => used["slow"] = 0
  BY DEF TypeOK
<1> QED BY <1>1, <1>2, <1>3, <1>4, <1>5, <1>6, QuietIInv

LEMMA EndListenerIInv ==
  ASSUME IInv, NEW p \in Process, EndListener(p)
  PROVE  IInv'
<1> USE DEF IInv, EndListener, historyVars, tableVars, driverVars, Statements, Pending,
            Waiting, At
<1>1. TypeOK'
  BY SetupsAssumption DEF TypeOK, home
<1>2. Places'
  BY SetupsAssumption DEF TypeOK, Places, home
<1>3. CloseFacts'
  BY SetupsAssumption DEF TypeOK, Places, CloseFacts, Past, home
<1>4. \A e \in Consumer : hand'[e] = hand[e] \/ hand'[e] = NoRow
  BY DEF TypeOK
<1>5. \A e \in Consumer : pc'[e] = "delete" => hand'[e].msg \in done'
  BY DEF TypeOK, DeletedIsDone
<1>6. used'["slow"] = 0 => used["slow"] = 0
  BY DEF TypeOK
<1> QED BY <1>1, <1>2, <1>3, <1>4, <1>5, <1>6, QuietIInv

LEMMA PoolClosesIInv ==
  ASSUME IInv, NEW p \in Process, PoolCloses(p)
  PROVE  IInv'
<1> USE DEF IInv, PoolCloses, historyVars, tableVars, driverVars, Statements, Pending,
            Waiting, At
<1>1. TypeOK'
  BY SetupsAssumption DEF TypeOK, home
<1>2. Places'
  BY SetupsAssumption DEF TypeOK, Places, home
<1>3. CloseFacts'
  BY SetupsAssumption DEF TypeOK, Places, CloseFacts, Past, home
<1>4. \A e \in Consumer : hand'[e] = hand[e] \/ hand'[e] = NoRow
  BY DEF TypeOK
<1>5. \A e \in Consumer : pc'[e] = "delete" => hand'[e].msg \in done'
  BY DEF TypeOK, DeletedIsDone
<1>6. used'["slow"] = 0 => used["slow"] = 0
  BY DEF TypeOK
<1> QED BY <1>1, <1>2, <1>3, <1>4, <1>5, <1>6, QuietIInv

LEMMA CrashIInv ==
  ASSUME IInv, NEW p \in Process, Crash(p)
  PROVE  IInv'
<1> USE DEF IInv, Crash, SendTo, Trouble, Spend, historyVars, tableVars, driverVars,
            Statements, Pending, Waiting, At
<1>1. TypeOK'
  BY SetupsAssumption DEF TypeOK, home
<1>2. Places'
  BY SetupsAssumption DEF TypeOK, Places, home
<1>3. CloseFacts'
  BY SetupsAssumption DEF TypeOK, Places, CloseFacts, Past, home
<1>4. \A e \in Consumer : hand'[e] = hand[e] \/ hand'[e] = NoRow
  BY DEF TypeOK
<1>5. \A e \in Consumer : pc'[e] = "delete" => hand'[e].msg \in done'
  BY DEF TypeOK, DeletedIsDone
<1>6. used'["slow"] = 0 => used["slow"] = 0
  BY DEF TypeOK
<1> QED BY <1>1, <1>2, <1>3, <1>4, <1>5, <1>6, QuietIInv

LEMMA RestartIInv ==
  ASSUME IInv, NEW p \in Process, Restart(p)
  PROVE  IInv'
<1> USE DEF IInv, Restart, SendTo, historyVars, tableVars, driverVars, Statements, Pending,
            Waiting, At
<1>a. \A e \in At(p) : pc[e] = "crashed" /\ hand[e] = NoRow
  BY SetupsAssumption DEF TypeOK, Places
<1>b. \A e \in Consumer : hand'[e] # NoRow => pc'[e] \in Statements \union {"handle"}
  BY <1>a DEF TypeOK
<1>1. TypeOK'
  BY <1>b DEF TypeOK
<1>2. Places'
  BY SetupsAssumption DEF TypeOK, Places, home
<1>3. CloseFacts'
  BY SetupsAssumption DEF TypeOK, Places, CloseFacts, Past, home
<1>4. \A e \in Consumer : hand'[e] = hand[e] \/ hand'[e] = NoRow
  BY DEF TypeOK
<1>5. \A e \in Consumer : pc'[e] = "delete" => hand'[e].msg \in done'
  BY DEF TypeOK, DeletedIsDone
<1>6. used'["slow"] = 0 => used["slow"] = 0
  BY DEF TypeOK
<1> QED BY <1>1, <1>2, <1>3, <1>4, <1>5, <1>6, QuietIInv

-----------------------------------------------------------------------------
(* The table                                                               *)

(* A row that becomes due, is claimed or expires stays the same message    *)
(* under the same id.                                                      *)
LEMMA ChangedRow ==
  ASSUME IInv, NEW r \in rows, NEW q \in Row, q.id = r.id, q.msg = r.msg,
         rows' = (rows \ {r}) \union {q}, nextId' = nextId,
         \A c \in Consumer :
           \/ hand'[c] = hand[c]
           \/ hand'[c] = NoRow
           \/ hand'[c].id = r.id /\ hand'[c].msg = r.msg
  PROVE  /\ rows' \subseteq Row
         /\ RowFacts'
         /\ \A m \in Message : (\E s \in rows : s.msg = m) => \E s \in rows' : s.msg = m
<1>1. rows' \subseteq Row
  BY DEF IInv, TypeOK
<1>2. \A s \in rows' :
        \E o \in rows : /\ o.id = s.id /\ o.msg = s.msg
                        /\ (s = o /\ s # r) \/ (s = q /\ o = r)
  OBVIOUS
<1>3. \A s, o \in rows' : s.id = o.id => s = o
  BY <1>2 DEF IInv, RowFacts
<1>4. \A s \in rows' : s.id < nextId'
  BY <1>2 DEF IInv, RowFacts
<1>5. ASSUME NEW c \in Consumer, hand'[c] # NoRow
      PROVE  /\ hand'[c].id < nextId'
             /\ \A s \in rows' : s.id = hand'[c].id => s.msg = hand'[c].msg
  <2>1. CASE hand'[c] = hand[c]
    BY <1>2, <1>5, <2>1 DEF IInv, RowFacts
  <2>2. CASE hand'[c].id = r.id /\ hand'[c].msg = r.msg
    BY <1>2, <2>2 DEF IInv, RowFacts
  <2> QED BY <1>5, <2>1, <2>2
<1>6. RowFacts'
  BY <1>3, <1>4, <1>5 DEF RowFacts
<1>7. ASSUME NEW m \in Message, NEW s \in rows, s.msg = m
      PROVE  \E o \in rows' : o.msg = m
  BY <1>7
<1> QED BY <1>1, <1>6, <1>7

(* A new row has an id that nobody has seen.                               *)
LEMMA InsertedRow ==
  ASSUME IInv, NEW m \in Message, NEW others \in SUBSET rows, Insert(m, others),
         \A c \in Consumer : hand'[c] = hand[c] \/ hand'[c] = NoRow
  PROVE  /\ rows' \subseteq Row /\ nextId' \in Nat
         /\ incoming' \in [Process -> Nat]
         /\ RowFacts'
         /\ \E s \in rows' : s.msg = m
         /\ others \subseteq rows'
         /\ \A s \in rows' : s \in others \/ s.id = nextId
<1> DEFINE q == [id |-> nextId, msg |-> m, due |-> m \notin Delayed, held |-> FALSE]
<1>1. q \in Row /\ q.id = nextId /\ q.msg = m
  BY DEF IInv, TypeOK, Row
<1>2. rows' = others \union {q} /\ nextId' = nextId + 1 /\ nextId \in Nat
  BY DEF Insert, IInv, TypeOK
<1> HIDE DEF q
<1>3. incoming' \in [Process -> Nat]
  BY DEF Insert, IInv, TypeOK
<1>4. rows' \subseteq Row /\ rows \subseteq Row
  BY <1>1, <1>2 DEF IInv, TypeOK
<1>5. \A s \in rows' : s.id < nextId'
  BY <1>1, <1>2, <1>4 DEF IInv, RowFacts, Row
<1>6. \A s, o \in rows' : s.id = o.id => s = o
  BY <1>1, <1>2, <1>4 DEF IInv, RowFacts, Row
<1>7. ASSUME NEW c \in Consumer, hand'[c] # NoRow
      PROVE  /\ hand'[c].id < nextId'
             /\ \A s \in rows' : s.id = hand'[c].id => s.msg = hand'[c].msg
  <2>1. hand'[c] = hand[c] /\ hand[c].id \in Nat /\ hand[c].id < nextId
    BY <1>7 DEF IInv, RowFacts, TypeOK
  <2> QED BY <1>1, <1>2, <1>7, <2>1 DEF IInv, RowFacts
<1>8. RowFacts'
  BY <1>5, <1>6, <1>7 DEF RowFacts
<1> QED BY <1>1, <1>2, <1>3, <1>4, <1>8

(* A loop that handles or settles has a message.                           *)
LEMMA InHand ==
  ASSUME IInv, NEW c \in Consumer, pc[c] \in {"handle", "discard", "delete", "redeliver"}
  PROVE  hand[c] # NoRow /\ hand[c].msg \in Message /\ hand[c].id \in Nat
BY DEF IInv, Places, TypeOK

(* Taking a row out of the table takes out the message of whoever has it.  *)
LEMMA RemovedRow ==
  ASSUME IInv, NEW c \in Consumer, hand[c] # NoRow,
         NEW s \in rows, s \notin Without(hand[c].id)
  PROVE  s.msg = hand[c].msg
BY DEF IInv, RowFacts, Without

(* A deletion leaves the rows that stay as they were.                      *)
LEMMA FewerRows ==
  ASSUME IInv, rows' \subseteq rows, nextId' = nextId,
         \A c \in Consumer : hand'[c] = hand[c] \/ hand'[c] = NoRow
  PROVE  RowFacts'
BY DEF IInv, RowFacts

LEMMA SendIInv ==
  ASSUME IInv, NEW m \in Message, Send(m)
  PROVE  IInv'
<1> USE DEF IInv, Send, historyVars, tableVars, driverVars, Statements, Pending
<1>a. /\ rows' \subseteq Row /\ nextId' \in Nat /\ incoming' \in [Process -> Nat]
      /\ RowFacts'
      /\ \E s \in rows' : s.msg = m
      /\ rows \subseteq rows'
  BY InsertedRow
<1>1. TypeOK'
  BY <1>a DEF TypeOK
<1>2. Places'
  BY SetupsAssumption DEF TypeOK, Places, home
<1>3. RowFacts'
  BY <1>a
<1>4. NoLoss'
  BY <1>a DEF NoLoss
<1>x. \A s \in rows' : s \in rows \/ s.id = nextId
  BY InsertedRow
<1>5. DeletedIsDone'
  BY DEF TypeOK, DeletedIsDone
<1>6. Exclusive'
  BY <1>x DEF TypeOK, RowFacts, Exclusive
<1>7. CloseFacts'
  BY SetupsAssumption DEF TypeOK, Places, CloseFacts, Past, home
<1> QED BY <1>1, <1>2, <1>3, <1>4, <1>5, <1>6, <1>7

LEMMA BecomeDueIInv ==
  ASSUME IInv, NEW r \in rows, BecomeDue(r)
  PROVE  IInv'
<1> USE DEF IInv, BecomeDue, historyVars, tableVars, driverVars, Statements, Pending
<1> DEFINE q == [r EXCEPT !.due = TRUE]
<1>a. q \in Row /\ q.id = r.id /\ q.msg = r.msg /\ q.held = r.held
  <2>1. r \in Row
    BY DEF TypeOK
  <2> QED BY <2>1 DEF Row
<1>b. rows' = (rows \ {r}) \union {q}
  OBVIOUS
<1> HIDE DEF q
<1>c. /\ rows' \subseteq Row /\ RowFacts'
      /\ \A m \in Message : (\E s \in rows : s.msg = m) => \E s \in rows' : s.msg = m
  BY <1>a, <1>b, ChangedRow
<1>1. TypeOK'
  BY <1>c DEF TypeOK
<1>2. Places'
  BY SetupsAssumption DEF TypeOK, Places, home
<1>3. RowFacts'
  BY <1>c
<1>4. NoLoss'
  BY <1>c DEF NoLoss, TypeOK
<1>5. DeletedIsDone'
  BY DEF TypeOK, DeletedIsDone
<1>6. Exclusive'
  BY <1>a, <1>b DEF Exclusive
<1>7. CloseFacts'
  BY SetupsAssumption DEF TypeOK, Places, CloseFacts, Past, home
<1> QED BY <1>1, <1>2, <1>3, <1>4, <1>5, <1>6, <1>7

LEMMA ExpireIInv ==
  ASSUME IInv, NEW r \in rows, Expire(r)
  PROVE  IInv'
<1> USE DEF IInv, Expire, Spend, Holds, historyVars, tableVars, driverVars, Statements, Pending
<1> DEFINE q == [r EXCEPT !.held = FALSE]
<1>a. q \in Row /\ q.id = r.id /\ q.msg = r.msg
  <2>1. r \in Row
    BY DEF TypeOK
  <2> QED BY <2>1 DEF Row
<1>b. rows' = (rows \ {r}) \union {q}
  OBVIOUS
<1> HIDE DEF q
<1>c. /\ rows' \subseteq Row /\ RowFacts'
      /\ \A m \in Message : (\E s \in rows : s.msg = m) => \E s \in rows' : s.msg = m
  BY <1>a, <1>b, ChangedRow
<1>d. used' \in [{"rejects", "troubles", "slow"} -> Nat]
  BY DEF TypeOK
<1>1. TypeOK'
  BY <1>c, <1>d DEF TypeOK
<1>2. Places'
  BY SetupsAssumption DEF TypeOK, Places, home
<1>3. RowFacts'
  BY <1>c
<1>4. NoLoss'
  BY <1>c DEF NoLoss, TypeOK
<1>5. DeletedIsDone'
  BY DEF TypeOK, DeletedIsDone
<1>6. Exclusive'
  BY DEF TypeOK, Places, RowFacts, Exclusive, Row
<1>7. CloseFacts'
  BY SetupsAssumption DEF TypeOK, Places, CloseFacts, Past, home
<1> QED BY <1>1, <1>2, <1>3, <1>4, <1>5, <1>6, <1>7

LEMMA ClaimIInv ==
  ASSUME IInv, NEW c \in Consumer, Claim(c)
  PROVE  IInv'
<1> USE DEF IInv, Claim, MayClaim, Claimable, GoWith, historyVars, tableVars, driverVars,
            Statements, Pending
<1> DEFINE Took(r) == /\ rows' = (rows \ {r}) \union {[r EXCEPT !.held = TRUE]}
                      /\ hand' = [hand EXCEPT ![c] = [id |-> r.id, msg |-> r.msg]]
<1>0. pc[c] = "claim" /\ pc' = [pc EXCEPT ![c] = "claimed"]
  OBVIOUS
<1>1. CASE \E r \in rows : MayClaim(r) /\ Took(r)
  <2>1. PICK r \in rows : MayClaim(r) /\ Took(r)
    BY <1>1
  <2> DEFINE q == [r EXCEPT !.held = TRUE]
             e == [id |-> r.id, msg |-> r.msg]
  <2>0. /\ r \in Row /\ r.id \in Nat /\ r.msg \in Message /\ ~r.held
    BY <2>1 DEF TypeOK, Row, MayClaim, Claimable
  <2>a. /\ q \in Row /\ q.id = r.id /\ q.msg = r.msg /\ q.held
    BY <2>0 DEF Row
  <2>b. rows' = (rows \ {r}) \union {q} /\ hand' = [hand EXCEPT ![c] = e]
    BY <2>1
  <2>c. e \in [id : Nat, msg : Message] /\ e.id = r.id /\ e.msg = r.msg
    BY <2>0
  <2> HIDE DEF q, e
  <2>d. \A d \in Consumer : hand'[d] = IF d = c THEN e ELSE hand[d]
    BY <2>b DEF TypeOK
  <2>e. /\ rows' \subseteq Row /\ RowFacts'
        /\ \A m \in Message : (\E s \in rows : s.msg = m) => \E s \in rows' : s.msg = m
    BY <2>a, <2>b, <2>c, <2>d, ChangedRow
  <2>f. \A d \in Consumer : hand'[d] # NoRow => pc'[d] \in Statements \union {"handle"}
    BY <1>0, <2>d DEF TypeOK
  <2>g. /\ hand' \in [Consumer -> [id : Nat, msg : Message] \union {NoRow}]
        /\ pc' \in [Consumer -> {"loop", "handle", "listen", "peek", "sawSome", "sawNone", "polling",
                                 "returned", "threw", "crashed"}
                                \union Pending \union Waiting]
    BY <1>0, <2>b, <2>c DEF TypeOK
  <2>1a. TypeOK'
    BY <2>e, <2>f, <2>g DEF TypeOK
  <2>2. Places'
    BY <1>0, <2>d, SetupsAssumption DEF TypeOK, Places, home
  <2>3. NoLoss'
    BY <2>e DEF NoLoss, TypeOK
  <2>4. DeletedIsDone'
    BY <1>0, <2>d DEF TypeOK, DeletedIsDone
  <2>5. Exclusive'
    BY <2>0, <2>a, <2>b, <2>c, <2>d DEF TypeOK, RowFacts, Exclusive
  <2>6. CloseFacts'
    BY <1>0, SetupsAssumption DEF TypeOK, Places, CloseFacts, Past, home
  <2> QED BY <2>e, <2>1a, <2>2, <2>3, <2>4, <2>5, <2>6
<1>2. CASE rows' = rows /\ hand' = [hand EXCEPT ![c] = NoRow]
  <2>1. TypeOK'
    BY <1>0, <1>2 DEF TypeOK
  <2>2. Places'
    BY <1>0, <1>2, SetupsAssumption DEF TypeOK, Places, home
  <2>3. CloseFacts'
    BY <1>0, SetupsAssumption DEF TypeOK, Places, CloseFacts, Past, home
  <2>4. \A e \in Consumer : hand'[e] = hand[e] \/ hand'[e] = NoRow
    BY <1>2 DEF TypeOK
  <2>5. \A e \in Consumer : pc'[e] = "delete" => hand'[e].msg \in done'
    BY <1>0, <1>2 DEF TypeOK, DeletedIsDone
  <2> QED BY <1>2, <2>1, <2>2, <2>3, <2>4, <2>5, QuietIInv
<1> QED BY <1>1, <1>2

LEMMA DiscardIInv ==
  ASSUME IInv, NEW c \in Consumer, Discard(c)
  PROVE  IInv'
<1> USE DEF IInv, Discard, GoWith, Resolved, historyVars, tableVars, driverVars, Statements,
            Pending
<1>a. rows' \subseteq rows /\ hand[c] # NoRow /\ hand[c].msg \in Message
  BY InHand DEF Without
<1>b. \A e \in Consumer : hand'[e] = IF e = c THEN NoRow ELSE hand[e]
  BY DEF TypeOK
<1>c. hand[c].msg \in done'
  BY DEF DeletedIsDone
<1>1. TypeOK'
  BY <1>a, SetupsAssumption DEF TypeOK, home
<1>2. Places'
  BY SetupsAssumption DEF TypeOK, Places, home
<1>3. RowFacts'
  BY <1>a, <1>b, FewerRows
<1>4. NoLoss'
  BY <1>a, <1>c, RemovedRow DEF NoLoss
<1>5. DeletedIsDone'
  BY DEF TypeOK, DeletedIsDone
<1>6. Exclusive'
  BY <1>a, <1>b DEF Exclusive
<1>7. CloseFacts'
  BY SetupsAssumption DEF TypeOK, Places, CloseFacts, Past, home
<1> QED BY <1>1, <1>2, <1>3, <1>4, <1>5, <1>6, <1>7

LEMMA DeleteIInv ==
  ASSUME IInv, NEW c \in Consumer, Delete(c)
  PROVE  IInv'
<1> USE DEF IInv, Delete, GoWith, Resolved, historyVars, tableVars, driverVars, Statements,
            Pending
<1>a. rows' \subseteq rows /\ hand[c] # NoRow /\ hand[c].msg \in Message
  BY InHand DEF Without
<1>b. \A e \in Consumer : hand'[e] = IF e = c THEN NoRow ELSE hand[e]
  BY DEF TypeOK
<1>c. hand[c].msg \in done'
  BY DEF DeletedIsDone
<1>1. TypeOK'
  BY <1>a, SetupsAssumption DEF TypeOK, home
<1>2. Places'
  BY SetupsAssumption DEF TypeOK, Places, home
<1>3. RowFacts'
  BY <1>a, <1>b, FewerRows
<1>4. NoLoss'
  BY <1>a, <1>c, RemovedRow DEF NoLoss
<1>5. DeletedIsDone'
  BY DEF TypeOK, DeletedIsDone
<1>6. Exclusive'
  BY <1>a, <1>b DEF Exclusive
<1>7. CloseFacts'
  BY SetupsAssumption DEF TypeOK, Places, CloseFacts, Past, home
<1> QED BY <1>1, <1>2, <1>3, <1>4, <1>5, <1>6, <1>7

LEMMA RedeliverIInv ==
  ASSUME IInv, NEW c \in Consumer, Redeliver(c)
  PROVE  IInv'
<1> USE DEF IInv, Redeliver, GoWith, Resolved, historyVars, tableVars, driverVars,
            Statements, Pending
<1> DEFINE m == hand[c].msg
           others == Without(hand[c].id)
<1>a. others \in SUBSET rows /\ hand[c] # NoRow /\ m \in Message
  BY InHand DEF Without
<1>b. \A e \in Consumer : hand'[e] = IF e = c THEN NoRow ELSE hand[e]
  BY DEF TypeOK
<1>c. /\ rows' \subseteq Row /\ nextId' \in Nat /\ incoming' \in [Process -> Nat]
      /\ RowFacts'
      /\ \E s \in rows' : s.msg = m
      /\ others \subseteq rows'
      /\ \A s \in rows' : s \in others \/ s.id = nextId
  BY <1>a, <1>b, InsertedRow
<1>1. TypeOK'
  BY <1>c, SetupsAssumption DEF TypeOK, home
<1>2. Places'
  BY SetupsAssumption DEF TypeOK, Places, home
<1>3. RowFacts'
  BY <1>c
<1>4. NoLoss'
  BY <1>a, <1>c, RemovedRow DEF NoLoss
<1>5. DeletedIsDone'
  BY DEF TypeOK, DeletedIsDone
<1>6. Exclusive'
  BY <1>a, <1>b, <1>c DEF TypeOK, RowFacts, Exclusive
<1>7. CloseFacts'
  BY SetupsAssumption DEF TypeOK, Places, CloseFacts, Past, home
<1> QED BY <1>1, <1>2, <1>3, <1>4, <1>5, <1>6, <1>7

LEMMA SettlementFailsIInv ==
  ASSUME IInv, NEW c \in Consumer, SettlementFails(c)
  PROVE  IInv'
<1> USE DEF IInv, SettlementFails, GoWith, Resolved, Trouble, Spend, historyVars, tableVars,
            driverVars, Statements, Pending
<1> DEFINE m == hand[c].msg
           others == Without(hand[c].id)
<1>a. others \in SUBSET rows /\ hand[c] # NoRow /\ m \in Message
  BY InHand DEF Without
<1>b. \A e \in Consumer : hand'[e] = IF e = c THEN NoRow ELSE hand[e]
  BY DEF TypeOK
<1>c. /\ rows' \subseteq Row /\ nextId' \in Nat /\ incoming' \in [Process -> Nat]
      /\ RowFacts'
      /\ m \in done \/ (\E s \in rows' : s.msg = m)
                     \/ rows' = rows
      /\ others \subseteq rows'
      /\ \A s \in rows' : s \in rows \/ s.id = nextId
  <2>1. CASE UNCHANGED <<rows, nextId, incoming>>
    BY <1>a, <1>b, <2>1, FewerRows DEF TypeOK
  <2>2. CASE pc[c] = "delete" /\ rows' = others /\ UNCHANGED <<nextId, incoming>>
    BY <1>a, <1>b, <2>2, FewerRows DEF TypeOK, DeletedIsDone
  <2>3. CASE Insert(m, others)
    BY <1>a, <1>b, <2>3, InsertedRow
  <2> QED BY <2>1, <2>2, <2>3
<1>e. /\ used' \in [{"rejects", "troubles", "slow"} -> Nat]
      /\ awaited' \in [Process -> SUBSET Consumer]
      /\ pc' = [pc EXCEPT ![c] = "threw"] /\ hand' = [hand EXCEPT ![c] = NoRow]
  BY SetupsAssumption DEF TypeOK, home
<1>f. UNCHANGED <<setup, schema, listener, notified, closing, aborted, sent, done, late>>
  OBVIOUS
<1> HIDE DEF SettlementFails
<1>1. TypeOK'
  BY <1>c, <1>e, <1>f DEF TypeOK
<1> USE DEF SettlementFails
<1>2. Places'
  BY SetupsAssumption DEF TypeOK, Places, home
<1>3. RowFacts'
  BY <1>c
<1>4. NoLoss'
  BY <1>a, <1>c, RemovedRow DEF NoLoss
<1>5. DeletedIsDone'
  BY DEF TypeOK, DeletedIsDone
<1>d. used'["slow"] = used["slow"]
  BY DEF TypeOK
<1>6. Exclusive'
  BY <1>a, <1>b, <1>c, <1>d DEF TypeOK, RowFacts, Exclusive
<1>7. CloseFacts'
  BY SetupsAssumption DEF TypeOK, Places, CloseFacts, Past, home
<1> QED BY <1>1, <1>2, <1>3, <1>4, <1>5, <1>6, <1>7

-----------------------------------------------------------------------------
LEMMA NextIInv == IInv /\ [Next]_vars => IInv'
<1> SUFFICES ASSUME IInv, [Next]_vars PROVE IInv'
  OBVIOUS
<1>1. CASE UNCHANGED vars
  BY <1>1 DEF vars, tableVars, driverVars, historyVars, IInv, TypeOK, Places, RowFacts, NoLoss,
              DeletedIsDone, Exclusive, CloseFacts, home
<1>2. ASSUME NEW m \in Message, Send(m) PROVE IInv'
  BY <1>2, SendIInv
<1>3. ASSUME NEW r \in rows, BecomeDue(r) \/ Expire(r) PROVE IInv'
  BY <1>3, BecomeDueIInv, ExpireIInv
<1>4. ASSUME NEW c \in Consumer, Looping(c) PROVE IInv'
  BY <1>4, PollIInv, ClaimIInv, YieldIInv, DiscardIInv, ReturnIInv, RerunIInv, WaitIInv, PeekIInv,
     RegisterIInv, TimerIInv DEF Looping
<1>5. ASSUME NEW c \in Consumer, Settling(c) \/ Abort(c) \/ LoopFails(c) \/ SettlementFails(c)
      PROVE  IInv'
  BY <1>5, AckIInv, RejectIInv, DeleteIInv, RedeliverIInv, AbortIInv, LoopFailsIInv,
     SettlementFailsIInv DEF Settling
<1>6. ASSUME NEW p \in Process, Connecting(p) \/ Closing(p) \/ Close(p) PROVE IInv'
  BY <1>6, SchemaDoneIInv, ListenerUpIInv, NotificationIInv, CloseDriverIInv, EndListenerIInv,
     PoolClosesIInv, CloseIInv DEF Connecting, Closing
<1>7. ASSUME NEW p \in Process,
             \/ SchemaFails(p) \/ ListenerFails(p) \/ ListenerDies(p)
             \/ Crash(p) \/ Restart(p)
      PROVE  IInv'
  BY <1>7, SchemaFailsIInv, ListenerFailsIInv, ListenerDiesIInv, CrashIInv, RestartIInv
<1> QED BY <1>1, <1>2, <1>3, <1>4, <1>5, <1>6, <1>7 DEF Next

LEMMA Invariance == Spec => []IInv
BY InitIInv, NextIInv, PTL DEF Spec

(* The type invariant holds in every deployment.                           *)
THEOREM TypeCorrect == Spec => []TypeOK
<1>1. IInv => TypeOK
  BY DEF IInv
<1> QED BY <1>1, Invariance, PTL

(* At least once, as far as the table goes: from the INSERT until ack() or *)
(* the deletion of a poison row a message is in the table; the transaction *)
(* of reject() exchanges its row for a copy, and no failed statement,      *)
(* crash or close() takes it out.                                          *)
THEOREM NothingLost == Spec => []NoLoss
<1>1. IInv => NoLoss
  BY DEF IInv
<1> QED BY <1>1, Invariance, PTL

(* SKIP LOCKED and delivered_at keep a row from being claimed twice for as *)
(* long as no redeliver timeout passes under the loop that has it.         *)
THEOREM ClaimedOnce == Spec => []NotClaimedTwice
<1>1. IInv => NotClaimedTwice
  BY DEF IInv, Exclusive, NotClaimedTwice
<1> QED BY <1>1, Invariance, PTL

(* close() waits for the deliveries in flight and then for the settlements *)
(* it finds under way: when it has resolved, only a loop that was given    *)
(* its row after the wait for deliveries ended has work left.              *)
THEOREM DrainedButLate == Spec => []ClosedIsDrainedButLate
<1>1. IInv => ClosedIsDrainedButLate
  BY DEF IInv, Places, CloseFacts, Past, ClosedIsDrainedButLate
<1> QED BY <1>1, Invariance, PTL
=============================================================================
