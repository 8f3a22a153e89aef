---------------------- MODULE MessengerBudget_proofs ----------------------
(***************************************************************************)
(* Theorems about Messenger without faults: a message is in one place, and *)
(* its retry budget is kept exactly, for every deployment in which the     *)
(* operator has the failure transport to himself and no message is routed  *)
(* to one transport twice.                                                 *)
(*                                                                         *)
(* The two go together.  An attempt raises the count of the duty, and that *)
(* of the one envelope that is being worked on; if there were another row  *)
(* of the duty, it would be left with a count that is too low.             *)
(***************************************************************************)
EXTENDS Messenger_proofs

(* No fault so far, and nobody else on the failure transport.              *)
Undisturbed == used.faults = 0 /\ OperatorAlone /\ RoutesApart

AtWork(w) == Busy(w) /\ pc[w] # "returned"

(* The row of this id is about to be deleted.                              *)
Leaving(id) ==
  \/ \E w \in Worker : pc[w] = "returned" /\ env[w].id = id
  \/ command.stage = "retried" /\ \E e \in command.todo : NextTodo(e) /\ e.id = id

(* A worker's registry has what it works on, and the table knows of it.    *)
Registered ==
  /\ \A w \in Worker : inFlight[w] = IF Busy(w) THEN {env[w].id} ELSE {}
  /\ \A w \in Worker : Busy(w) =>
       \A r \in rows : r.id = env[w].id => r.held /\ r.at = Consumes[w]
  /\ \A v, w \in Worker : Busy(v) /\ Busy(w) /\ env[v].id = env[w].id => v = w
  /\ \A r \in rows : r.held => \E w \in Worker : Busy(w) /\ env[w].id = r.id

(* Whatever there is came from a route.                                    *)
Routed ==
  /\ \A r \in rows : DutyOf(r.wire) \in accepted
  /\ \A w \in Worker : Busy(w) => DutyOf(Carried(w)) \in accepted
  /\ \A m \in Message, a \in Aliases :
       <<m, a>> \in accepted => \E i \in 1 .. routed[m] : Routes[m][i] = a

(* Of each duty there is one row, or one worker that will store the next,  *)
(* but for rows that are about to be deleted.                              *)
Single ==
  /\ \A r, s \in rows :
       DutyOf(r.wire) = DutyOf(s.wire) /\ ~Leaving(r.id) /\ ~Leaving(s.id) => r = s
  /\ \A w \in Worker : AtWork(w) =>
       \A r \in rows :
         DutyOf(r.wire) = DutyOf(Carried(w)) => r.id = env[w].id \/ Leaving(r.id)
  /\ \A v, w \in Worker :
       AtWork(v) /\ AtWork(w) /\ DutyOf(Carried(v)) = DutyOf(Carried(w)) => v = w

(* What the operator is bringing back stays where it was found.            *)
StillFailed ==
  /\ command.stage \in {"retry", "retried"} =>
       \A e \in command.todo :
         e.wire.failedFrom # NoTransport => \E r \in rows : r.id = e.id /\ r.at = Failure
  /\ command.stage = "retried" =>
       \A e \in command.todo : NextTodo(e) => e.wire.failedFrom # NoTransport

Quiet == Registered /\ Routed /\ Single /\ StillFailed

(* Each command allows as many attempts as the first dispatch.             *)
Allowance == (MaxRetries + 1) * used.commands

Affords(wire, tries) ==
  wire.count <= MaxRetries /\ Tried(wire) <= wire.count + tries + Allowance

ToBeRevived(e) ==
  /\ e \in command.todo /\ e.wire.failedFrom # NoTransport
  /\ \/ command.stage = "retry"
     \/ command.stage = "retried" /\ ~NextTodo(e)

Trying == {"handle", "resend", "deadletter"}

(* What is left to a message are the retries that its count leaves it; one *)
(* that a command is about to revive has at most used what was allowed     *)
(* before that command.                                                    *)
Budget ==
  RetryEnabled =>
    /\ \A w \in Worker : pc[w] # "threw"
    /\ \A r \in rows : r.at # Failure /\ ~r.held => Affords(r.wire, 0)
    /\ \A w \in Worker : pc[w] = "start" => Affords(Carried(w), 0)
    /\ \A w \in Worker : pc[w] \in Trying => Affords(Carried(w), 1)
    /\ \A d \in accepted : attempts[d] <= (MaxRetries + 1) + Allowance
    /\ \A d \in Duty : d[2] \in Transport /\ d \notin accepted => attempts[d] = 0
    /\ \A e \in command.todo : ToBeRevived(e) => Tried(e.wire) <= Allowance

QuietInv == IInv /\ (Undisturbed => Quiet /\ Budget)

-----------------------------------------------------------------------------
(* Rows, workers and the operator while nothing goes wrong                 *)

LEMMA Allowed ==
  ASSUME IInv
  PROVE  /\ MaxRetries \in Nat /\ Allowance \in Nat /\ MaxRetries + 1 \in Nat
         /\ \A d \in Duty : attempts[d] \in Nat
<1>1. MaxRetries + 1 \in Nat /\ used.commands \in Nat
  BY Deployment DEF IInv, TypeOK
<1>2. \A k, c \in Nat : k * c \in Nat
  OBVIOUS
<1>3. Allowance \in Nat
  BY <1>1, <1>2 DEF Allowance
<1> QED BY <1>1, <1>3, Deployment DEF IInv, TypeOK

(* Nobody but the operator is about to delete a row of the failure         *)
(* transport, and he nothing else.                                         *)
LEMMA OperatorsRows ==
  ASSUME IInv, Undisturbed, Registered, StillFailed
  PROVE  /\ \A r \in rows, w \in Worker :
              Busy(w) /\ env[w].id = r.id => r.held /\ r.at # Failure
         /\ \A r \in rows : ~r.held /\ r.at # Failure => ~Leaving(r.id)
         /\ \A r \in rows : r.held => \E w \in Worker : Busy(w) /\ env[w].id = r.id
<1>1. ASSUME NEW r \in rows, NEW w \in Worker, Busy(w), env[w].id = r.id
      PROVE  r.held /\ r.at # Failure
  BY <1>1 DEF Registered, Undisturbed, OperatorAlone
<1>2. ASSUME NEW r \in rows, ~r.held, r.at # Failure, Leaving(r.id)
      PROVE  FALSE
  <2>1. CASE \E w \in Worker : pc[w] = "returned" /\ env[w].id = r.id
    BY <1>1, <1>2, <2>1 DEF Busy
  <2>2. CASE command.stage = "retried" /\ \E e \in command.todo : NextTodo(e) /\ e.id = r.id
    <3>1. PICK e \in command.todo : NextTodo(e) /\ e.id = r.id
      BY <2>2
    <3>2. \E s \in rows : s.id = r.id /\ s.at = Failure
      BY <2>2, <3>1 DEF StillFailed
    <3> QED BY <1>2, <3>2 DEF IInv, RowFacts
  <2> QED BY <1>2, <2>1, <2>2 DEF Leaving
<1> QED BY <1>1, <1>2 DEF Registered

(* What is still to be revived lies in the failure transport, and nobody   *)
(* works on it.                                                            *)
LEMMA NobodyRevives ==
  ASSUME IInv, Undisturbed, Quiet, NEW e \in command.todo, ToBeRevived(e)
  PROVE  /\ \E r \in rows : r.id = e.id /\ r.wire = e.wire /\ r.at = Failure
         /\ \A w \in Worker : AtWork(w) => DutyOf(Carried(w)) # DutyOf(e.wire)
<1>1. PICK r \in rows : r.id = e.id /\ r.at = Failure
  BY DEF ToBeRevived, Quiet, StillFailed
<1>2. r.wire = e.wire
  BY <1>1 DEF IInv, SnapshotFacts, SameMessage
<1>3. \A w \in Worker : Busy(w) => env[w].id # r.id
  BY <1>1, OperatorsRows DEF Quiet
<1>4. ~Leaving(r.id)
  <2> SUFFICES ASSUME Leaving(r.id) PROVE FALSE
    OBVIOUS
  <2>1. command.stage = "retried" /\ \E f \in command.todo : NextTodo(f) /\ f.id = r.id
    BY <1>3 DEF Leaving, Busy
  <2>2. PICK f \in command.todo : NextTodo(f) /\ f.id = e.id
    BY <1>1, <2>1
  <2>3. f = e
    BY <2>2 DEF IInv, SnapshotFacts
  <2> QED BY <2>1, <2>2, <2>3 DEF ToBeRevived
<1>5. \A w \in Worker : AtWork(w) => DutyOf(Carried(w)) # DutyOf(r.wire)
  BY <1>3, <1>4 DEF Quiet, Single, AtWork
<1> QED BY <1>1, <1>2, <1>5

(* A worker that does not move keeps what it is registered for; who        *)
(* becomes idle leaves no row behind.                                      *)
LEMMA StillRegistered ==
  ASSUME IInv, Registered, setup' = setup,
         \A s \in rows' : \/ \E o \in rows : o.id = s.id /\ o.at = s.at /\ o.held = s.held
                          \/ ~s.held /\ s.id = nextId,
         \A w \in Worker : Busy(w)' =>
           Busy(w) /\ env'[w].id = env[w].id /\ inFlight'[w] = inFlight[w],
         \A w \in Worker : ~Busy(w)' =>
           /\ inFlight'[w] = {}
           /\ Busy(w) => \A s \in rows' : s.id # env[w].id
  PROVE  Registered'
<1>1. ASSUME NEW w \in Worker
      PROVE  inFlight'[w] = IF Busy(w)' THEN {env'[w].id} ELSE {}
  <2>1. Busy(w) => inFlight[w] = {env[w].id}
    BY DEF Registered
  <2>2. CASE Busy(w)'
    BY <2>1, <2>2
  <2>3. CASE ~Busy(w)'
    BY <2>3
  <2> QED BY <2>2, <2>3
<1>2. ASSUME NEW w \in Worker, Busy(w)', NEW s \in rows', s.id = env'[w].id
      PROVE  s.held /\ s.at = Consumes[w]
  <2>1. s.id # nextId
    BY <1>2, HasEnvelope DEF IInv, TypeOK
  <2> QED BY <1>2, <2>1 DEF Registered
<1>3. \A v, w \in Worker : Busy(v)' /\ Busy(w)' /\ env'[v].id = env'[w].id => v = w
  BY DEF Registered
<1>4. ASSUME NEW s \in rows', s.held
      PROVE  \E w \in Worker : Busy(w)' /\ env'[w].id = s.id
  BY <1>4 DEF Registered
<1>5. Consumes' = Consumes
  BY SetupFixed
<1>6. \A w \in Worker : Busy(w)' =>
        \A r \in rows' : r.id = env'[w].id => r.held /\ r.at = Consumes'[w]
  BY <1>2, <1>5
<1> QED BY <1>1, <1>3, <1>4, <1>6 DEF Registered

LEMMA StillRouted ==
  ASSUME Routed, UNCHANGED <<setup, accepted, routed>>,
         \A s \in rows' : DutyOf(s.wire) \in accepted,
         \A w \in Worker : Busy(w)' => \E wire : env'[w].wire = wire /\ DutyOf(wire) \in accepted
  PROVE  Routed'
<1>1. \A w \in Worker : Busy(w)' => DutyOf(Carried(w)') \in accepted
  BY DEF Carried
<1>2. \A m \in Message, a \in Aliases :
        <<m, a>> \in accepted => \E i \in 1 .. routed[m] : Routes[m][i] = a
  BY DEF Routed
<1>3. Routes' = Routes
  BY SetupFixed
<1> QED BY <1>1, <1>2, <1>3 DEF Routed, DutyOf

(* No row is added, and who is at work was so before.                      *)
LEMMA StillSingle ==
  ASSUME IInv', Single,
         \A s \in rows' : \E o \in rows : o.id = s.id /\ o.wire = s.wire,
         \A s \in rows' : Leaving(s.id) => Leaving(s.id)',
         \A w \in Worker : AtWork(w)' =>
           AtWork(w) /\ env'[w].id = env[w].id /\ env'[w].wire = env[w].wire
  PROVE  Single'
<1>1. ASSUME NEW r \in rows', NEW s \in rows', DutyOf(r.wire) = DutyOf(s.wire),
             ~Leaving(r.id)', ~Leaving(s.id)'
      PROVE  r = s
  <2>1. PICK o \in rows : o.id = r.id /\ o.wire = r.wire
    OBVIOUS
  <2>2. PICK p \in rows : p.id = s.id /\ p.wire = s.wire
    OBVIOUS
  <2>3. ~Leaving(o.id) /\ ~Leaving(p.id)
    BY <1>1, <2>1, <2>2
  <2>4. o = p
    BY <1>1, <2>1, <2>2, <2>3 DEF Single
  <2> QED BY <2>1, <2>2, <2>4 DEF IInv, RowFacts
<1>2. ASSUME NEW w \in Worker, AtWork(w)', NEW s \in rows',
             DutyOf(s.wire) = DutyOf(Carried(w)')
      PROVE  s.id = env'[w].id \/ Leaving(s.id)'
  <2>1. PICK o \in rows : o.id = s.id /\ o.wire = s.wire
    OBVIOUS
  <2>2. AtWork(w) /\ DutyOf(o.wire) = DutyOf(Carried(w))
    BY <1>2, <2>1 DEF Carried
  <2>3. o.id = env[w].id \/ Leaving(o.id)
    BY <2>2 DEF Single
  <2> QED BY <1>2, <2>1, <2>3
<1>3. ASSUME NEW v \in Worker, NEW w \in Worker, AtWork(v)', AtWork(w)',
             DutyOf(Carried(v)') = DutyOf(Carried(w)')
      PROVE  v = w
  BY <1>3 DEF Single, Carried
<1> QED BY <1>1, <1>2, <1>3 DEF Single, DutyOf

(* A row is added for a duty nobody works on, whose other rows are leaving.*)
LEMMA AddedSingle ==
  ASSUME IInv', Single, NEW q \in rows',
         \A s \in rows' : s = q \/ s \in rows,
         \A s \in rows' : s \in rows /\ Leaving(s.id) => Leaving(s.id)',
         \A s \in rows' : s # q /\ DutyOf(s.wire) = DutyOf(q.wire) => Leaving(s.id)',
         \A w \in Worker : AtWork(w)' =>
           /\ AtWork(w) /\ env'[w].id = env[w].id /\ env'[w].wire = env[w].wire
           /\ DutyOf(Carried(w)) # DutyOf(q.wire)
  PROVE  Single'
<1>1. ASSUME NEW r \in rows', NEW s \in rows', DutyOf(r.wire) = DutyOf(s.wire),
             ~Leaving(r.id)', ~Leaving(s.id)'
      PROVE  r = s
  <2>1. CASE DutyOf(r.wire) = DutyOf(q.wire)
    BY <1>1, <2>1
  <2>2. CASE DutyOf(r.wire) # DutyOf(q.wire)
    <3>1. r \in rows /\ s \in rows
      BY <1>1, <2>2
    <3>2. ~Leaving(r.id) /\ ~Leaving(s.id)
      BY <1>1, <3>1
    <3> QED BY <1>1, <3>1, <3>2 DEF Single
  <2> QED BY <2>1, <2>2
<1>2. ASSUME NEW w \in Worker, AtWork(w)', NEW s \in rows',
             DutyOf(s.wire) = DutyOf(Carried(w)')
      PROVE  s.id = env'[w].id \/ Leaving(s.id)'
  <2>1. AtWork(w) /\ DutyOf(s.wire) = DutyOf(Carried(w))
    BY <1>2 DEF Carried
  <2>2. s \in rows
    BY <1>2, <2>1
  <2>3. s.id = env[w].id \/ Leaving(s.id)
    BY <2>1, <2>2 DEF Single
  <2> QED BY <1>2, <2>2, <2>3
<1>3. ASSUME NEW v \in Worker, NEW w \in Worker, AtWork(v)', AtWork(w)',
             DutyOf(Carried(v)') = DutyOf(Carried(w)')
      PROVE  v = w
  BY <1>3 DEF Single, Carried
<1> QED BY <1>1, <1>2, <1>3 DEF Single, DutyOf

(* The command stands where it stood, and no row left the failure transport*)
LEMMA StillOnFailure ==
  ASSUME StillFailed, UNCHANGED <<setup, command>>,
         \A r \in rows : r.at = Failure => \E s \in rows' : s.id = r.id /\ s.at = Failure
  PROVE  StillFailed'
BY SetupFixed DEF StillFailed, NextTodo

(* No attempt is made and no command started.                              *)
LEMMA StillBudgeted ==
  ASSUME IInv, Budget, RetryEnabled, UNCHANGED <<setup, attempts>>,
         used'.commands = used.commands, accepted \subseteq accepted',
         \A w \in Worker : pc'[w] # "threw",
         \A s \in rows' : s.at # Failure /\ ~s.held =>
           \/ \E o \in rows : o.wire = s.wire /\ o.at = s.at /\ ~o.held
           \/ Affords(s.wire, 0),
         \A w \in Worker : pc'[w] = "start" =>
           \E wire : env'[w].wire = wire /\ Affords(wire, 0),
         \A w \in Worker : pc'[w] \in Trying =>
           \E wire : env'[w].wire = wire /\ Affords(wire, 1),
         \A d \in accepted' : d \in accepted \/ (d \in Duty /\ d[2] \in Transport),
         \A e \in command'.todo : ToBeRevived(e)' => ToBeRevived(e)
  PROVE  Budget'
<1>1. Allowance' = Allowance /\ MaxRetries' = MaxRetries /\ Failure' = Failure
  BY SetupFixed DEF Allowance
<1>2. \A wire, n : Affords(wire, n)' <=> Affords(wire, n)
  BY <1>1 DEF Affords, Tried
<1>3. \A s \in rows' : s.at # Failure' /\ ~s.held => Affords(s.wire, 0)'
  BY <1>1, <1>2 DEF Budget
<1>4. \A w \in Worker : pc'[w] = "start" => Affords(Carried(w), 0)'
  BY <1>1 DEF Carried, Affords, Tried
<1>5. \A w \in Worker : pc'[w] \in Trying => Affords(Carried(w), 1)'
  BY <1>1 DEF Carried, Affords, Tried
<1>6. \A d \in accepted' : attempts'[d] <= (MaxRetries' + 1) + Allowance'
  BY <1>1, Allowed DEF Budget
<1>7. \A d \in Duty : d[2] \in Transport /\ d \notin accepted' => attempts'[d] = 0
  BY DEF Budget
<1>8. \A e \in command'.todo : ToBeRevived(e)' => Tried(e.wire)' <= Allowance'
  BY <1>1 DEF Budget, Tried, ToBeRevived
<1> QED BY <1>3, <1>4, <1>5, <1>6, <1>7, <1>8 DEF Budget, Trying, Tried, Duty, Aliases

-----------------------------------------------------------------------------
(* The pipeline moves on, or a flag of the table changes                   *)

LEMMA MovedQuiet ==
  ASSUME IInv, IInv', Quiet, UNCHANGED <<setup, inFlight, command, accepted, routed>>,
         \A s \in rows' : \E o \in rows :
           o.id = s.id /\ o.at = s.at /\ o.wire = s.wire /\ o.held = s.held,
         \A o \in rows : \E s \in rows' : s.id = o.id /\ s.at = o.at,
         \A w \in Worker : /\ Busy(w)' <=> Busy(w)
                           /\ Busy(w) => env'[w].id = env[w].id /\ env'[w].wire = env[w].wire
                           /\ pc[w] = "returned" => pc'[w] = "returned"
  PROVE  Quiet'
<1>1. Registered'
  <2>1. \A w \in Worker : ~Busy(w) => inFlight[w] = {}
    BY DEF Quiet, Registered
  <2> QED BY <2>1, StillRegistered DEF Quiet
<1>2. Routed'
  <2>1. \A s \in rows' : DutyOf(s.wire) \in accepted
    BY DEF Quiet, Routed, DutyOf
  <2>2. \A w \in Worker : Busy(w)' => \E wire : env'[w].wire = wire /\ DutyOf(wire) \in accepted
    BY DEF Quiet, Routed, Carried
  <2> QED BY <2>1, <2>2, StillRouted DEF Quiet
<1>3. Single'
  <2>1. \A id : Leaving(id) => Leaving(id)'
    BY DEF Leaving, NextTodo, Busy
  <2>2. \A w \in Worker : AtWork(w)' => AtWork(w)
    BY DEF AtWork
  <2> QED BY <2>1, <2>2, StillSingle DEF Quiet, AtWork
<1>4. StillFailed'
  BY StillOnFailure DEF Quiet
<1> QED BY <1>1, <1>2, <1>3, <1>4 DEF Quiet

LEMMA MovedBudget ==
  ASSUME IInv, Budget, UNCHANGED <<setup, command, accepted, attempts>>,
         used'.commands = used.commands,
         \A s \in rows' : \E o \in rows : o.at = s.at /\ o.wire = s.wire /\ o.held = s.held,
         RetryEnabled => \A w \in Worker :
           /\ pc'[w] = "threw" => pc[w] = "threw"
           /\ pc'[w] = "start" => pc[w] = "start" /\ env'[w].wire = env[w].wire
           /\ pc'[w] \in Trying => pc[w] \in Trying /\ env'[w].wire = env[w].wire
  PROVE  Budget'
<1> SUFFICES ASSUME RetryEnabled PROVE Budget'
  BY SetupFixed DEF Budget
<1>1. \A w \in Worker : pc'[w] # "threw"
  BY DEF Budget
<1>2. \A s \in rows' : s.at # Failure /\ ~s.held =>
        \/ \E o \in rows : o.wire = s.wire /\ o.at = s.at /\ ~o.held
        \/ Affords(s.wire, 0)
  OBVIOUS
<1>3. \A w \in Worker : pc'[w] = "start" => \E wire : env'[w].wire = wire /\ Affords(wire, 0)
  BY DEF Budget, Carried
<1>4. \A w \in Worker : pc'[w] \in Trying => \E wire : env'[w].wire = wire /\ Affords(wire, 1)
  BY DEF Budget, Carried
<1>5. \A e \in command'.todo : ToBeRevived(e)' => ToBeRevived(e)
  BY DEF ToBeRevived, NextTodo
<1> QED BY <1>1, <1>2, <1>3, <1>4, <1>5, StillBudgeted

LEMMA BecomeDueQuiet ==
  ASSUME IInv, IInv', Quiet, Budget, NEW r \in rows, BecomeDue(r)
  PROVE  Quiet' /\ Budget'
<1>f. UNCHANGED <<setup, nextId, pipelineVars, command, used, historyVars>>
  BY DEF BecomeDue
<1>1. PICK q : /\ rows' = (rows \ {r}) \union {q}
              /\ q.id = r.id /\ q.at = r.at /\ q.wire = r.wire /\ q.held = r.held
  <2> DEFINE q == [r EXCEPT !.due = TRUE]
  <2>1. r \in Row /\ rows' = (rows \ {r}) \union {q}
    BY DEF BecomeDue, IInv, TypeOK
  <2>2. q.id = r.id /\ q.at = r.at /\ q.wire = r.wire /\ q.held = r.held
    BY <2>1 DEF Row
  <2> HIDE DEF q
  <2> QED BY <2>1, <2>2
<1>2. \A s \in rows' : \E o \in rows :
        o.id = s.id /\ o.at = s.at /\ o.wire = s.wire /\ o.held = s.held
  BY <1>1
<1>3. \A o \in rows : \E s \in rows' : s.id = o.id /\ s.at = o.at
  BY <1>1
<1>4. Quiet'
  BY <1>f, <1>2, <1>3, MovedQuiet DEF pipelineVars, historyVars, Busy
<1>5. Budget'
  BY <1>f, <1>2, MovedBudget DEF pipelineVars, historyVars
<1> QED BY <1>4, <1>5

(* A claimed row is in the registry of a worker: its timeout is a fault.   *)
LEMMA ExpireIsAFault ==
  ASSUME IInv, Registered, NEW r \in rows, Expire(r)
  PROVE  used'.faults # 0
<1>1. PICK w \in Worker : Busy(w) /\ env[w].id = r.id
  BY DEF Registered, Expire
<1>2. inFlight[w] = {env[w].id}
  BY <1>1 DEF Registered
<1>3. r.id \in inFlight[w]
  BY <1>1, <1>2
<1> QED BY <1>3, FaultFacts DEF Expire

LEMMA StutterQuiet ==
  ASSUME IInv, IInv', Quiet, Budget, UNCHANGED vars
  PROVE  Quiet' /\ Budget'
<1>f. UNCHANGED <<setup, rows, nextId, pipelineVars, command, used, historyVars>>
  BY DEF vars
<1>1. Quiet'
  BY <1>f, MovedQuiet DEF pipelineVars, historyVars, Busy
<1>2. Budget'
  BY <1>f, MovedBudget DEF pipelineVars, historyVars
<1> QED BY <1>1, <1>2

LEMMA RestartQuiet ==
  ASSUME IInv, IInv', Quiet, Budget, NEW w \in Worker, Restart(w)
  PROVE  Quiet' /\ Budget'
<1>f. UNCHANGED <<setup, rows, nextId, env, ran, routed, inFlight, command, used, historyVars>>
  BY DEF Restart
<1>1. /\ pc[w] = "stopped" /\ pc' = [pc EXCEPT ![w] = "idle"]
      /\ pc \in [Actor -> {"start", "route", "handle", "resend", "deadletter",
                           "returned", "threw", "idle", "stopped"}]
  BY DEF Restart, Goto, IInv, TypeOK
<1>2. \A v \in Worker : pc'[v] = IF v = w THEN "idle" ELSE pc[v]
  BY <1>1 DEF Actor
<1>3. Quiet'
  BY <1>f, <1>1, <1>2, MovedQuiet DEF historyVars, Busy
<1>4. Budget'
  BY <1>f, <1>1, <1>2, MovedBudget DEF historyVars, Trying
<1> QED BY <1>3, <1>4

LEMMA HandlerSucceedsQuiet ==
  ASSUME IInv, IInv', Quiet, Budget, NEW a \in Actor, HandlerSucceeds(a)
  PROVE  Quiet' /\ Budget'
<1>f. UNCHANGED <<setup, rows, nextId, env, routed, inFlight, command, used,
                  accepted, discarded, attempts>>
  BY DEF HandlerSucceeds
<1>1. \A v \in Worker : \/ pc'[v] = pc[v]
                        \/ v = a /\ pc[v] = "handle" /\ pc'[v] = "returned"
  <2>1. pc[a] = "handle" /\ (pc' = pc \/ pc' = [pc EXCEPT ![a] = "returned"])
    BY DEF HandlerSucceeds, Goto
  <2> QED BY <2>1 DEF IInv, TypeOK, Actor
<1>2. Quiet'
  BY <1>f, <1>1, MovedQuiet DEF Busy
<1>3. Budget'
  BY <1>f, <1>1, MovedBudget DEF Trying
<1> QED BY <1>2, <1>3

(* With a retry policy a worker never rejects: what it has came from a     *)
(* transport.                                                              *)
LEMMA HandlerFailsQuiet ==
  ASSUME IInv, IInv', Quiet, Budget, NEW a \in Actor, HandlerFails(a)
  PROVE  Quiet' /\ Budget'
<1>f. UNCHANGED <<setup, rows, nextId, env, ran, routed, inFlight, command,
                  accepted, completed, ranOk, attempts>>
  BY DEF HandlerFails
<1>0. used'.commands = used.commands
  <2>1. used' = [used EXCEPT !.failures = used.failures + 1]
    BY DEF HandlerFails
  <2> DEFINE k == used.failures + 1
  <2>2. used' = [used EXCEPT !.failures = k]
    BY <2>1
  <2> HIDE DEF k
  <2> QED BY <2>2 DEF IInv, TypeOK
<1>1. \A v \in Worker :
        \/ pc'[v] = pc[v]
        \/ /\ v = a /\ pc[v] = "handle" /\ pc'[v] \in {"threw", "resend", "deadletter", "returned"}
           /\ RetryEnabled => pc'[v] # "threw"
  <2>1. /\ pc[a] = "handle"
        /\ \/ /\ ~RetryEnabled \/ env[a].receivedFrom = NoTransport
              /\ pc' = [pc EXCEPT ![a] = "threw"]
           \/ pc' = [pc EXCEPT ![a] = "resend"]
           \/ pc' = [pc EXCEPT ![a] = "deadletter"]
           \/ pc' = [pc EXCEPT ![a] = "returned"]
    BY DEF HandlerFails, Goto
  <2>2. a \in Worker => env[a].receivedFrom # NoTransport
    BY <2>1, Deployment, HasEnvelope DEF IInv, Workers, WorkerFits, Busy
  <2>3. pc \in [Actor -> {"start", "route", "handle", "resend", "deadletter",
                          "returned", "threw", "idle", "stopped"}]
    BY DEF IInv, TypeOK
  <2> QED BY <2>1, <2>2, <2>3 DEF Actor
<1>2. Quiet'
  BY <1>f, <1>1, MovedQuiet DEF Busy
<1>3. Budget'
  BY <1>f, <1>0, <1>1, MovedBudget DEF Trying
<1> QED BY <1>2, <1>3

(* The one attempt that is made is the next of the only envelope of its    *)
(* duty that is left.                                                      *)
LEMMA EnterQuiet ==
  ASSUME IInv, IInv', Undisturbed, Quiet, Budget, NEW a \in Actor, Enter(a)
  PROVE  Quiet' /\ Budget'
<1>f. UNCHANGED <<setup, rows, nextId, routed, inFlight, command, used,
                  accepted, completed, discarded, ranOk>>
  BY DEF Enter
<1>e. \A v \in Worker : Busy(v) => env'[v].id = env[v].id /\ env'[v].wire = env[v].wire
  <2>1. env' = [env EXCEPT ![a] = RestoreOrigin(env[a])] /\ pc[a] = "start"
    BY DEF Enter
  <2>2. ASSUME NEW v \in Worker, Busy(v)
        PROVE  env'[v].id = env[v].id /\ env'[v].wire = env[v].wire
    <3>1. env[v] \in Envelope
      BY <2>2, HasEnvelope
    <3>2. RestoreOrigin(env[v]).id = env[v].id /\ RestoreOrigin(env[v]).wire = env[v].wire
      BY <3>1 DEF RestoreOrigin, Envelope
    <3>3. env'[v] = env[v] \/ env'[v] = RestoreOrigin(env[v])
      BY <2>1 DEF IInv, TypeOK, Actor
    <3> QED BY <3>2, <3>3
  <2> QED BY <2>2
<1>p. /\ pc[a] = "start"
      /\ \A v \in Worker : pc'[v] = IF v = a THEN "handle" ELSE pc[v]
  <2>1. /\ pc[a] = "start"
        /\ \/ a \in Message /\ pc' = [pc EXCEPT ![a] = "route"]
           \/ pc' = [pc EXCEPT ![a] = "handle"]
    BY DEF Enter, Goto
  <2> QED BY <2>1, NamesAssumption DEF IInv, TypeOK, Actor
<1>1. Quiet'
  BY <1>f, <1>e, <1>p, MovedQuiet DEF Busy
<1>2. CASE attempts' = attempts
  <2>1. a \in Message
    <3>1. CASE a \in Message /\ Routes[a] # <<>>
      BY <3>1
    <3>2. CASE ~(a \in Message /\ Routes[a] # <<>>)
      <4>1. attempts' = [attempts EXCEPT ![DutyOf(Carried(a))] = @ + 1]
        BY <3>2 DEF Enter
      <4>2. DutyOf(Carried(a)) \in Duty
        BY <1>p, HasEnvelope DEF Actor, Busy
      <4>3. attempts'[DutyOf(Carried(a))] = attempts[DutyOf(Carried(a))] + 1
        BY <4>1, <4>2 DEF IInv, TypeOK
      <4>4. attempts[DutyOf(Carried(a))] \in Nat
        BY <4>2 DEF IInv, TypeOK
      <4> QED BY <1>2, <4>3, <4>4
    <3> QED BY <3>1, <3>2
  <2>2. \A v \in Worker : pc'[v] = pc[v]
    BY <1>p, <2>1, NamesAssumption
  <2>3. \A v \in Worker : pc[v] \in Trying \union {"start"} => Busy(v)
    BY DEF Trying, Busy
  <2> QED BY <1>f, <1>e, <1>1, <1>2, <2>2, <2>3, MovedBudget DEF Trying
<1>3. CASE attempts' # attempts
  <2>1. PICK d \in Duty : /\ d = DutyOf(Carried(a))
                         /\ attempts' = [attempts EXCEPT ![d] = @ + 1]
    <3>1. DutyOf(Carried(a)) \in Duty
      BY <1>p, HasEnvelope DEF Actor, Busy
    <3>2. attempts' = [attempts EXCEPT ![DutyOf(Carried(a))] = @ + 1]
      BY <1>3 DEF Enter
    <3> QED BY <3>1, <3>2
  <2>2. \A c \in Duty : attempts'[c] = IF c = d THEN attempts[c] + 1 ELSE attempts[c]
    BY <2>1 DEF IInv, TypeOK
  <2>3. \A wire \in Wire, n \in Nat :
          DutyOf(wire) # d /\ Affords(wire, n) => Affords(wire, n)'
    <3> SUFFICES ASSUME NEW wire \in Wire, NEW n \in Nat, DutyOf(wire) # d, Affords(wire, n)
                 PROVE  Affords(wire, n)'
      OBVIOUS
    <3>1. attempts'[DutyOf(wire)] = attempts[DutyOf(wire)]
      BY <2>2, WireFields
    <3>2. Allowance' = Allowance /\ MaxRetries' = MaxRetries
      BY <1>f, SetupFixed DEF Allowance
    <3> QED BY <3>1, <3>2 DEF Affords, Tried
  <2>4. \A wire \in Wire : Affords(wire, 0) => Affords(wire, 1)'
    <3> SUFFICES ASSUME NEW wire \in Wire, Affords(wire, 0)
                 PROVE  Affords(wire, 1)'
      OBVIOUS
    <3>1. PICK n \in Nat : n = attempts[DutyOf(wire)]
      BY WireFields DEF IInv, TypeOK
    <3>2. attempts'[DutyOf(wire)] <= n + 1
      BY <2>2, <3>1, WireFields
    <3>3. Allowance' = Allowance /\ MaxRetries' = MaxRetries
      BY <1>f, SetupFixed DEF Allowance
    <3>4. attempts'[DutyOf(wire)] \in Nat /\ wire.count \in Nat /\ Allowance \in Nat
      BY WireFields, Allowed DEF IInv, TypeOK, Duty, Aliases
    <3>5. n <= wire.count + 0 + Allowance /\ wire.count <= MaxRetries
      BY <3>1 DEF Affords, Tried
    <3> QED BY <3>1, <3>2, <3>3, <3>4, <3>5 DEF Affords, Tried
  <2>c. a \in Message => d = <<a, NoTransport>>
    BY <2>1, HasEnvelope, NewEnvelopeFacts DEF Carried, DutyOf
  <2>5. \A c \in accepted : c = d => a \in Worker
    <3> SUFFICES ASSUME d \in accepted, a \in Message PROVE FALSE
      BY DEF Actor
    <3>1. routed[a] = 0 /\ NoTransport \in Aliases
      BY <1>p DEF IInv, Callers, CallerFits, Aliases
    <3>2. \E i \in 1 .. routed[a] : Routes[a][i] = NoTransport
      BY <2>c, <3>1 DEF Quiet, Routed
    <3> QED BY <3>1, <3>2
  <2>6. \A w \in Worker : AtWork(w) /\ DutyOf(Carried(w)) = d => w = a
    <3> SUFFICES ASSUME NEW w \in Worker, AtWork(w), DutyOf(Carried(w)) = d PROVE w = a
      OBVIOUS
    <3>1. CASE a \in Worker
      BY <1>p, <2>1, <3>1 DEF Quiet, Single, AtWork, Busy
    <3>2. CASE a \in Message
      <4>1. Carried(w).home \in Transport
        BY HasEnvelope DEF AtWork
      <4> QED BY <2>c, <3>2, <4>1, NamesAssumption DEF DutyOf
    <3> QED BY <3>1, <3>2 DEF Actor
  <2>7. \A s \in rows : s.at # Failure /\ ~s.held => DutyOf(s.wire) # d
    <3> SUFFICES ASSUME NEW s \in rows, s.at # Failure, ~s.held, DutyOf(s.wire) = d PROVE FALSE
      OBVIOUS
    <3>1. a \in Worker
      BY <2>5 DEF Quiet, Routed
    <3>2. AtWork(a)
      BY <1>p DEF AtWork, Busy
    <3>3. s.id = env[a].id \/ Leaving(s.id)
      BY <2>1, <3>1, <3>2 DEF Quiet, Single
    <3>4. Registered /\ StillFailed
      BY DEF Quiet
    <3> QED BY <3>1, <3>2, <3>3, <3>4, OperatorsRows DEF AtWork
  <2>8. \A e \in command.todo : ToBeRevived(e) => DutyOf(e.wire) # d
    <3> SUFFICES ASSUME NEW e \in command.todo, ToBeRevived(e), DutyOf(e.wire) = d PROVE FALSE
      OBVIOUS
    <3>1. CASE a \in Worker
      <4>1. AtWork(a)
        BY <1>p DEF AtWork, Busy
      <4> QED BY <2>1, <3>1, <4>1, NobodyRevives
    <3>2. CASE a \in Message
      <4>1. e.wire.home \in Transport
        BY DEF IInv, SnapshotFacts, ToBeRevived, Fits
      <4> QED BY <2>c, <3>2, <4>1, NamesAssumption DEF DutyOf
    <3> QED BY <3>1, <3>2 DEF Actor
  <2> SUFFICES ASSUME RetryEnabled PROVE Budget'
    BY <1>1, <1>f, SetupFixed DEF Budget
  <2>a. Allowance' = Allowance /\ MaxRetries' = MaxRetries /\ Failure' = Failure
    BY <1>f, SetupFixed DEF Allowance
  <2>w. \A v \in Worker : Busy(v) => Carried(v) \in Wire /\ Carried(v)' = Carried(v)
    BY <1>e, HasEnvelope DEF Carried
  <2>11. \A w \in Worker : pc'[w] # "threw"
    BY <1>p DEF Budget
  <2>12. \A r \in rows' : r.at # Failure' /\ ~r.held => Affords(r.wire, 0)'
    <3> SUFFICES ASSUME NEW r \in rows, r.at # Failure, ~r.held PROVE Affords(r.wire, 0)'
      BY <1>f, <2>a
    <3>1. r.wire \in Wire
      BY RowFields DEF IInv, TypeOK
    <3> QED BY <2>3, <2>7, <3>1 DEF Budget
  <2>13. \A w \in Worker : pc'[w] = "start" => Affords(Carried(w), 0)'
    <3> SUFFICES ASSUME NEW w \in Worker, pc'[w] = "start" PROVE Affords(Carried(w), 0)'
      OBVIOUS
    <3>1. pc[w] = "start" /\ w # a
      BY <1>p
    <3>2. Busy(w) /\ AtWork(w)
      BY <3>1 DEF AtWork, Busy
    <3>3. PICK wire \in Wire : wire = Carried(w) /\ Carried(w)' = wire
      BY <2>w, <3>2
    <3>4. Affords(wire, 0)'
      BY <2>3, <2>6, <3>1, <3>2, <3>3 DEF Budget
    <3> QED BY <3>3, <3>4 DEF Affords, Tried
  <2>14. \A w \in Worker : pc'[w] \in Trying => Affords(Carried(w), 1)'
    <3> SUFFICES ASSUME NEW w \in Worker, pc'[w] \in Trying PROVE Affords(Carried(w), 1)'
      OBVIOUS
    <3>1. (pc[w] \in Trying /\ w # a) \/ (pc[w] = "start" /\ w = a)
      BY <1>p
    <3>2. Busy(w) /\ AtWork(w)
      BY <3>1 DEF AtWork, Busy, Trying
    <3>3. PICK wire \in Wire : wire = Carried(w) /\ Carried(w)' = wire
      BY <2>w, <3>2
    <3>4. Affords(wire, 1)'
      BY <2>3, <2>4, <2>6, <3>1, <3>2, <3>3 DEF Budget
    <3> QED BY <3>3, <3>4 DEF Affords, Tried
  <2>15. \A c \in accepted' : attempts'[c] <= (MaxRetries' + 1) + Allowance'
    <3> SUFFICES ASSUME NEW c \in accepted PROVE attempts'[c] <= (MaxRetries + 1) + Allowance
      BY <1>f, <2>a
    <3>1. c \in Duty
      BY DEF IInv, TypeOK
    <3>2. CASE c # d
      BY <2>2, <3>1, <3>2 DEF Budget
    <3>3. CASE c = d
      <4>1. a \in Worker
        BY <2>5, <3>3
      <4>2. Affords(Carried(a), 0) /\ Carried(a) \in Wire
        BY <1>p, <4>1, <2>w DEF Budget, Busy
      <4>3. attempts[d] <= Carried(a).count + 0 + Allowance /\ Carried(a).count <= MaxRetries
        BY <2>1, <4>2 DEF Affords, Tried
      <4>4. Carried(a).count \in Nat /\ attempts[d] \in Nat /\ Allowance \in Nat /\ MaxRetries \in Nat
        BY <4>2, WireFields, Allowed
      <4>5. attempts'[c] = attempts[d] + 1
        BY <2>2, <3>3
      <4> QED BY <4>3, <4>4, <4>5
    <3> QED BY <3>2, <3>3
  <2>16. \A c \in Duty : c[2] \in Transport /\ c \notin accepted' => attempts'[c] = 0
    <3> SUFFICES ASSUME NEW c \in Duty, c[2] \in Transport, c \notin accepted
                 PROVE  attempts'[c] = 0
      BY <1>f
    <3>1. c # d
      <4>1. CASE a \in Worker
        BY <1>p, <2>1, <4>1 DEF Quiet, Routed, Busy
      <4>2. CASE a \in Message
        BY <2>c, <4>2, NamesAssumption
      <4> QED BY <4>1, <4>2 DEF Actor
    <3> QED BY <2>2, <3>1 DEF Budget
  <2>17. \A e \in command'.todo : ToBeRevived(e)' => Tried(e.wire)' <= Allowance'
    <3> SUFFICES ASSUME NEW e \in command.todo, ToBeRevived(e)
                 PROVE  Tried(e.wire)' <= Allowance
      BY <1>f, <2>a DEF ToBeRevived, NextTodo
    <3>1. e.wire \in Wire
      BY DEF IInv, TypeOK
    <3>2. attempts'[DutyOf(e.wire)] = attempts[DutyOf(e.wire)]
      BY <2>2, <2>8, <3>1, WireFields
    <3> QED BY <3>2 DEF Budget, Tried
  <2> QED BY <2>11, <2>12, <2>13, <2>14, <2>15, <2>16, <2>17
          DEF Budget, Trying, Tried, Duty, Aliases
<1> QED BY <1>1, <1>2, <1>3

-----------------------------------------------------------------------------
(* Rows come and go                                                        *)

LEMMA CleanSend ==
  ASSUME IInv, NEW a, NEW alias, NEW wire, NEW ok, SendTo(a, alias, wire, ok),
         used'.faults = 0
  PROVE  /\ rows' = rows \union {NewRow(alias, wire)} /\ nextId' = nextId + 1
         /\ pc' = [pc EXCEPT ![a] = ok] /\ used' = used
BY FaultFacts DEF SendTo, Insert, Goto

LEMMA ReceiveQuiet ==
  ASSUME IInv, IInv', Undisturbed, Quiet, Budget, NEW w \in Worker, Receive(w)
  PROVE  Quiet' /\ Budget'
<1>f. /\ UNCHANGED <<setup, nextId, ran, routed, command, used, historyVars>>
      /\ pc[w] = "idle" /\ pc' = [pc EXCEPT ![w] = "start"]
  BY DEF Receive, Goto
<1>r. PICK r \in rows :
        /\ r.at = Consumes[w] /\ ~r.held
        /\ rows' = (rows \ {r}) \union {[r EXCEPT !.held = TRUE]}
        /\ env' = [env EXCEPT ![w] = [wire |-> r.wire, id |-> r.id, receivedFrom |-> r.at]]
        /\ inFlight' = [inFlight EXCEPT ![w] = @ \union {r.id}]
  BY DEF Receive, MayClaim, Claimable
<1>q. PICK q : /\ rows' = (rows \ {r}) \union {q}
              /\ q.id = r.id /\ q.at = r.at /\ q.wire = r.wire /\ q.held
  <2> DEFINE q == [r EXCEPT !.held = TRUE]
  <2>1. r \in Row /\ rows' = (rows \ {r}) \union {q}
    BY <1>r DEF IInv, TypeOK
  <2>2. q.id = r.id /\ q.at = r.at /\ q.wire = r.wire /\ q.held
    BY <2>1 DEF Row
  <2> HIDE DEF q
  <2> QED BY <2>1, <2>2
<1>w. /\ \A v \in Worker : v # w =>
            pc'[v] = pc[v] /\ env'[v] = env[v] /\ inFlight'[v] = inFlight[v]
      /\ pc'[w] = "start" /\ env'[w].id = r.id /\ env'[w].wire = r.wire
      /\ inFlight'[w] = {r.id}
  <2>1. inFlight[w] = {}
    BY <1>f DEF Quiet, Registered, Busy
  <2> QED BY <1>f, <1>r, <2>1 DEF IInv, TypeOK, Actor
<1>b. /\ Busy(w)' /\ AtWork(w)' /\ ~Busy(w)
      /\ \A v \in Worker : v # w => (Busy(v)' <=> Busy(v)) /\ (AtWork(v)' <=> AtWork(v))
  BY <1>f, <1>w DEF Busy, AtWork
<1>c. /\ \A s \in rows' : s = q \/ (s \in rows /\ s # r /\ s.id # r.id)
      /\ \A o \in rows : \E s \in rows' : s.id = o.id /\ s.at = o.at
  BY <1>q DEF IInv, RowFacts
<1>n. \A v \in Worker : Busy(v) => env[v].id # r.id
  BY <1>r DEF Quiet, Registered
<1>l. /\ ~Leaving(r.id)
      /\ \A id : Leaving(id) => Leaving(id)'
  <2>1. ~Leaving(r.id)
    BY <1>r, OperatorsRows DEF Quiet, Undisturbed, OperatorAlone
  <2>2. \A v \in Worker : pc[v] = "returned" => pc'[v] = "returned" /\ env'[v] = env[v]
    BY <1>f, <1>w
  <2>3. \A id : Leaving(id) => Leaving(id)'
    BY <1>f, <2>2 DEF Leaving, NextTodo
  <2> QED BY <2>1, <2>3
<1>1. Registered'
  <2>0. Consumes' = Consumes
    BY <1>f, SetupFixed
  <2>1. \A v \in Worker : inFlight'[v] = IF Busy(v)' THEN {env'[v].id} ELSE {}
    <3> SUFFICES ASSUME NEW v \in Worker
                 PROVE  inFlight'[v] = IF Busy(v)' THEN {env'[v].id} ELSE {}
      OBVIOUS
    <3>1. CASE v = w
      BY <1>w, <1>b, <3>1
    <3>2. CASE v # w
      BY <1>w, <1>b, <3>2 DEF Quiet, Registered
    <3> QED BY <3>1, <3>2
  <2>2. \A v \in Worker : Busy(v)' =>
          \A s \in rows' : s.id = env'[v].id => s.held /\ s.at = Consumes'[v]
    <3> SUFFICES ASSUME NEW v \in Worker, Busy(v)', NEW s \in rows', s.id = env'[v].id
                 PROVE  s.held /\ s.at = Consumes[v]
      BY <2>0
    <3>1. CASE v = w
      BY <1>r, <1>q, <1>w, <1>c, <3>1
    <3>2. CASE v # w
      <4>1. Busy(v) /\ env[v].id = s.id
        BY <1>w, <1>b, <3>2
      <4>2. s \in rows
        BY <1>q, <1>c, <1>n, <4>1
      <4> QED BY <4>1, <4>2 DEF Quiet, Registered
    <3> QED BY <3>1, <3>2
  <2>3. \A v, u \in Worker : Busy(v)' /\ Busy(u)' /\ env'[v].id = env'[u].id => v = u
    <3> SUFFICES ASSUME NEW v \in Worker, NEW u \in Worker, Busy(v)', Busy(u)',
                        env'[v].id = env'[u].id, v # u
                 PROVE  FALSE
      OBVIOUS
    <3>1. CASE v # w /\ u # w
      BY <1>w, <1>b, <3>1 DEF Quiet, Registered
    <3>2. CASE v = w \/ u = w
      BY <1>w, <1>b, <1>n, <3>2
    <3> QED BY <3>1, <3>2
  <2>4. \A s \in rows' : s.held => \E v \in Worker : Busy(v)' /\ env'[v].id = s.id
    <3> SUFFICES ASSUME NEW s \in rows', s.held
                 PROVE  \E v \in Worker : Busy(v)' /\ env'[v].id = s.id
      OBVIOUS
    <3>1. CASE s = q
      BY <1>q, <1>w, <1>b, <3>1
    <3>2. CASE s # q
      <4>1. s \in rows
        BY <1>c, <3>2
      <4>2. PICK v \in Worker : Busy(v) /\ env[v].id = s.id
        BY <4>1 DEF Quiet, Registered
      <4> QED BY <1>w, <1>b, <4>2
    <3> QED BY <3>1, <3>2
  <2> QED BY <2>1, <2>2, <2>3, <2>4 DEF Registered
<1>2. Routed'
  <2>1. UNCHANGED <<setup, accepted, routed>>
    BY <1>f DEF historyVars
  <2>2. \A s \in rows' : DutyOf(s.wire) \in accepted
    BY <1>q, <1>c DEF Quiet, Routed, DutyOf
  <2>3. \A v \in Worker : Busy(v)' => \E wire : env'[v].wire = wire /\ DutyOf(wire) \in accepted
    <3> SUFFICES ASSUME NEW v \in Worker, Busy(v)'
                 PROVE  \E wire : env'[v].wire = wire /\ DutyOf(wire) \in accepted
      OBVIOUS
    <3>1. CASE v = w
      BY <1>w, <3>1 DEF Quiet, Routed
    <3>2. CASE v # w
      BY <1>w, <1>b, <3>2 DEF Quiet, Routed, Carried
    <3> QED BY <3>1, <3>2
  <2> QED BY <2>1, <2>2, <2>3, StillRouted DEF Quiet
<1>3. Single'
  <2>d. \A v \in Worker : AtWork(v) => DutyOf(Carried(v)) # DutyOf(r.wire)
    BY <1>n, <1>l DEF Quiet, Single, AtWork
  <2>o. \A s \in rows' : \E o \in rows : o.id = s.id /\ o.wire = s.wire /\ (o = r <=> s = q)
    BY <1>q, <1>c
  <2>1. ASSUME NEW s \in rows', NEW t \in rows', DutyOf(s.wire) = DutyOf(t.wire),
               ~Leaving(s.id)', ~Leaving(t.id)'
        PROVE  s = t
    <3>1. PICK o \in rows : o.id = s.id /\ o.wire = s.wire
      BY <2>o
    <3>2. PICK p \in rows : p.id = t.id /\ p.wire = t.wire
      BY <2>o
    <3>3. ~Leaving(o.id) /\ ~Leaving(p.id)
      BY <1>l, <2>1, <3>1, <3>2
    <3>4. o = p
      BY <2>1, <3>1, <3>2, <3>3 DEF Quiet, Single
    <3> QED BY <2>1, <3>1, <3>2, <3>4 DEF IInv, RowFacts
  <2>2. ASSUME NEW v \in Worker, AtWork(v)', NEW s \in rows',
               DutyOf(s.wire) = DutyOf(Carried(v)')
        PROVE  s.id = env'[v].id \/ Leaving(s.id)'
    <3>0. PICK o \in rows : o.id = s.id /\ o.wire = s.wire
      BY <2>o
    <3>1. CASE v = w
      <4>1. DutyOf(o.wire) = DutyOf(r.wire)
        BY <1>w, <2>2, <3>0, <3>1 DEF Carried
      <4>2. o = r \/ Leaving(o.id)
        BY <1>l, <4>1 DEF Quiet, Single
      <4> QED BY <1>w, <1>l, <3>0, <3>1, <4>2
    <3>2. CASE v # w
      <4>1. AtWork(v) /\ DutyOf(o.wire) = DutyOf(Carried(v)) /\ env'[v] = env[v]
        BY <1>w, <1>b, <2>2, <3>0, <3>2 DEF Carried
      <4>2. o.id = env[v].id \/ Leaving(o.id)
        BY <4>1 DEF Quiet, Single
      <4> QED BY <1>l, <3>0, <4>1, <4>2
    <3> QED BY <3>1, <3>2
  <2>3. ASSUME NEW v \in Worker, NEW u \in Worker, AtWork(v)', AtWork(u)',
               DutyOf(Carried(v)') = DutyOf(Carried(u)')
        PROVE  v = u
    <3>1. CASE v # w /\ u # w
      <4>1. AtWork(v) /\ AtWork(u) /\ DutyOf(Carried(v)) = DutyOf(Carried(u))
        BY <1>w, <1>b, <2>3, <3>1 DEF Carried
      <4> QED BY <4>1 DEF Quiet, Single
    <3>2. CASE v = w /\ u # w
      <4>1. AtWork(u) /\ DutyOf(Carried(u)) = DutyOf(r.wire)
        BY <1>w, <1>b, <2>3, <3>2 DEF Carried
      <4> QED BY <2>d, <4>1
    <3>3. CASE v # w /\ u = w
      <4>1. AtWork(v) /\ DutyOf(Carried(v)) = DutyOf(r.wire)
        BY <1>w, <1>b, <2>3, <3>3 DEF Carried
      <4> QED BY <2>d, <4>1
    <3> QED BY <3>1, <3>2, <3>3
  <2> QED BY <2>1, <2>2, <2>3 DEF Single, DutyOf
<1>4. StillFailed'
  <2>1. UNCHANGED <<setup, command>>
    BY <1>f
  <2> QED BY <1>c, <2>1, StillOnFailure DEF Quiet
<1>5. Budget'
  <2> SUFFICES ASSUME RetryEnabled PROVE Budget'
    BY <1>f, SetupFixed DEF Budget
  <2>0. UNCHANGED <<setup, attempts, accepted, command>> /\ used'.commands = used.commands
    BY <1>f DEF historyVars
  <2>1. \A v \in Worker : pc'[v] # "threw"
    BY <1>w DEF Budget
  <2>2. \A s \in rows' : s.at # Failure /\ ~s.held =>
          \/ \E o \in rows : o.wire = s.wire /\ o.at = s.at /\ ~o.held
          \/ Affords(s.wire, 0)
    BY <1>q, <1>c
  <2>3. \A v \in Worker : pc'[v] = "start" => \E wire : env'[v].wire = wire /\ Affords(wire, 0)
    <3> SUFFICES ASSUME NEW v \in Worker, pc'[v] = "start"
                 PROVE  \E wire : env'[v].wire = wire /\ Affords(wire, 0)
      OBVIOUS
    <3>1. CASE v = w
      <4>1. r.at # Failure
        BY <1>r DEF Undisturbed, OperatorAlone
      <4>2. Affords(r.wire, 0)
        BY <1>r, <4>1 DEF Budget
      <4> QED BY <1>w, <3>1, <4>2
    <3>2. CASE v # w
      BY <1>w, <3>2 DEF Budget, Carried
    <3> QED BY <3>1, <3>2
  <2>4. \A v \in Worker : pc'[v] \in Trying => \E wire : env'[v].wire = wire /\ Affords(wire, 1)
    BY <1>w DEF Budget, Carried, Trying
  <2>5. \A e \in command'.todo : ToBeRevived(e)' => ToBeRevived(e)
    BY <2>0 DEF ToBeRevived, NextTodo
  <2> QED BY <2>0, <2>1, <2>2, <2>3, <2>4, <2>5, StillBudgeted
<1> QED BY <1>1, <1>2, <1>3, <1>4, <1>5 DEF Quiet

(* The first copy of its duty.                                             *)
LEMMA RouteQuiet ==
  ASSUME IInv, IInv', Undisturbed, Quiet, Budget, NEW m \in Message, Route(m),
         used'.faults = 0
  PROVE  Quiet' /\ Budget'
<1>d. PICK alias, copy :
        /\ alias = Routes[m][routed[m] + 1]
        /\ copy = [Carried(m) EXCEPT !.home = alias]
        /\ SendTo(m, alias, copy, IF routed[m] + 1 = Len(Routes[m]) THEN "returned" ELSE "route")
        /\ routed' = [routed EXCEPT ![m] = @ + 1]
        /\ accepted' = IF rows' = rows THEN accepted ELSE accepted \union {DutyOf(copy)}
  BY DEF Route
<1>f. pc[m] = "route" /\ UNCHANGED <<setup, env, ran, inFlight, command, attempts>>
  BY DEF Route
<1>k. PICK ok : /\ rows' = rows \union {NewRow(alias, copy)}
               /\ pc' = [pc EXCEPT ![m] = ok] /\ used' = used
  <2>1. PICK ok : SendTo(m, alias, copy, ok)
    BY <1>d
  <2> QED BY <2>1, CleanSend
<1>q. PICK q : /\ rows' = rows \union {q}
              /\ q.id = nextId /\ q.at = alias /\ q.wire = copy /\ q.held = FALSE
  <2>1. PICK q : q = NewRow(alias, copy)
    OBVIOUS
  <2>2. q.id = nextId /\ q.at = alias /\ q.wire = copy /\ q.held = FALSE
    BY <2>1 DEF NewRow
  <2> QED BY <1>k, <2>1, <2>2
<1>p. /\ \A w \in Worker : pc'[w] = pc[w] /\ env'[w] = env[w] /\ inFlight'[w] = inFlight[w]
      /\ used' = used
  BY <1>f, <1>k, Deployment DEF IInv, TypeOK
<1>a. /\ alias \in Transport \ {Failure} /\ routed[m] \in Nat
      /\ routed[m] + 1 \in DOMAIN Routes[m] /\ Len(Routes[m]) \in Nat
      /\ \A i \in 1 .. routed[m] : i \in DOMAIN Routes[m] /\ i # routed[m] + 1
  <2>1. routed[m] \in Nat /\ routed[m] < Len(Routes[m]) /\ Routes[m] \in Seq(Transport \ {Failure})
    BY <1>f, Deployment DEF IInv, TypeOK, Callers, CallerFits
  <2>2. Len(Routes[m]) \in Nat /\ DOMAIN Routes[m] = 1 .. Len(Routes[m])
    BY <2>1
  <2>3. routed[m] + 1 \in DOMAIN Routes[m] /\ Routes[m][routed[m] + 1] \in Transport \ {Failure}
    BY <2>1, <2>2
  <2> QED BY <1>d, <2>1, <2>2, <2>3
<1>c. /\ copy \in Wire /\ DutyOf(copy) = <<m, alias>> /\ copy.count = 0
      /\ copy.msg = m /\ copy.home = alias
  <2>1. Carried(m) = NewEnvelope(m).wire /\ Carried(m) \in Wire
    BY HasEnvelope DEF Carried
  <2>2. Carried(m).msg = m /\ Carried(m).count = 0
    BY <2>1 DEF NewEnvelope
  <2>3. alias \in Aliases
    BY <1>a DEF Aliases
  <2> QED BY <1>d, <2>1, <2>2, <2>3, Copies DEF DutyOf
<1>n. <<m, alias>> \notin accepted /\ <<m, alias>> \in Duty
  <2> SUFFICES ASSUME <<m, alias>> \in accepted PROVE FALSE
    BY <1>a DEF Duty, Aliases
  <2>1. alias \in Aliases
    BY <1>a DEF Aliases
  <2>2. PICK i \in 1 .. routed[m] : Routes[m][i] = alias
    BY <2>1 DEF Quiet, Routed
  <2> QED BY <1>a, <1>d, <2>2 DEF Undisturbed, RoutesApart
<1>s. accepted' = accepted \union {<<m, alias>>}
  <2>1. q \notin rows
    BY <1>q DEF IInv, TypeOK, RowFacts
  <2> QED BY <1>c, <1>d, <1>q, <2>1
<1>l. \A id : Leaving(id) => Leaving(id)'
  BY <1>f, <1>p DEF Leaving, NextTodo
<1>b. \A w \in Worker : Busy(w)' <=> Busy(w)
  BY <1>p DEF Busy
<1>1. Registered'
  <2>1. \A s \in rows' : \/ \E o \in rows : o.id = s.id /\ o.at = s.at /\ o.held = s.held
                         \/ ~s.held /\ s.id = nextId
    BY <1>q
  <2>2. \A w \in Worker : ~Busy(w) => inFlight[w] = {}
    BY DEF Quiet, Registered
  <2> QED BY <1>f, <1>p, <1>b, <2>1, <2>2, StillRegistered DEF Quiet
<1>2. Routed'
  <2>1. \A s \in rows' : DutyOf(s.wire) \in accepted'
    BY <1>q, <1>c, <1>s DEF Quiet, Routed
  <2>2. \A w \in Worker : Busy(w)' => DutyOf(Carried(w)') \in accepted'
    BY <1>p, <1>b, <1>s DEF Quiet, Routed, Carried
  <2>3. ASSUME NEW n \in Message, NEW b \in Aliases, <<n, b>> \in accepted'
        PROVE  \E i \in 1 .. routed'[n] : Routes'[n][i] = b
    <3>0. /\ Routes' = Routes /\ routed \in [Message -> Nat]
          /\ routed'[n] = IF n = m THEN routed[m] + 1 ELSE routed[n]
      BY <1>d, <1>f, SetupFixed DEF IInv, TypeOK
    <3>1. CASE <<n, b>> = <<m, alias>>
      <4>1. routed[m] + 1 \in 1 .. routed'[n]
        BY <1>a, <3>0, <3>1
      <4> QED BY <1>d, <3>0, <3>1, <4>1
    <3>2. CASE <<n, b>> \in accepted
      <4>1. PICK i \in 1 .. routed[n] : Routes[n][i] = b
        BY <3>2 DEF Quiet, Routed
      <4>2. i \in 1 .. routed'[n]
        BY <3>0
      <4> QED BY <3>0, <4>1, <4>2
    <3> QED BY <1>s, <2>3, <3>1, <3>2
  <2> QED BY <2>1, <2>2, <2>3 DEF Routed, DutyOf
<1>3. Single'
  <2>1. \A s \in rows : DutyOf(s.wire) # DutyOf(q.wire)
    BY <1>q, <1>c, <1>n DEF Quiet, Routed
  <2>2. \A w \in Worker : Busy(w) => DutyOf(Carried(w)) # DutyOf(q.wire)
    BY <1>q, <1>c, <1>n DEF Quiet, Routed
  <2>3. \A w \in Worker : AtWork(w)' => AtWork(w) /\ Busy(w)
    BY <1>p, <1>b DEF AtWork
  <2> QED BY <1>q, <1>p, <1>l, <2>1, <2>2, <2>3, AddedSingle DEF Quiet
<1>4. StillFailed'
  BY <1>f, <1>q, StillOnFailure DEF Quiet
<1>5. Budget'
  <2> SUFFICES ASSUME RetryEnabled PROVE Budget'
    BY <1>f, SetupFixed DEF Budget
  <2>1. \A w \in Worker : pc'[w] # "threw"
    BY <1>p DEF Budget
  <2>2. \A s \in rows' : s.at # Failure /\ ~s.held =>
          \/ \E o \in rows : o.wire = s.wire /\ o.at = s.at /\ ~o.held
          \/ Affords(s.wire, 0)
    <3>1. attempts[<<m, alias>>] = 0
      BY <1>a, <1>n DEF Budget
    <3>2. Affords(copy, 0)
      BY <1>c, <3>1, Allowed DEF Affords, Tried
    <3> QED BY <1>q, <3>2
  <2>3. \A w \in Worker : pc'[w] = "start" => \E wire : env'[w].wire = wire /\ Affords(wire, 0)
    BY <1>p DEF Budget, Carried
  <2>4. \A w \in Worker : pc'[w] \in Trying => \E wire : env'[w].wire = wire /\ Affords(wire, 1)
    BY <1>p DEF Budget, Carried
  <2>5. \A e \in command'.todo : ToBeRevived(e)' => ToBeRevived(e)
    BY <1>f DEF ToBeRevived, NextTodo
  <2>6. \A d \in accepted' : d \in accepted \/ (d \in Duty /\ d[2] \in Transport)
    BY <1>a, <1>n, <1>s
  <2> QED BY <1>f, <1>p, <1>s, <2>1, <2>2, <2>3, <2>4, <2>5, <2>6, StillBudgeted
<1> QED BY <1>1, <1>2, <1>3, <1>4, <1>5 DEF Quiet

(* A worker that sends its own envelope on: its row is left to the ack.    *)
LEMMA SentOnQuiet ==
  ASSUME IInv, IInv', Undisturbed, Quiet, Budget, NEW w \in Worker, AtWork(w),
         UNCHANGED <<setup, env, ran, routed, inFlight, command, historyVars>>,
         NEW alias, NEW wire \in Wire, SendTo(w, alias, wire, "returned"), used'.faults = 0,
         DutyOf(wire) = DutyOf(Carried(w)),
         RetryEnabled => alias = Failure \/ Affords(wire, 0)
  PROVE  Quiet' /\ Budget'
<1>f. UNCHANGED <<setup, env, ran, routed, inFlight, command, accepted, attempts>>
  BY DEF historyVars
<1>k. /\ rows' = rows \union {NewRow(alias, wire)}
      /\ pc' = [pc EXCEPT ![w] = "returned"] /\ used' = used
  BY CleanSend
<1>q. PICK q : /\ rows' = rows \union {q}
              /\ q.id = nextId /\ q.at = alias /\ q.wire = wire /\ q.held = FALSE
  <2>1. PICK q : q = NewRow(alias, wire)
    OBVIOUS
  <2>2. q.id = nextId /\ q.at = alias /\ q.wire = wire /\ q.held = FALSE
    BY <2>1 DEF NewRow
  <2> QED BY <1>k, <2>1, <2>2
<1>p. \A v \in Worker : pc'[v] = IF v = w THEN "returned" ELSE pc[v]
  BY <1>k DEF IInv, TypeOK, Actor
<1>b. /\ \A v \in Worker : Busy(v)' <=> Busy(v)
      /\ \A v \in Worker : AtWork(v)' <=> AtWork(v) /\ v # w
  BY <1>p DEF Busy, AtWork
<1>l. /\ \A id : Leaving(id) => Leaving(id)'
      /\ Leaving(env[w].id)'
  <2>1. Leaving(env[w].id)'
    BY <1>f, <1>p DEF Leaving
  <2>2. \A id : Leaving(id) => Leaving(id)'
    BY <1>f, <1>p DEF Leaving, NextTodo
  <2> QED BY <2>1, <2>2
<1>1. Registered'
  <2>1. \A s \in rows' : \/ \E o \in rows : o.id = s.id /\ o.at = s.at /\ o.held = s.held
                         \/ ~s.held /\ s.id = nextId
    BY <1>q
  <2>2. \A v \in Worker : ~Busy(v) => inFlight[v] = {}
    BY DEF Quiet, Registered
  <2> QED BY <1>f, <1>b, <2>1, <2>2, StillRegistered DEF Quiet
<1>2. Routed'
  <2>1. \A s \in rows' : DutyOf(s.wire) \in accepted
    BY <1>q DEF Quiet, Routed, AtWork
  <2>2. \A v \in Worker : Busy(v)' => \E u : env'[v].wire = u /\ DutyOf(u) \in accepted
    BY <1>f, <1>b DEF Quiet, Routed, Carried
  <2> QED BY <1>f, <2>1, <2>2, StillRouted DEF Quiet
<1>3. Single'
  <2>1. \A s \in rows : DutyOf(s.wire) = DutyOf(q.wire) => s.id = env[w].id \/ Leaving(s.id)
    BY <1>q DEF Quiet, Single
  <2>2. \A s \in rows : DutyOf(s.wire) = DutyOf(q.wire) => Leaving(s.id)'
    <3> SUFFICES ASSUME NEW s \in rows, DutyOf(s.wire) = DutyOf(q.wire) PROVE Leaving(s.id)'
      OBVIOUS
    <3>1. CASE s.id = env[w].id
      BY <1>f, <1>p, <3>1 DEF Leaving
    <3>2. CASE Leaving(s.id)
      BY <1>l, <3>2
    <3> QED BY <2>1, <3>1, <3>2
  <2>3. \A v \in Worker : AtWork(v) /\ v # w => DutyOf(Carried(v)) # DutyOf(q.wire)
    BY <1>q DEF Quiet, Single
  <2> QED BY <1>f, <1>q, <1>b, <1>l, <2>2, <2>3, AddedSingle DEF Quiet
<1>4. StillFailed'
  BY <1>f, <1>q, StillOnFailure DEF Quiet
<1>5. Budget'
  <2> SUFFICES ASSUME RetryEnabled PROVE Budget'
    BY <1>f, SetupFixed DEF Budget
  <2>1. \A v \in Worker : pc'[v] # "threw"
    BY <1>p DEF Budget
  <2>2. \A s \in rows' : s.at # Failure /\ ~s.held =>
          \/ \E o \in rows : o.wire = s.wire /\ o.at = s.at /\ ~o.held
          \/ Affords(s.wire, 0)
    BY <1>q
  <2>3. \A v \in Worker : pc'[v] = "start" => \E u : env'[v].wire = u /\ Affords(u, 0)
    BY <1>f, <1>p DEF Budget, Carried
  <2>4. \A v \in Worker : pc'[v] \in Trying => \E u : env'[v].wire = u /\ Affords(u, 1)
    BY <1>f, <1>p DEF Budget, Carried, Trying
  <2>5. \A e \in command'.todo : ToBeRevived(e)' => ToBeRevived(e)
    BY <1>f DEF ToBeRevived, NextTodo
  <2> QED BY <1>f, <1>k, <2>1, <2>2, <2>3, <2>4, <2>5, StillBudgeted
<1> QED BY <1>1, <1>2, <1>3, <1>4, <1>5 DEF Quiet

LEMMA ResendForRetryQuiet ==
  ASSUME IInv, IInv', Undisturbed, Quiet, Budget, NEW w \in Worker, ResendForRetry(w),
         used'.faults = 0
  PROVE  Quiet' /\ Budget'
<1>1. /\ pc[w] = "resend" /\ SendTo(w, env[w].receivedFrom, Retried(env[w]), "returned")
      /\ UNCHANGED <<setup, env, ran, routed, inFlight, command, historyVars>>
  BY DEF ResendForRetry
<1>2. AtWork(w)
  BY <1>1 DEF AtWork, Busy
<1>3. PICK old \in Wire : old = env[w].wire /\ old = Carried(w)
  BY <1>2, HasEnvelope DEF AtWork, Carried
<1>4. PICK wire : /\ wire = Retried(env[w]) /\ wire \in Wire
                 /\ DutyOf(wire) = DutyOf(old) /\ wire.count = old.count + 1
  <2>1. NoTransport \in Aliases
    BY DEF Aliases
  <2>2. Retried(env[w]) = [old EXCEPT !.count = @ + 1, !.delayed = TRUE]
    BY <1>3 DEF Retried
  <2>3. PICK wire : wire = [old EXCEPT !.count = @ + 1, !.delayed = TRUE]
    OBVIOUS
  <2>4. /\ wire \in Wire /\ wire.msg = old.msg /\ wire.home = old.home
        /\ wire.count = old.count + 1
    BY <2>1, <2>3, Copies
  <2> QED BY <2>2, <2>3, <2>4 DEF DutyOf
<1>5. RetryEnabled => Affords(wire, 0)
  <2> SUFFICES ASSUME RetryEnabled PROVE Affords(wire, 0)
    OBVIOUS
  <2>1. Affords(old, 1)
    BY <1>1, <1>3 DEF Budget, Trying
  <2>2. ~(old.count >= MaxRetries)
    BY <1>1, <1>2, <1>3 DEF IInv, Workers, WorkerFits, Exhausted, AtWork
  <2>3. old.count \in Nat /\ MaxRetries \in Nat /\ Allowance \in Nat /\ Tried(old) \in Nat
    BY WireFields, Allowed DEF Tried
  <2> QED BY <1>4, <2>1, <2>2, <2>3 DEF Affords, Tried
<1> QED BY <1>1, <1>2, <1>3, <1>4, <1>5, SentOnQuiet

LEMMA SendToFailureTransportQuiet ==
  ASSUME IInv, IInv', Undisturbed, Quiet, Budget, NEW w \in Worker, SendToFailureTransport(w),
         used'.faults = 0
  PROVE  Quiet' /\ Budget'
<1>1. /\ pc[w] = "deadletter" /\ SendTo(w, Failure, DeadLetter(env[w]), "returned")
      /\ UNCHANGED <<setup, env, ran, routed, inFlight, command, historyVars>>
  BY DEF SendToFailureTransport
<1>2. AtWork(w)
  BY <1>1 DEF AtWork, Busy
<1>3. PICK old \in Wire : old = env[w].wire /\ old = Carried(w)
  BY <1>2, HasEnvelope DEF AtWork, Carried
<1>4. PICK wire : wire = DeadLetter(env[w]) /\ wire \in Wire /\ DutyOf(wire) = DutyOf(old)
  <2>1. PICK alias \in Aliases : alias = env[w].receivedFrom
    BY <1>2, HasEnvelope, EnvelopeFields DEF AtWork
  <2>2. PICK wire : wire = [old EXCEPT !.delayed = FALSE, !.failedFrom = alias]
    OBVIOUS
  <2>3. wire \in Wire /\ wire.msg = old.msg /\ wire.home = old.home
    BY <2>2, Copies
  <2>4. wire = DeadLetter(env[w])
    BY <1>3, <2>1, <2>2 DEF DeadLetter
  <2> QED BY <2>3, <2>4 DEF DutyOf
<1> QED BY <1>1, <1>2, <1>3, <1>4, SentOnQuiet

LEMMA AckQuiet ==
  ASSUME IInv, IInv', Undisturbed, Quiet, Budget, NEW w \in Worker, Ack(w), used'.faults = 0
  PROVE  Quiet' /\ Budget'
<1>f. /\ UNCHANGED <<setup, routed, command, historyVars, nextId>> /\ used' = used
      /\ pc[w] = "returned" /\ pc' = [pc EXCEPT ![w] = "idle"] /\ rows' = Without(env[w].id)
      /\ inFlight' = [inFlight EXCEPT ![w] = @ \ {env[w].id}]
      /\ env' = [env EXCEPT ![w] = NoEnvelope]
  BY FaultFacts DEF Ack, Delete, Goto, Settled
<1>h. UNCHANGED <<accepted, attempts>>
  BY <1>f DEF historyVars
<1>r. rows' = {s \in rows : s.id # env[w].id}
  BY <1>f DEF Without
<1>p. /\ \A v \in Worker : v # w =>
            pc'[v] = pc[v] /\ env'[v] = env[v] /\ inFlight'[v] = inFlight[v]
      /\ pc'[w] = "idle" /\ inFlight'[w] = {} /\ Busy(w)
  <2>1. Busy(w)
    BY <1>f DEF Busy
  <2>2. inFlight[w] = {env[w].id}
    BY <2>1 DEF Quiet, Registered
  <2> QED BY <1>f, <2>1, <2>2 DEF IInv, TypeOK, Actor
<1>b. /\ ~Busy(w)' /\ ~AtWork(w)'
      /\ \A v \in Worker : v # w => (Busy(v)' <=> Busy(v)) /\ (AtWork(v)' <=> AtWork(v))
  BY <1>p DEF Busy, AtWork
<1>l. \A s \in rows' : Leaving(s.id) => Leaving(s.id)'
  <2> SUFFICES ASSUME NEW s \in rows', Leaving(s.id) PROVE Leaving(s.id)'
    OBVIOUS
  <2>1. CASE \E v \in Worker : pc[v] = "returned" /\ env[v].id = s.id
    BY <1>p, <1>r, <2>1 DEF Leaving
  <2>2. CASE command.stage = "retried" /\ \E e \in command.todo : NextTodo(e) /\ e.id = s.id
    BY <1>f, <2>2 DEF Leaving, NextTodo
  <2> QED BY <2>1, <2>2 DEF Leaving
<1>1. Registered'
  <2>1. \A s \in rows' : \E o \in rows : o.id = s.id /\ o.at = s.at /\ o.held = s.held
    BY <1>r
  <2>2. \A v \in Worker : ~Busy(v) => inFlight[v] = {}
    BY DEF Quiet, Registered
  <2>3. \A v \in Worker : Busy(v)' =>
          Busy(v) /\ env'[v].id = env[v].id /\ inFlight'[v] = inFlight[v]
    BY <1>p, <1>b
  <2>4. \A v \in Worker : ~Busy(v)' =>
          /\ inFlight'[v] = {}
          /\ Busy(v) => \A s \in rows' : s.id # env[v].id
    BY <1>p, <1>b, <1>r, <2>2
  <2> QED BY <1>f, <2>1, <2>3, <2>4, StillRegistered DEF Quiet
<1>2. Routed'
  <2>1. \A s \in rows' : DutyOf(s.wire) \in accepted
    BY <1>r DEF Quiet, Routed
  <2>2. \A v \in Worker : Busy(v)' => \E u : env'[v].wire = u /\ DutyOf(u) \in accepted
    BY <1>p, <1>b DEF Quiet, Routed, Carried
  <2> QED BY <1>f, <1>h, <2>1, <2>2, StillRouted DEF Quiet
<1>3. Single'
  <2>1. \A v \in Worker : AtWork(v)' =>
          AtWork(v) /\ env'[v].id = env[v].id /\ env'[v].wire = env[v].wire
    BY <1>p, <1>b
  <2>2. \A s \in rows' : \E o \in rows : o.id = s.id /\ o.wire = s.wire
    BY <1>r
  <2> QED BY <1>l, <2>1, <2>2, StillSingle DEF Quiet
<1>4. StillFailed'
  <2>1. \A r \in rows : r.at = Failure => r \in rows'
    <3>1. \A r \in rows : r.at = Failure => r.id # env[w].id
      BY <1>p, OperatorsRows DEF Quiet
    <3> QED BY <1>r, <3>1
  <2> QED BY <1>f, <2>1, StillOnFailure DEF Quiet
<1>5. Budget'
  <2>1. \A s \in rows' : \E o \in rows : o.at = s.at /\ o.wire = s.wire /\ o.held = s.held
    BY <1>r
  <2>2. \A v \in Worker :
          /\ pc'[v] = "threw" => pc[v] = "threw"
          /\ pc'[v] = "start" => pc[v] = "start" /\ env'[v].wire = env[v].wire
          /\ pc'[v] \in Trying => pc[v] \in Trying /\ env'[v].wire = env[v].wire
    BY <1>p DEF Trying
  <2> QED BY <1>f, <1>h, <2>1, <2>2, MovedBudget
<1> QED BY <1>1, <1>2, <1>3, <1>4, <1>5 DEF Quiet

(* A rejected delivery is replaced by its copy.  With a retry policy there *)
(* is none without a fault.                                                *)
LEMMA RejectQuiet ==
  ASSUME IInv, IInv', Undisturbed, Quiet, Budget, NEW w \in Worker, Reject(w), used'.faults = 0
  PROVE  Quiet' /\ Budget'
<1>0. pc[w] = "threw" /\ Busy(w) /\ AtWork(w)
  BY DEF Reject, Busy, AtWork
<1>i. inFlight[w] = {env[w].id}
  BY <1>0 DEF Quiet, Registered
<1>d. /\ Redeliver(Consumes[w], env[w].id, Carried(w))
      /\ pc' = [pc EXCEPT ![w] = "idle"] /\ used' = used
  BY <1>i, FaultFacts DEF Reject, Goto
<1>f. /\ UNCHANGED <<setup, routed, command, historyVars>>
      /\ inFlight' = [inFlight EXCEPT ![w] = @ \ {env[w].id}]
      /\ env' = [env EXCEPT ![w] = NoEnvelope]
  BY DEF Reject, Settled
<1>h. UNCHANGED <<accepted, attempts>>
  BY <1>f DEF historyVars
<1>q. PICK q : /\ rows' = {s \in rows : s.id # env[w].id} \union {q}
              /\ q.id = nextId /\ q.held = FALSE /\ DutyOf(q.wire) = DutyOf(Carried(w))
  <2>1. PICK wire : /\ wire = [Carried(w) EXCEPT !.count = @ + 1]
                   /\ DutyOf(wire) = DutyOf(Carried(w))
    <3>1. PICK old \in Wire : old = Carried(w)
      BY <1>0, HasEnvelope
    <3>2. PICK wire : wire = [old EXCEPT !.count = @ + 1]
      OBVIOUS
    <3>3. NoTransport \in Aliases
      BY DEF Aliases
    <3>4. wire.msg = old.msg /\ wire.home = old.home
      BY <3>2, <3>3, Copies
    <3> QED BY <3>1, <3>2, <3>4 DEF DutyOf
  <2>2. PICK q : q = NewRow(Consumes[w], wire)
    OBVIOUS
  <2>3. q.id = nextId /\ q.held = FALSE /\ q.wire = wire
    BY <2>2 DEF NewRow
  <2>4. rows' = {s \in rows : s.id # env[w].id} \union {q}
    BY <1>d, <2>1, <2>2 DEF Redeliver, Without
  <2> QED BY <2>1, <2>3, <2>4
<1>p. /\ \A v \in Worker : v # w =>
            pc'[v] = pc[v] /\ env'[v] = env[v] /\ inFlight'[v] = inFlight[v]
      /\ pc'[w] = "idle" /\ inFlight'[w] = {}
  BY <1>d, <1>f, <1>i DEF IInv, TypeOK, Actor
<1>b. /\ ~Busy(w)' /\ ~AtWork(w)'
      /\ \A v \in Worker : v # w => (Busy(v)' <=> Busy(v)) /\ (AtWork(v)' <=> AtWork(v))
  BY <1>p DEF Busy, AtWork
<1>l. \A id : Leaving(id) => Leaving(id)'
  <2>1. \A v \in Worker : pc[v] = "returned" => pc'[v] = "returned" /\ env'[v] = env[v]
    BY <1>0, <1>p
  <2> QED BY <1>f, <2>1 DEF Leaving, NextTodo
<1>1. Registered'
  <2>1. \A s \in rows' : \/ \E o \in rows : o.id = s.id /\ o.at = s.at /\ o.held = s.held
                         \/ ~s.held /\ s.id = nextId
    BY <1>q
  <2>2. \A v \in Worker : ~Busy(v) => inFlight[v] = {}
    BY DEF Quiet, Registered
  <2>3. \A v \in Worker : Busy(v)' =>
          Busy(v) /\ env'[v].id = env[v].id /\ inFlight'[v] = inFlight[v]
    BY <1>p, <1>b
  <2>4. \A s \in rows' : s.id # env[w].id
    <3>1. env[w].id # nextId
      BY <1>0, HasEnvelope DEF IInv, TypeOK
    <3> QED BY <1>q, <3>1
  <2>5. \A v \in Worker : ~Busy(v)' =>
          /\ inFlight'[v] = {}
          /\ Busy(v) => \A s \in rows' : s.id # env[v].id
    BY <1>p, <1>b, <2>2, <2>4
  <2> QED BY <1>f, <2>1, <2>3, <2>5, StillRegistered DEF Quiet
<1>2. Routed'
  <2>1. \A s \in rows' : DutyOf(s.wire) \in accepted
    BY <1>0, <1>q DEF Quiet, Routed
  <2>2. \A v \in Worker : Busy(v)' => \E u : env'[v].wire = u /\ DutyOf(u) \in accepted
    BY <1>p, <1>b DEF Quiet, Routed, Carried
  <2> QED BY <1>f, <1>h, <2>1, <2>2, StillRouted DEF Quiet
<1>3. Single'
  <2>1. \A s \in rows' : s # q => s \in rows /\ s.id # env[w].id
    BY <1>q
  <2>2. \A s \in rows' : s # q /\ DutyOf(s.wire) = DutyOf(q.wire) => Leaving(s.id)'
    BY <1>0, <1>q, <1>l, <2>1 DEF Quiet, Single
  <2>3. \A v \in Worker : AtWork(v) /\ v # w => DutyOf(Carried(v)) # DutyOf(q.wire)
    BY <1>0, <1>q DEF Quiet, Single
  <2> QED BY <1>q, <1>p, <1>b, <1>l, <2>1, <2>2, <2>3, AddedSingle DEF Quiet
<1>4. StillFailed'
  <2>1. \A r \in rows : r.at = Failure => r \in rows'
    <3>1. \A r \in rows : r.at = Failure => r.id # env[w].id
      BY <1>0, OperatorsRows DEF Quiet
    <3> QED BY <1>q, <3>1
  <2> QED BY <1>f, <2>1, StillOnFailure DEF Quiet
<1>5. Budget'
  BY <1>0, <1>f, SetupFixed DEF Budget
<1> QED BY <1>1, <1>2, <1>3, <1>4, <1>5 DEF Quiet

-----------------------------------------------------------------------------
(* The operator                                                            *)

LEMMA StartCommandQuiet ==
  ASSUME IInv, IInv', Undisturbed, Quiet, Budget, StartCommand
  PROVE  Quiet' /\ Budget'
<1>f. /\ UNCHANGED <<setup, rows, nextId, pipelineVars, historyVars>>
      /\ command = Idle /\ command'.stage \in {"retry", "remove"}
      /\ \A e \in command'.todo : \E r \in rows : r.id = e.id /\ r.wire = e.wire
      /\ used' = [used EXCEPT !.commands = @ + 1]
  BY DEF StartCommand, FailedRows
<1>h. UNCHANGED <<pc, env, routed, inFlight, accepted, attempts>>
  BY <1>f DEF pipelineVars, historyVars
<1>1. Registered'
  <2>1. \A w \in Worker : ~Busy(w) => inFlight[w] = {}
    BY DEF Quiet, Registered
  <2>2. \A w \in Worker : Busy(w)' <=> Busy(w)
    BY <1>h DEF Busy
  <2> QED BY <1>f, <1>h, <2>1, <2>2, StillRegistered DEF Quiet
<1>2. Routed'
  <2>1. Routes' = Routes
    BY <1>f, SetupFixed
  <2> QED BY <1>f, <1>h, <2>1 DEF Quiet, Routed, Busy, Carried, DutyOf
<1>3. Single'
  <2>1. \A id : Leaving(id) => Leaving(id)'
    BY <1>f, <1>h DEF Leaving, Idle
  <2>2. \A w \in Worker : AtWork(w)' =>
          AtWork(w) /\ env'[w].id = env[w].id /\ env'[w].wire = env[w].wire
    BY <1>h DEF AtWork, Busy
  <2>3. \A s \in rows' : \E o \in rows : o.id = s.id /\ o.wire = s.wire
    BY <1>f
  <2> QED BY <2>1, <2>2, <2>3, StillSingle DEF Quiet
<1>4. StillFailed'
  <2>1. ASSUME NEW e \in command'.todo, e.wire.failedFrom # NoTransport
        PROVE  \E r \in rows' : r.id = e.id /\ r.at = Failure'
    <3>1. PICK r \in rows : r.id = e.id /\ r.wire = e.wire
      BY <1>f
    <3>2. r.at = Failure
      BY <2>1, <3>1 DEF IInv, RowFacts, Fits
    <3> QED BY <1>f, <3>1, <3>2, SetupFixed
  <2> QED BY <1>f, <2>1 DEF StillFailed
<1>5. Budget'
  <2> SUFFICES ASSUME RetryEnabled PROVE Budget'
    BY <1>f, SetupFixed DEF Budget
  <2>0. MaxRetries' = MaxRetries /\ Failure' = Failure
    BY <1>f, SetupFixed
  <2>1. Allowance' = Allowance + (MaxRetries + 1)
    <3>1. used.commands \in Nat /\ used'.commands = used.commands + 1
      <4>1. PICK k : k = used.commands + 1
        OBVIOUS
      <4>2. used' = [used EXCEPT !.commands = k]
        BY <1>f, <4>1
      <4>3. used'.commands = k /\ used.commands \in Nat
        BY <4>2 DEF IInv, TypeOK
      <4> QED BY <4>1, <4>3
    <3>2. PICK m \in Nat : m = MaxRetries + 1
      BY Allowed
    <3>3. PICK c \in Nat : c = used.commands
      BY <3>1
    <3>4. m * (c + 1) = m * c + m
      OBVIOUS
    <3> QED BY <2>0, <3>1, <3>2, <3>3, <3>4 DEF Allowance
  <2>2. MaxRetries \in Nat /\ Allowance \in Nat /\ \A d \in Duty : attempts[d] \in Nat
    BY Allowed
  <2>3. \A wire \in Wire, n \in Nat : Affords(wire, n) => Affords(wire, n)'
    <3> SUFFICES ASSUME NEW wire \in Wire, NEW n \in Nat, Affords(wire, n)
                 PROVE  Affords(wire, n)'
      OBVIOUS
    <3>1. PICK t \in Nat : t = Tried(wire) /\ t = Tried(wire)'
      BY <1>h, <2>2, WireFields DEF Tried
    <3>2. wire.count \in Nat
      BY WireFields
    <3>3. wire.count <= MaxRetries /\ t <= wire.count + n + Allowance
      BY <3>1 DEF Affords
    <3>4. t <= wire.count + n + Allowance'
      BY <2>1, <2>2, <3>2, <3>3
    <3> QED BY <2>0, <3>1, <3>3, <3>4 DEF Affords
  <2>w. \A w \in Worker : Busy(w) => Carried(w) \in Wire
    BY HasEnvelope
  <2>4. \A w \in Worker : pc'[w] # "threw"
    BY <1>h DEF Budget
  <2>5. \A r \in rows' : r.at # Failure' /\ ~r.held => Affords(r.wire, 0)'
    <3>1. \A r \in rows : r.wire \in Wire
      BY RowFields DEF IInv, TypeOK
    <3> QED BY <1>f, <2>0, <2>3, <3>1 DEF Budget
  <2>6. \A w \in Worker : pc'[w] = "start" => Affords(Carried(w), 0)'
    <3> SUFFICES ASSUME NEW w \in Worker, pc[w] = "start" PROVE Affords(Carried(w), 0)'
      BY <1>h
    <3>1. PICK wire \in Wire : wire = Carried(w) /\ wire = Carried(w)'
      BY <1>h, <2>w DEF Carried, Busy
    <3>2. Affords(wire, 0)'
      BY <2>3, <3>1 DEF Budget
    <3> QED BY <3>1, <3>2 DEF Affords, Tried
  <2>7. \A w \in Worker : pc'[w] \in Trying => Affords(Carried(w), 1)'
    <3> SUFFICES ASSUME NEW w \in Worker, pc[w] \in Trying PROVE Affords(Carried(w), 1)'
      BY <1>h
    <3>1. PICK wire \in Wire : wire = Carried(w) /\ wire = Carried(w)'
      BY <1>h, <2>w DEF Carried, Busy, Trying
    <3>2. Affords(wire, 1)'
      BY <2>3, <3>1 DEF Budget
    <3> QED BY <3>1, <3>2 DEF Affords, Tried
  <2>8. \A d \in accepted' : attempts'[d] <= (MaxRetries' + 1) + Allowance'
    <3> SUFFICES ASSUME NEW d \in accepted
                 PROVE  attempts[d] <= (MaxRetries + 1) + Allowance'
      BY <1>h, <2>0
    <3>1. attempts[d] <= (MaxRetries + 1) + Allowance /\ attempts[d] \in Nat
      BY <2>2 DEF Budget, IInv, TypeOK
    <3> QED BY <2>1, <2>2, <3>1
  <2>9. \A d \in Duty : d[2] \in Transport /\ d \notin accepted' => attempts'[d] = 0
    BY <1>h DEF Budget
  <2>10. \A e \in command'.todo : ToBeRevived(e)' => Tried(e.wire)' <= Allowance'
    <3> SUFFICES ASSUME NEW e \in command'.todo PROVE Tried(e.wire)' <= Allowance'
      OBVIOUS
    <3>1. DutyOf(e.wire) \in accepted
      BY <1>f DEF Quiet, Routed
    <3>2. attempts[DutyOf(e.wire)] <= (MaxRetries + 1) + Allowance
      BY <3>1 DEF Budget
    <3>3. Tried(e.wire)' = attempts[DutyOf(e.wire)]
      BY <1>h DEF Tried
    <3>4. attempts[DutyOf(e.wire)] \in Nat
      BY <2>2, <3>1 DEF IInv, TypeOK
    <3> QED BY <2>1, <2>2, <3>2, <3>3, <3>4
  <2> QED BY <2>4, <2>5, <2>6, <2>7, <2>8, <2>9, <2>10
          DEF Budget, Trying, Tried, Duty, Aliases
<1> QED BY <1>1, <1>2, <1>3, <1>4, <1>5 DEF Quiet

(* The operator's command stops without a send.                            *)
LEMMA AbortQuiet ==
  ASSUME IInv, IInv', Quiet, Budget, command.stage = "retry", command' = Idle,
         UNCHANGED <<setup, rows, nextId, pipelineVars, used, historyVars>>
  PROVE  Quiet' /\ Budget'
<1>h. UNCHANGED <<setup, rows, pc, env, routed, inFlight, accepted, attempts, used>>
  BY DEF pipelineVars, historyVars
<1>0. command'.todo = {} /\ command'.stage = "none"
  BY DEF Idle
<1>1. Registered'
  BY <1>h, SetupFixed DEF Quiet, Registered, Busy
<1>2. Routed'
  BY <1>h, SetupFixed DEF Quiet, Routed, Busy, Carried, DutyOf
<1>3. Single'
  <2>1. \A id : Leaving(id) => Leaving(id)'
    BY <1>h DEF Leaving
  <2>2. \A w \in Worker : AtWork(w)' =>
          AtWork(w) /\ env'[w].id = env[w].id /\ env'[w].wire = env[w].wire
    BY <1>h DEF AtWork, Busy
  <2>3. \A s \in rows' : \E o \in rows : o.id = s.id /\ o.wire = s.wire
    BY <1>h
  <2> QED BY <2>1, <2>2, <2>3, StillSingle DEF Quiet
<1>4. StillFailed'
  BY <1>0 DEF StillFailed
<1>5. Budget'
  <2> SUFFICES ASSUME RetryEnabled PROVE Budget'
    BY <1>h, SetupFixed DEF Budget
  <2>1. \A w \in Worker : pc'[w] = "start" => \E u : env'[w].wire = u /\ Affords(u, 0)
    BY <1>h DEF Budget, Carried
  <2>2. \A w \in Worker : pc'[w] \in Trying => \E u : env'[w].wire = u /\ Affords(u, 1)
    BY <1>h DEF Budget, Carried
  <2>3. \A w \in Worker : pc'[w] # "threw"
    BY <1>h DEF Budget
  <2> QED BY <1>h, <1>0, <2>1, <2>2, <2>3, StillBudgeted
<1> QED BY <1>1, <1>2, <1>3, <1>4, <1>5 DEF Quiet

(* A fresh delivery; the row it comes from is removed next.                *)
LEMMA ResendToOriginQuiet ==
  ASSUME IInv, IInv', Undisturbed, Quiet, Budget, ResendToOrigin, used'.faults = 0
  PROVE  Quiet' /\ Budget'
<1>f. command.stage = "retry" /\ UNCHANGED <<setup, pipelineVars, historyVars>>
  BY DEF ResendToOrigin
<1>h. UNCHANGED <<setup, pc, env, routed, inFlight, accepted, attempts>>
  BY <1>f DEF pipelineVars, historyVars
<1>e. PICK e \in command.todo :
        /\ NextTodo(e)
        /\ \/ /\ e.wire.failedFrom # NoTransport
              /\ Insert(e.wire.failedFrom, Revived(e.wire))
              /\ command' = [command EXCEPT !.stage = "retried"]
              /\ used' = used
           \/ command' = Idle /\ Unchanged /\ used' = used
  BY FaultFacts DEF ResendToOrigin
<1>1. CASE command' = Idle /\ Unchanged /\ used' = used
  BY <1>f, <1>1, AbortQuiet DEF Unchanged
<1>2. CASE /\ e.wire.failedFrom # NoTransport
           /\ Insert(e.wire.failedFrom, Revived(e.wire))
           /\ command' = [command EXCEPT !.stage = "retried"]
           /\ used' = used
  <2>w. PICK wire : /\ wire = Revived(e.wire) /\ wire.count = 0
                   /\ DutyOf(wire) = DutyOf(e.wire)
    <3>1. PICK old \in Wire : old = e.wire
      BY DEF IInv, TypeOK
    <3>2. PICK wire : wire = [old EXCEPT !.count = 0, !.failedFrom = NoTransport]
      OBVIOUS
    <3>3. NoTransport \in Aliases
      BY DEF Aliases
    <3>4. wire.msg = old.msg /\ wire.home = old.home /\ wire.count = 0
      BY <3>2, <3>3, Copies
    <3> QED BY <3>1, <3>2, <3>4 DEF DutyOf, Revived
  <2>q. PICK q : /\ rows' = rows \union {q}
                /\ q.id = nextId /\ q.wire = wire /\ q.held = FALSE
    <3>1. PICK q : q = NewRow(e.wire.failedFrom, wire)
      OBVIOUS
    <3>2. q.id = nextId /\ q.wire = wire /\ q.held = FALSE
      BY <3>1 DEF NewRow
    <3> QED BY <1>2, <2>w, <3>1, <3>2 DEF Insert
  <2>c. command'.stage = "retried" /\ command'.todo = command.todo
    BY <1>2 DEF IInv, TypeOK
  <2>r. ToBeRevived(e)
    BY <1>f, <1>2 DEF ToBeRevived
  <2>o. PICK r \in rows : r.id = e.id /\ r.wire = e.wire /\ r.at = Failure
    BY <2>r, NobodyRevives
  <2>l. /\ \A id : Leaving(id) => Leaving(id)'
        /\ Leaving(e.id)'
    <3>1. \A id : Leaving(id) => Leaving(id)'
      BY <1>f, <1>h DEF Leaving
    <3>2. Leaving(e.id)'
      BY <1>e, <2>c DEF Leaving, NextTodo
    <3> QED BY <3>1, <3>2
  <2>1. Registered'
    <3>1. \A s \in rows' : \/ \E o \in rows : o.id = s.id /\ o.at = s.at /\ o.held = s.held
                           \/ ~s.held /\ s.id = nextId
      BY <2>q
    <3>2. \A w \in Worker : ~Busy(w) => inFlight[w] = {}
      BY DEF Quiet, Registered
    <3>3. \A w \in Worker : Busy(w)' <=> Busy(w)
      BY <1>h DEF Busy
    <3> QED BY <1>h, <3>1, <3>2, <3>3, StillRegistered DEF Quiet
  <2>2. Routed'
    <3>1. \A s \in rows' : DutyOf(s.wire) \in accepted
      BY <2>w, <2>q, <2>o DEF Quiet, Routed
    <3>2. \A w \in Worker : Busy(w)' => \E u : env'[w].wire = u /\ DutyOf(u) \in accepted
      BY <1>h DEF Quiet, Routed, Carried, Busy
    <3> QED BY <1>h, <3>1, <3>2, StillRouted DEF Quiet
  <2>3. Single'
    <3>1. ~Leaving(r.id)
      <4>1. \A w \in Worker : Busy(w) => env[w].id # r.id
        BY <2>o, OperatorsRows DEF Quiet
      <4> QED BY <1>f, <4>1 DEF Leaving, Busy
    <3>2. \A s \in rows : DutyOf(s.wire) = DutyOf(q.wire) => s = r \/ Leaving(s.id)
      BY <2>w, <2>q, <2>o, <3>1 DEF Quiet, Single
    <3>3. \A s \in rows' : s # q /\ DutyOf(s.wire) = DutyOf(q.wire) => Leaving(s.id)'
      BY <2>q, <2>o, <2>l, <3>2
    <3>4. \A w \in Worker : AtWork(w) => DutyOf(Carried(w)) # DutyOf(q.wire)
      BY <2>w, <2>q, <2>r, NobodyRevives
    <3>5. \A w \in Worker : AtWork(w)' => AtWork(w)
      BY <1>h DEF AtWork, Busy
    <3> QED BY <1>h, <2>q, <2>l, <3>3, <3>4, <3>5, AddedSingle DEF Quiet
  <2>4. StillFailed'
    <3>0. Failure' = Failure
      BY <1>h, SetupFixed
    <3>1. \A f \in command.todo : f.wire.failedFrom # NoTransport =>
            \E s \in rows' : s.id = f.id /\ s.at = Failure
      BY <1>f, <2>q DEF Quiet, StillFailed
    <3>2. \A f \in command.todo : NextTodo(f)' => f = e
      <4>1. \A f \in command.todo : NextTodo(f)' => f.id = e.id
        BY <1>e, <2>c, SMTT(30) DEF NextTodo, IInv, TypeOK
      <4> QED BY <4>1 DEF IInv, SnapshotFacts
    <3> QED BY <1>2, <2>c, <3>0, <3>1, <3>2 DEF StillFailed
  <2>5. Budget'
    <3> SUFFICES ASSUME RetryEnabled PROVE Budget'
      BY <1>h, SetupFixed DEF Budget
    <3>1. \A w \in Worker : pc'[w] = "start" => \E u : env'[w].wire = u /\ Affords(u, 0)
      BY <1>h DEF Budget, Carried
    <3>2. \A w \in Worker : pc'[w] \in Trying => \E u : env'[w].wire = u /\ Affords(u, 1)
      BY <1>h DEF Budget, Carried
    <3>3. \A w \in Worker : pc'[w] # "threw"
      BY <1>h DEF Budget
    <3>4. \A s \in rows' : s.at # Failure /\ ~s.held =>
            \/ \E o \in rows : o.wire = s.wire /\ o.at = s.at /\ ~o.held
            \/ Affords(s.wire, 0)
      <4>1. Tried(e.wire) <= Allowance
        BY <2>r DEF Budget
      <4>2. Tried(wire) \in Nat /\ Tried(wire) = Tried(e.wire)
        BY <2>w, Allowed, WireFields DEF IInv, TypeOK, Tried
      <4>3. Affords(wire, 0)
        BY <2>w, <4>1, <4>2, Allowed DEF Affords
      <4> QED BY <2>q, <4>3
    <3>5. \A f \in command'.todo : ToBeRevived(f)' => ToBeRevived(f)
      BY <1>f, <2>c DEF ToBeRevived
    <3> QED BY <1>h, <1>2, <3>1, <3>2, <3>3, <3>4, <3>5, StillBudgeted
  <2> QED BY <2>1, <2>2, <2>3, <2>4, <2>5 DEF Quiet
<1> QED BY <1>e, <1>1, <1>2

LEMMA RemoveFailedQuiet ==
  ASSUME IInv, IInv', Undisturbed, Quiet, Budget, RemoveFailed, used'.faults = 0
  PROVE  Quiet' /\ Budget'
<1>f. command.stage \in {"retried", "remove"}
      /\ UNCHANGED <<setup, pipelineVars, accepted, completed, ranOk, attempts>>
  BY DEF RemoveFailed
<1>h. UNCHANGED <<setup, pc, env, routed, inFlight, accepted, attempts>>
  BY <1>f DEF pipelineVars
<1>e. PICK e \in command.todo :
        NextTodo(e) /\ Delete(e.id) /\ command' = After(e) /\ used' = used
  BY FaultFacts DEF RemoveFailed
<1>r. rows' = {s \in rows : s.id # e.id}
  BY <1>e DEF Delete, Without
<1>c. /\ command'.todo \subseteq command.todo \ {e}
      /\ command'.stage \in {"none", "retry", "remove"}
      /\ command'.stage = "retry" => command.stage = "retried"
  BY <1>e DEF After, Idle
<1>n. \A f \in command.todo : NextTodo(f) => f = e
  <2>1. \A f \in command.todo : NextTodo(f) => f.id = e.id
    BY <1>e DEF NextTodo, IInv, TypeOK
  <2> QED BY <2>1 DEF IInv, SnapshotFacts
<1>l. \A s \in rows' : Leaving(s.id) => Leaving(s.id)'
  <2> SUFFICES ASSUME NEW s \in rows', Leaving(s.id) PROVE Leaving(s.id)'
    OBVIOUS
  <2>1. ~\E f \in command.todo : NextTodo(f) /\ f.id = s.id
    BY <1>r, <1>n
  <2> QED BY <1>h, <2>1 DEF Leaving
<1>1. Registered'
  <2>1. \A s \in rows' : \E o \in rows : o.id = s.id /\ o.at = s.at /\ o.held = s.held
    BY <1>r
  <2>2. \A w \in Worker : ~Busy(w) => inFlight[w] = {}
    BY DEF Quiet, Registered
  <2>3. \A w \in Worker : Busy(w)' <=> Busy(w)
    BY <1>h DEF Busy
  <2> QED BY <1>h, <2>1, <2>2, <2>3, StillRegistered DEF Quiet
<1>2. Routed'
  <2>1. \A s \in rows' : DutyOf(s.wire) \in accepted
    BY <1>r DEF Quiet, Routed
  <2>2. \A w \in Worker : Busy(w)' => \E u : env'[w].wire = u /\ DutyOf(u) \in accepted
    BY <1>h DEF Quiet, Routed, Carried, Busy
  <2> QED BY <1>h, <2>1, <2>2, StillRouted DEF Quiet
<1>3. Single'
  <2>1. \A w \in Worker : AtWork(w)' =>
          AtWork(w) /\ env'[w].id = env[w].id /\ env'[w].wire = env[w].wire
    BY <1>h DEF AtWork, Busy
  <2>2. \A s \in rows' : \E o \in rows : o.id = s.id /\ o.wire = s.wire
    BY <1>r
  <2> QED BY <1>l, <2>1, <2>2, StillSingle DEF Quiet
<1>4. StillFailed'
  <2>1. ASSUME command'.stage = "retry", NEW f \in command'.todo,
               f.wire.failedFrom # NoTransport
        PROVE  \E s \in rows' : s.id = f.id /\ s.at = Failure'
    <3>1. PICK s \in rows : s.id = f.id /\ s.at = Failure
      BY <1>c, <2>1 DEF Quiet, StillFailed
    <3>2. f.id # e.id
      BY <1>c DEF IInv, SnapshotFacts
    <3> QED BY <1>h, <1>r, <3>1, <3>2, SetupFixed
  <2> QED BY <1>c, <2>1 DEF StillFailed
<1>5. Budget'
  <2> SUFFICES ASSUME RetryEnabled PROVE Budget'
    BY <1>h, SetupFixed DEF Budget
  <2>1. \A w \in Worker : pc'[w] = "start" => \E u : env'[w].wire = u /\ Affords(u, 0)
    BY <1>h DEF Budget, Carried
  <2>2. \A w \in Worker : pc'[w] \in Trying => \E u : env'[w].wire = u /\ Affords(u, 1)
    BY <1>h DEF Budget, Carried
  <2>3. \A w \in Worker : pc'[w] # "threw"
    BY <1>h DEF Budget
  <2>4. \A s \in rows' : s \in rows
    BY <1>r
  <2>5. \A f \in command'.todo : ToBeRevived(f)' => ToBeRevived(f)
    BY <1>c, <1>n DEF ToBeRevived
  <2> QED BY <1>h, <1>e, <2>1, <2>2, <2>3, <2>4, <2>5, StillBudgeted
<1> QED BY <1>1, <1>2, <1>3, <1>4, <1>5 DEF Quiet

-----------------------------------------------------------------------------
(* The theorems                                                            *)

LEMMA InitQuiet == Init => Quiet /\ Budget
<1> SUFFICES ASSUME Init PROVE Quiet /\ Budget
  OBVIOUS
<1>1. /\ \A w \in Worker : pc[w] = "idle" /\ inFlight[w] = {}
      /\ rows = {} /\ accepted = {} /\ command.todo = {} /\ command.stage = "none"
      /\ \A d \in Duty : attempts[d] = 0
  BY DEF Init, Actor, Idle
<1>2. \A w \in Worker : ~Busy(w) /\ ~AtWork(w)
  BY <1>1 DEF Busy, AtWork
<1>3. Quiet
  BY <1>1, <1>2 DEF Quiet, Registered, Routed, Single, StillFailed
<1>4. Budget
  BY <1>1 DEF Budget, Trying
<1> QED BY <1>3, <1>4

(* The deployment does not change, and no fault is taken back.             *)
LEMMA FaultsGrow ==
  ASSUME IInv, [Next]_vars
  PROVE  setup' = setup /\ (used'.faults = 0 => used.faults = 0)
<1>0. used.faults \in Nat
  BY DEF IInv, TypeOK
<1>1. CASE used' = used
  <2>1. setup' = setup
    BY DEF Next, vars, Dispatching, Working, BecomeDue, Expire, Enter, MiddlewareThrows, Route,
           HandlerSucceeds, HandlerFails, ResendForRetry, SendToFailureTransport, Receive, Ack,
           Reject, Crash, Restart, StartCommand, ResendToOrigin, RemoveFailed
  <2> QED BY <1>1, <2>1
<1>2. CASE \E kind : Fault(kind)
  <2>1. setup' = setup
    BY DEF Next, vars, Dispatching, Working, BecomeDue, Expire, Enter, MiddlewareThrows, Route,
           HandlerSucceeds, HandlerFails, ResendForRetry, SendToFailureTransport, Receive, Ack,
           Reject, Crash, Restart, StartCommand, ResendToOrigin, RemoveFailed
  <2> QED BY <1>2, <2>1, FaultFacts
<1>3. CASE (\E a \in Actor : HandlerFails(a)) \/ StartCommand
  <2>1. setup' = setup
    BY <1>3 DEF HandlerFails, StartCommand
  <2>2. \/ used' = [used EXCEPT !.failures = used.failures + 1]
        \/ used' = [used EXCEPT !.commands = used.commands + 1]
    BY <1>3 DEF HandlerFails, StartCommand
  <2>3. used'.faults = used.faults
    BY <2>2 DEF IInv, TypeOK
  <2> QED BY <2>1, <2>3
<1>4. \/ used' = used \/ \E kind : Fault(kind)
      \/ (\E a \in Actor : HandlerFails(a)) \/ StartCommand
  BY DEF Next, vars, Dispatching, Working, BecomeDue, Expire, Enter, MiddlewareThrows, Route,
         HandlerSucceeds, ResendForRetry, SendToFailureTransport, SendTo, Receive, Ack,
         Reject, Crash, Restart, ResendToOrigin, RemoveFailed, Actor
<1> QED BY <1>1, <1>2, <1>3, <1>4

LEMMA NextQuiet == QuietInv /\ [Next]_vars => QuietInv'
<1> SUFFICES ASSUME QuietInv, [Next]_vars PROVE QuietInv'
  OBVIOUS
<1>1. IInv /\ IInv'
  BY NextIInv DEF QuietInv
<1> SUFFICES ASSUME Undisturbed' PROVE Quiet' /\ Budget'
  BY <1>1 DEF QuietInv
<1>2. Undisturbed /\ used'.faults = 0
  BY <1>1, FaultsGrow, SetupFixed DEF Undisturbed, OperatorAlone, RoutesApart
<1>3. Quiet /\ Budget /\ Registered
  BY <1>2 DEF QuietInv, Quiet
<1>4. CASE UNCHANGED vars
  BY <1>1, <1>3, <1>4, StutterQuiet
<1>5. ASSUME NEW m \in Message, Dispatching(m) PROVE Quiet' /\ Budget'
  <2>1. m \in Actor
    BY DEF Actor
  <2> QED BY <1>1, <1>2, <1>3, <1>5, <2>1, EnterQuiet, FaultFacts, RouteQuiet,
             HandlerSucceedsQuiet, HandlerFailsQuiet DEF Dispatching, MiddlewareThrows
<1>6. ASSUME NEW w \in Worker, Working(w) \/ Crash(w) PROVE Quiet' /\ Budget'
  <2>0. w \in Actor
    BY DEF Actor
  <2>1. CASE Receive(w) \/ Enter(w) \/ MiddlewareThrows(w) \/ Crash(w)
    BY <1>1, <1>2, <1>3, <2>0, <2>1, ReceiveQuiet, EnterQuiet, FaultFacts
       DEF MiddlewareThrows, Crash
  <2>2. CASE HandlerSucceeds(w) \/ HandlerFails(w) \/ Restart(w)
    BY <1>1, <1>3, <2>0, <2>2, HandlerSucceedsQuiet, HandlerFailsQuiet, RestartQuiet
  <2>3. CASE ResendForRetry(w) \/ SendToFailureTransport(w)
    BY <1>1, <1>2, <1>3, <2>3, ResendForRetryQuiet, SendToFailureTransportQuiet
  <2>4. CASE Ack(w) \/ Reject(w)
    BY <1>1, <1>2, <1>3, <2>4, AckQuiet, RejectQuiet
  <2> QED BY <1>6, <2>1, <2>2, <2>3, <2>4 DEF Working
<1>7. ASSUME NEW r \in rows, BecomeDue(r) \/ Expire(r) PROVE Quiet' /\ Budget'
  BY <1>1, <1>2, <1>3, <1>7, BecomeDueQuiet, ExpireIsAFault
<1>8. CASE StartCommand \/ ResendToOrigin \/ RemoveFailed
  BY <1>1, <1>2, <1>3, <1>8, StartCommandQuiet, ResendToOriginQuiet, RemoveFailedQuiet
<1> QED BY <1>4, <1>5, <1>6, <1>7, <1>8 DEF Next

LEMMA QuietInvariance == Spec => []QuietInv
<1>1. Init => QuietInv
  BY InitIInv, InitQuiet DEF QuietInv
<1> QED BY <1>1, NextQuiet, PTL DEF Spec

(* Without a fault nothing is duplicated (worker, transport-sql,           *)
(* failed-messages): every step that stores a copy of a message leaves the *)
(* row it was made from to the delete that comes next.                     *)
THEOREM Undivided == Spec => []NotDuplicated
<1>1. QuietInv => NotDuplicated
  <2> SUFFICES ASSUME QuietInv, Undisturbed, NEW d \in accepted,
                      NEW r \in RowsOf(d), NEW s \in RowsOf(d),
                      r.id \notin LeavingIds, s.id \notin LeavingIds
               PROVE  r = s
    BY DEF NotDuplicated, Undisturbed
  <2>1. \A id : Leaving(id) => id \in LeavingIds
    BY DEF Leaving, LeavingIds
  <2>2. Single
    BY DEF QuietInv, Quiet
  <2> QED BY <2>1, <2>2 DEF Single, RowsOf
<1> QED BY <1>1, QuietInvariance, PTL

(* Without a fault the retry budget (retry.middleware.ts) is kept exactly: *)
(* no message reaches its handlers more often than its first attempt, its  *)
(* retries and what the operator's commands added; and nothing is given up *)
(* before it had all of them.                                              *)
THEOREM BudgetIsKept == Spec => []RetryBudget
<1>1. QuietInv => RetryBudget
  <2> SUFFICES ASSUME QuietInv, used.faults = 0, NEW d \in accepted
               PROVE  /\ OperatorAlone /\ RoutesApart /\ RetryEnabled => WithinBudget(d)
                      /\ GivenUp(d) => attempts[d] > MaxRetries
    BY DEF RetryBudget
  <2>1. ASSUME OperatorAlone, RoutesApart, RetryEnabled
        PROVE  WithinBudget(d)
    <3>1. Budget /\ IInv
      BY <2>1 DEF QuietInv, Undisturbed
    <3>2. attempts[d] <= (MaxRetries + 1) + Allowance
      BY <2>1, <3>1 DEF Budget
    <3>3. PICK m \in Nat : m = MaxRetries + 1
      BY <3>1, Allowed
    <3>4. PICK c \in Nat : c = used.commands
      BY <3>1 DEF IInv, TypeOK
    <3>5. m * (1 + c) = m + m * c
      OBVIOUS
    <3> QED BY <3>2, <3>3, <3>4, <3>5 DEF WithinBudget, Allowance
  <2>2. GivenUp(d) => attempts[d] > MaxRetries
    BY DEF GivenUp, RowsOf, QuietInv, IInv, AttemptsCounted, Counted, Tried
  <2> QED BY <2>1, <2>2
<1> QED BY <1>1, QuietInvariance, PTL

=============================================================================
