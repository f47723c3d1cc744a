---------------------------- MODULE InterfacesProofs ----------------------------
(***************************************************************************)
(* The safety properties of Interfaces, for any number of RPCs, restarts   *)
(* and failures.  As long as tasks do not overlap, what a task has yet to  *)
(* do tells what the wallet, the macaroon store and the servers are like.  *)
(***************************************************************************)
EXTENDS Interfaces, TLAPS

Kinds == {"none", "init", "unlock", "lock", "change"}

MacaroonSteps == {"password", "check", "bake"}
ServerSteps == {"stop", "stopTrade", "start", "listen", "listenTrade"}
Ended == {"none", "done"}
Steps == MacaroonSteps \cup ServerSteps \cup {"change"} \cup Ended

AnyPassword == Passwords \cup {NoPassword}

TaskType ==
  [kind : Kinds, pc : Steps, password : AnyPassword, new : AnyPassword,
   left : SUBSET Files, server : Servers \cup {None}]

Types ==
  /\ tasks \in [Tasks -> TaskType]
  /\ wallet \in [password : AnyPassword, locked : BOOLEAN]
  /\ macaroons \in [password : AnyPassword, unlocked : BOOLEAN, rootKey : BOOLEAN]
  /\ faults \in Nat
  /\ {up, overlapped, unlockedHere} \subseteq BOOLEAN
  /\ {operatorServer} \cup spawned \cup down \subseteq Servers
  /\ tradeServer \in Tasks \cup {None}
  /\ tradeSpawned \cup tradeDown \subseteq Tasks

\* The steps of the kinds of tasks, and what the macaroon store can be like
\* whatever overlaps.
TaskOK(t) ==
  /\ t.pc \in MacaroonSteps => t.kind \in {"init", "unlock"} /\ t.password \in Passwords
  /\ t.pc \in ServerSteps => t.kind \in {"unlock", "lock"}
  /\ t.pc = "listenTrade" => t.kind = "unlock"
  /\ t.pc = "change" => t.kind = "change" /\ t.new \in Passwords

Shape ==
  /\ \A k \in Tasks : TaskOK(tasks[k])
  /\ macaroons.unlocked => macaroons.password # NoPassword
  /\ files # {} => macaroons.rootKey

\* Nothing of a process that has ended is left.
Dead ==
  ~up =>
    /\ \A k \in Tasks : tasks[k].pc \in Ended
    /\ down = {} /\ tradeDown = {} /\ spawned = {} /\ tradeSpawned = {}
    /\ owner = None /\ tradeOwner = None
    /\ ~unlockedHere

-----------------------------------------------------------------------------
Calm == ~overlapped /\ faults = 0

Idle == \A j \in Tasks : tasks[j].pc \in Ended
Alone(k) == \A j \in Tasks : j # k => tasks[j].pc \in Ended

\* The macaroon store has the password of the wallet, and can change it.
Settled ==
  /\ macaroons.password = wallet.password
  /\ wallet.password # NoPassword => macaroons.rootKey

\* The macaroon store while task k is the only one.
MacaroonStage(k) ==
  /\ tasks[k].pc = "password" =>
       /\ wallet.password = tasks[k].password
       /\ tasks[k].kind = "init" => macaroons.password = NoPassword
       /\ tasks[k].kind = "unlock" => Settled
  /\ tasks[k].pc = "check" =>
       /\ macaroons.password = wallet.password
       /\ macaroons.unlocked \/ macaroons.rootKey
       /\ tasks[k].kind = "init" => macaroons.unlocked
  /\ tasks[k].pc = "bake" => macaroons.password = wallet.password
  /\ tasks[k].pc \in ServerSteps => Settled
  /\ tasks[k].pc = "change" =>
       /\ macaroons.password = tasks[k].password
       /\ macaroons.rootKey
       /\ wallet.password = tasks[k].new

-----------------------------------------------------------------------------
\* The tasks that ended, whose servers are no longer new.
Over(n) == n \in Tasks /\ tasks[n].pc = "done"

Old ==
  /\ operatorServer = 0 \/ Over(operatorServer)
  /\ tradeServer = None \/ Over(tradeServer)

\* The servers that were shut down are old.
DownOld ==
  /\ \A n \in down : n = 0 \/ Over(n)
  /\ \A n \in tradeDown : Over(n)

\* The servers of the pointers listen, or are about to.
OperatorServed ==
  \/ spawned = {} /\ owner = operatorServer
  \/ spawned = {operatorServer} /\ owner = None /\ operatorServer \notin down
TradeServed ==
  \/ tradeSpawned = {} /\ tradeOwner = tradeServer
  \/ /\ tradeSpawned = {tradeServer} /\ tradeOwner = None
     /\ tradeServer # None /\ tradeServer \notin tradeDown

\* They serve what they should.
Matches ==
  /\ operatorServer \in WithOperator <=> unlockedHere
  /\ tradeServer # None <=> unlockedHere

\* The servers when there is no task.
AtRest == up => Old /\ OperatorServed /\ TradeServed /\ Matches

\* The servers while task k is the only one.
ServerStage(k) ==
  /\ tradeSpawned = {}
  /\ tasks[k].pc # "listenTrade" => spawned = {}
  /\ tasks[k].pc \in {"password", "check", "bake", "change", "stop", "stopTrade", "start"} => Old
  /\ tasks[k].pc \in {"password", "check", "bake", "change", "stop"} =>
       owner = operatorServer /\ tradeOwner = tradeServer
  /\ tasks[k].pc = "stopTrade" => owner = None /\ tradeOwner = tradeServer
  /\ tasks[k].pc \in {"start", "listen"} => owner = None /\ tradeOwner = None
  /\ tasks[k].pc \in {"listen", "listenTrade"} =>
       /\ operatorServer = k
       /\ tradeServer = IF tasks[k].kind = "unlock" THEN k ELSE None
  /\ tasks[k].pc = "listenTrade" => OperatorServed /\ tradeOwner = None
  /\ tasks[k].kind \in {"init", "change"} => Matches
  /\ tasks[k].kind = "unlock" => unlockedHere
  /\ tasks[k].kind = "lock" => ~unlockedHere

CalmInv ==
  Calm =>
    /\ DownOld
    /\ Idle => Settled /\ AtRest
    /\ \A k \in Tasks : tasks[k].pc \notin Ended =>
         Alone(k) /\ MacaroonStage(k) /\ ServerStage(k)

IInv == Types /\ Shape /\ Dead /\ CalmInv

-----------------------------------------------------------------------------
\* The initial state.
LEMMA InitIInv == Init => IInv
<1> SUFFICES ASSUME Init PROVE IInv
  BY Zenon
<1> USE InterfacesAssumption DEF Init, Started
<1>1. /\ \A k \in Tasks : tasks[k] = NoTask
      /\ Tasks \subseteq Nat \ {0} /\ 0 \in Servers
  BY DEF Tasks, Servers
<1>2. Types
  BY Zenon, <1>1 DEF Types, TaskType, Kinds, Steps, Ended, AnyPassword, NoTask, Task
<1>3. Shape /\ Dead
  BY Zenon, <1>1 DEF Shape, Dead, TaskOK, NoTask, Task, MacaroonSteps, ServerSteps
<1>4. Settled /\ AtRest /\ DownOld
  BY Zenon, <1>1 DEF Settled, AtRest, Old, OperatorServed, TradeServed, Matches, WithOperator, DownOld
<1>5. CalmInv
  BY Zenon, <1>1, <1>4 DEF CalmInv, Ended, NoTask, Task
<1> QED BY Zenon, <1>2, <1>3, <1>5 DEF IInv

\* What is known when a task takes a step.
LEMMA Working ==
  ASSUME IInv, NEW k \in Tasks, tasks[k].pc \notin Ended
  PROVE  /\ up
         /\ Calm => DownOld /\ Alone(k) /\ MacaroonStage(k) /\ ServerStage(k)
  BY Zenon DEF IInv, Types, Dead, CalmInv

\* A task that goes on or ends leaves the others as they are.
LEMMA TaskGoesOn ==
  ASSUME NEW k \in Tasks, NEW t, Types, Alone(k),
         tasks' = [tasks EXCEPT ![k] = t],
         tasks[k].pc \notin Ended, t.kind = tasks[k].kind
  PROVE  /\ tasks'[k] = t
         /\ Alone(k)'
         /\ \A j \in Tasks : tasks'[j].pc \notin Ended => j = k
         /\ \A n : Over(n) => Over(n)'
         /\ WithOperator' = WithOperator
  BY DEF Types, Alone, Over, Ended, WithOperator

\* A task that takes a step to its next stage, or ends with all at rest, keeps
\* the invariant of tasks that do not overlap.
LEMMA CalmStep ==
  ASSUME NEW k \in Tasks, NEW t, Types, Alone(k),
         tasks' = [tasks EXCEPT ![k] = t],
         tasks[k].pc \notin Ended, t.kind = tasks[k].kind,
         DownOld',
         t.pc \in Ended => (Settled /\ AtRest)',
         t.pc \notin Ended => (MacaroonStage(k) /\ ServerStage(k))'
  PROVE  CalmInv'
<1>1. /\ tasks'[k] = t /\ Alone(k)'
      /\ \A j \in Tasks : tasks'[j].pc \notin Ended => j = k
  BY Zenon, TaskGoesOn
<1>2. Idle' => t.pc \in Ended
  BY Zenon, <1>1 DEF Idle
<1> QED BY Zenon, <1>1, <1>2 DEF CalmInv

\* The steps that deal with the macaroons leave the servers as they are.
LEMMA ServersStay ==
  ASSUME NEW k \in Tasks, NEW t, Types, Alone(k), DownOld, ServerStage(k), up',
         tasks' = [tasks EXCEPT ![k] = t], t.kind = tasks[k].kind,
         tasks[k].pc \in MacaroonSteps \cup {"change"},
         t.pc \in MacaroonSteps \cup {"stop", "done"},
         t.pc = "done" => t.kind \in {"init", "change"},
         UNCHANGED <<pointers, ports, unlockedHere>>
  PROVE  /\ DownOld'
         /\ t.pc = "done" => AtRest'
         /\ t.pc # "done" => ServerStage(k)'
<1>1. /\ (\A n : Over(n) => Over(n)') /\ WithOperator' = WithOperator
      /\ tasks'[k] = t
  BY Zenon, TaskGoesOn DEF MacaroonSteps, Ended
<1>2. DownOld'
  BY Zenon, <1>1 DEF DownOld, ports
<1>3. Old /\ (t.kind \in {"init", "change"} => Matches)
  BY Zenon DEF ServerStage, MacaroonSteps
<1>4. Old' /\ (Matches => Matches')
  BY Zenon, <1>1, <1>3 DEF Old, Matches, pointers
<1>5. ASSUME t.pc = "done" PROVE AtRest'
  BY Zenon, <1>3, <1>4, <1>5
  DEF AtRest, OperatorServed, TradeServed, ServerStage, MacaroonSteps, pointers, ports
<1>6. ASSUME t.pc # "done" PROVE ServerStage(k)'
  BY Zenon, <1>1, <1>4, <1>6 DEF ServerStage, MacaroonSteps, pointers, ports
<1> QED BY Zenon, <1>2, <1>5, <1>6

\* What follows the macaroons: an init ends, an unlock restarts the servers
\* (service.go, onInit and onUnlock).
LEMMA AfterMacaroonsFact ==
  ASSUME Types, Shape, NEW k \in Tasks, tasks[k].pc \in MacaroonSteps
  PROVE  /\ tasks[k] \in TaskType
         /\ tasks[k].kind \in {"init", "unlock"} /\ tasks[k].password \in Passwords
         /\ AfterMacaroons(k) \in {"stop", "done"}
         /\ AfterMacaroons(k) = "stop" => tasks[k].kind = "unlock"
         /\ AfterMacaroons(k) = "done" => tasks[k].kind = "init"
<1>1. TaskOK(tasks[k]) /\ tasks[k] \in TaskType
  BY Zenon DEF Types, Shape
<1> QED BY Zenon, <1>1 DEF TaskOK, AfterMacaroons

\* The macaroon store is unlocked with the password of the RPC (store.go,
\* CreateUnlock).
LEMMA RememberPasswordInv ==
  ASSUME IInv, NEW k \in Tasks, RememberPassword(k)
  PROVE  IInv'
<1> USE DEF RememberPassword, CreateUnlock, Goto
<1> DEFINE t == [tasks[k] EXCEPT !.pc = "check"]
<1>0. /\ tasks[k].pc = "password" /\ tasks[k].pc \notin Ended
      /\ Types /\ Shape /\ up
  BY Zenon, Working DEF IInv, Ended
<1>1. /\ tasks' = [tasks EXCEPT ![k] = t]
      /\ tasks'[k] = t /\ t.kind = tasks[k].kind /\ t.pc = "check" /\ t.pc \notin Ended
      /\ tasks[k].password \in Passwords /\ tasks[k].kind \in {"init", "unlock"}
  BY Zenon, <1>0 DEF Types, TaskType, Shape, TaskOK, MacaroonSteps, Ended
<1>2. Types'
  <2>1. tasks' \in [Tasks -> TaskType]
    BY <1>0, <1>1 DEF Types, TaskType, Steps, MacaroonSteps
  <2>2. macaroons' \in [password : AnyPassword, unlocked : BOOLEAN, rootKey : BOOLEAN]
    BY Zenon, <1>0, <1>1 DEF Types, AnyPassword
  <2> QED BY Zenon, <1>0, <2>1, <2>2 DEF Types, pointers, ports, history
<1>3. Shape'
  <2>1. \A j \in Tasks : TaskOK(tasks[j])'
    BY <1>0, <1>1 DEF Types, TaskType, Shape, TaskOK, MacaroonSteps, ServerSteps
  <2>2. (macaroons.unlocked => macaroons.password # NoPassword)'
    BY Zenon, <1>0, <1>1, InterfacesAssumption DEF Types, Shape
  <2>3. (files # {} => macaroons.rootKey)'
    BY Zenon, <1>0 DEF Types, Shape
  <2> QED BY Zenon, <2>1, <2>2, <2>3 DEF Shape
<1>4. Dead'
  BY Zenon, <1>0 DEF Dead
<1>5. ASSUME Calm' PROVE CalmInv'
  <2>1. Calm /\ DownOld /\ Alone(k) /\ MacaroonStage(k) /\ ServerStage(k)
    BY Zenon, <1>0, <1>5, Working DEF Calm, history
  <2>2. DownOld' /\ ServerStage(k)'
    BY Zenon, <1>0, <1>1, <2>1, ServersStay DEF MacaroonSteps, history
  <2>3. MacaroonStage(k)'
    BY Zenon, <2>1, <1>0, <1>1, InterfacesAssumption
    DEF MacaroonStage, Settled, ServerSteps, Types, Shape
  <2> QED BY Zenon, <1>0, <1>1, <2>1, <2>2, <2>3, CalmStep
<1> QED BY Zenon, <1>2, <1>3, <1>4, <1>5 DEF IInv, CalmInv

\* The files are looked for before any is written (macaroon_utils.go,
\* genMacaroons).
LEMMA GenMacaroonsInv ==
  ASSUME IInv, NEW k \in Tasks, GenMacaroons(k)
  PROVE  IInv'
<1> DEFINE t == IF files # {} \/ ~macaroons.unlocked
                THEN [tasks[k] EXCEPT !.pc = AfterMacaroons(k)]
                ELSE [[tasks[k] EXCEPT !.pc = "bake"] EXCEPT !.left = Files]
<1>0. /\ tasks[k].pc = "check" /\ tasks[k].pc \notin Ended
      /\ Types /\ Shape /\ up
  BY Zenon, Working DEF IInv, Ended, GenMacaroons
<1>1. /\ tasks' = [tasks EXCEPT ![k] = t]
      /\ tasks'[k] = t /\ t \in TaskType /\ t.kind = tasks[k].kind
      /\ tasks[k].kind \in {"init", "unlock"} /\ tasks[k].password \in Passwords
      /\ t.password = tasks[k].password
      /\ t.pc \in {"bake", "stop", "done"}
      /\ t.pc = "stop" => t.kind = "unlock"
      /\ t.pc = "done" => t.kind = "init"
      /\ t.pc # "bake" => files # {} \/ ~macaroons.unlocked
  <2>1. /\ tasks[k] \in TaskType
        /\ tasks[k].kind \in {"init", "unlock"} /\ tasks[k].password \in Passwords
        /\ AfterMacaroons(k) \in {"stop", "done"}
        /\ AfterMacaroons(k) = "stop" => tasks[k].kind = "unlock"
        /\ AfterMacaroons(k) = "done" => tasks[k].kind = "init"
    BY Zenon, <1>0, AfterMacaroonsFact DEF MacaroonSteps
  <2>2. /\ t.kind = tasks[k].kind /\ t.password = tasks[k].password
        /\ t.pc = IF files # {} \/ ~macaroons.unlocked THEN AfterMacaroons(k) ELSE "bake"
    BY Zenon, <2>1 DEF TaskType
  <2>3. t.pc \in Steps
    BY Zenon, <2>1, <2>2 DEF Steps, Ended, MacaroonSteps, ServerSteps
  <2>4. t \in TaskType
    BY Zenon, <2>1, <2>3 DEF TaskType
  <2>5. tasks' = [tasks EXCEPT ![k] = t] /\ tasks'[k] = t
    BY Zenon, <1>0 DEF GenMacaroons, Types
  <2> HIDE DEF t
  <2> QED BY Zenon, <2>1, <2>2, <2>4, <2>5
<1>2. UNCHANGED <<wallet, up, pointers, ports, macaroons, files, faults, history>>
  BY Zenon DEF GenMacaroons
<1> HIDE DEF t
<1>3. Types'
  BY Zenon, <1>0, <1>1, <1>2 DEF Types, pointers, ports, history
<1>4. Shape'
  BY Zenon, <1>0, <1>1, <1>2 DEF Types, Shape, TaskOK, MacaroonSteps, ServerSteps
<1>5. Dead'
  BY Zenon, <1>0, <1>2 DEF Dead
<1>6. ASSUME Calm' PROVE CalmInv'
  <2>1. Calm /\ DownOld /\ Alone(k) /\ MacaroonStage(k) /\ ServerStage(k)
    BY Zenon, <1>0, <1>2, <1>6, Working DEF Calm, history
  <2>2. DownOld' /\ (t.pc = "done" => AtRest') /\ (t.pc # "done" => ServerStage(k)')
    BY Zenon, <1>0, <1>1, <1>2, <2>1, ServersStay DEF MacaroonSteps, history
  <2>3. t.pc # "bake" => Settled'
    BY Zenon, <2>1, <1>0, <1>1, <1>2 DEF MacaroonStage, Settled, Shape
  <2>4. t.pc # "done" => MacaroonStage(k)'
    BY Zenon, <2>1, <2>3, <1>0, <1>1, <1>2 DEF MacaroonStage, Settled, ServerSteps
  <2> QED BY Zenon, <1>0, <1>1, <2>1, <2>2, <2>3, <2>4, CalmStep DEF Ended
<1> QED BY Zenon, <1>3, <1>4, <1>5, <1>6 DEF IInv, CalmInv

\* One macaroon is written.
LEMMA BakeOneInv ==
  ASSUME IInv, NEW k \in Tasks, tasks[k].pc = "bake", NEW f \in tasks[k].left,
         files' = files \cup {f},
         tasks' = [tasks EXCEPT ![k] =
                     [[tasks[k] EXCEPT !.left = @ \ {f}]
                         EXCEPT !.pc = IF tasks[k].left = {f} THEN AfterMacaroons(k)
                                       ELSE "bake"]],
         macaroons' = [macaroons EXCEPT !.rootKey = TRUE],
         UNCHANGED <<wallet, up, pointers, ports, faults, history>>
  PROVE  IInv'
<1> DEFINE t == [[tasks[k] EXCEPT !.left = @ \ {f}]
                    EXCEPT !.pc = IF tasks[k].left = {f} THEN AfterMacaroons(k)
                                  ELSE "bake"]
<1>0. /\ tasks[k].pc \notin Ended
      /\ Types /\ Shape /\ up
  BY Zenon, Working DEF IInv, Ended
<1>1. /\ tasks' = [tasks EXCEPT ![k] = t]
      /\ tasks'[k] = t /\ t \in TaskType /\ t.kind = tasks[k].kind
      /\ tasks[k].kind \in {"init", "unlock"} /\ tasks[k].password \in Passwords
      /\ t.password = tasks[k].password
      /\ t.pc \in {"bake", "stop", "done"}
      /\ t.pc = "stop" => t.kind = "unlock"
      /\ t.pc = "done" => t.kind = "init"
  <2>0. /\ tasks[k] \in TaskType
        /\ tasks[k].kind \in {"init", "unlock"} /\ tasks[k].password \in Passwords
        /\ AfterMacaroons(k) \in {"stop", "done"}
        /\ AfterMacaroons(k) = "stop" => tasks[k].kind = "unlock"
        /\ AfterMacaroons(k) = "done" => tasks[k].kind = "init"
    BY Zenon, <1>0, AfterMacaroonsFact DEF MacaroonSteps
  <2>1. /\ t.kind = tasks[k].kind /\ t.password = tasks[k].password
        /\ t.pc = IF tasks[k].left = {f} THEN AfterMacaroons(k) ELSE "bake"
    BY Zenon, <2>0 DEF TaskType
  <2>2. t.pc \in Steps
    BY Zenon, <2>1, <2>0 DEF Steps, Ended, MacaroonSteps, ServerSteps
  <2>3. t \in TaskType
    BY Zenon, <2>0, <2>2 DEF TaskType
  <2>4. tasks' = [tasks EXCEPT ![k] = t] /\ tasks'[k] = t
    BY Zenon, <1>0 DEF Types
  <2> HIDE DEF t
  <2> QED BY Zenon, <2>0, <2>1, <2>3, <2>4
<1>2. /\ macaroons' \in [password : AnyPassword, unlocked : BOOLEAN, rootKey : BOOLEAN]
      /\ macaroons'.password = macaroons.password
      /\ macaroons'.unlocked = macaroons.unlocked
      /\ macaroons'.rootKey
  BY Zenon, <1>0 DEF Types
<1> HIDE DEF t
<1>3. Types'
  BY <1>0, <1>1, <1>2 DEF Types, pointers, ports, history
<1>4. Shape'
  <2>1. TaskOK(t)
    BY Zenon, <1>1 DEF TaskOK, MacaroonSteps, ServerSteps
  <2>2. \A j \in Tasks : TaskOK(tasks'[j])
    BY Zenon, <1>0, <1>1, <2>1 DEF Types, Shape
  <2> QED BY Zenon, <1>0, <1>2, <2>2 DEF Shape
<1>5. Dead'
  BY Zenon, <1>0 DEF Dead
<1>6. ASSUME Calm' PROVE CalmInv'
  <2>1. Calm /\ DownOld /\ Alone(k) /\ MacaroonStage(k) /\ ServerStage(k)
    BY Zenon, <1>0, <1>6, Working DEF Calm, history
  <2>2. DownOld' /\ (t.pc = "done" => AtRest') /\ (t.pc # "done" => ServerStage(k)')
    BY Zenon, <1>0, <1>1, <2>1, ServersStay DEF MacaroonSteps, history
  <2>3. Settled'
    BY Zenon, <2>1, <1>0, <1>2 DEF MacaroonStage, Settled
  <2>4. t.pc # "done" => MacaroonStage(k)'
    BY Zenon, <2>3, <1>1 DEF MacaroonStage, Settled, ServerSteps
  <2> QED BY Zenon, <1>0, <1>1, <2>1, <2>2, <2>3, <2>4, CalmStep DEF Ended
<1> QED BY Zenon, <1>3, <1>4, <1>5, <1>6 DEF IInv, CalmInv

\* A macaroon cannot be written.
LEMMA BakeFailsInv ==
  ASSUME IInv, NEW k \in Tasks, tasks[k].pc = "bake",
         Goto(k, AfterMacaroons(k)), faults' = faults + 1,
         UNCHANGED <<wallet, up, pointers, ports, macaroons, files, history>>
  PROVE  IInv'
<1> DEFINE t == [tasks[k] EXCEPT !.pc = AfterMacaroons(k)]
<1>0. /\ tasks[k].pc \notin Ended
      /\ Types /\ Shape /\ up
  BY Zenon, Working DEF IInv, Ended
<1>1. /\ tasks' = [tasks EXCEPT ![k] = t] /\ t \in TaskType
      /\ t.kind \in {"init", "unlock"}
      /\ t.pc \in {"stop", "done"} /\ (t.pc = "stop" => t.kind = "unlock")
  <2>1. /\ tasks[k] \in TaskType /\ tasks[k].kind \in {"init", "unlock"}
        /\ AfterMacaroons(k) \in {"stop", "done"}
        /\ AfterMacaroons(k) = "stop" => tasks[k].kind = "unlock"
    BY Zenon, <1>0, AfterMacaroonsFact DEF MacaroonSteps
  <2>2. t.kind = tasks[k].kind /\ t.pc = AfterMacaroons(k)
    BY Zenon, <2>1 DEF TaskType
  <2>3. t.pc \in Steps
    BY Zenon, <2>1, <2>2 DEF Steps, Ended, ServerSteps
  <2>4. t \in TaskType
    BY Zenon, <2>1, <2>3 DEF TaskType
  <2>5. tasks' = [tasks EXCEPT ![k] = t]
    BY Zenon, <1>0 DEF Goto, Types
  <2> HIDE DEF t
  <2> QED BY Zenon, <2>1, <2>2, <2>4, <2>5
<1> HIDE DEF t
<1>2. Types'
  BY <1>0, <1>1 DEF Types, pointers, ports, history
<1>3. Shape'
  <2>1. TaskOK(t)
    BY Zenon, <1>1 DEF TaskOK, MacaroonSteps, ServerSteps
  <2> QED BY Zenon, <1>0, <1>1, <2>1 DEF Types, Shape
<1>4. Dead' /\ CalmInv'
  BY <1>0 DEF Dead, CalmInv, Calm, Types
<1> QED BY Zenon, <1>2, <1>3, <1>4 DEF IInv

\* A macaroon is written or cannot be (macaroon_utils.go, genMacaroons).
LEMMA BakeMacaroonInv ==
  ASSUME IInv, NEW k \in Tasks, BakeMacaroon(k)
  PROVE  IInv'
<1>1. CASE faults' = faults + 1 /\ Goto(k, AfterMacaroons(k)) /\ UNCHANGED <<files, macaroons>>
  BY Zenon, <1>1, BakeFailsInv DEF BakeMacaroon
<1>2. CASE ~(faults' = faults + 1 /\ Goto(k, AfterMacaroons(k)) /\ UNCHANGED <<files, macaroons>>)
  <2>1. PICK f \in tasks[k].left :
          /\ files' = files \cup {f}
          /\ tasks' = [tasks EXCEPT ![k] =
               [[tasks[k] EXCEPT !.left = @ \ {f}]
                   EXCEPT !.pc = IF tasks[k].left = {f} THEN AfterMacaroons(k)
                                 ELSE "bake"]]
    BY Zenon, <1>2 DEF BakeMacaroon
  <2>2. macaroons' = [macaroons EXCEPT !.rootKey = TRUE] /\ UNCHANGED faults
    BY Zenon, <1>2 DEF BakeMacaroon
  <2> QED BY Zenon, <2>1, <2>2, BakeOneInv DEF BakeMacaroon
<1> QED BY Zenon, <1>1, <1>2

\* The macaroon store follows a change of password (service.go, onChangePwd;
\* store.go, ChangePassword).
LEMMA OnChangePwdInv ==
  ASSUME IInv, NEW k \in Tasks, OnChangePwd(k)
  PROVE  IInv'
<1> DEFINE t == [tasks[k] EXCEPT !.pc = "done"]
<1>0. /\ tasks[k].pc = "change" /\ tasks[k].pc \notin Ended
      /\ Types /\ Shape /\ up
  BY Zenon, Working DEF IInv, Ended, OnChangePwd
<1>1. /\ tasks' = [tasks EXCEPT ![k] = t] /\ t \in TaskType
      /\ t.kind = tasks[k].kind /\ t.kind = "change" /\ t.pc = "done"
      /\ tasks[k].new \in Passwords
  BY <1>0 DEF OnChangePwd, Goto, Types, TaskType, Steps, Ended, Shape, TaskOK
<1>2. UNCHANGED <<wallet, up, pointers, ports, files, faults, history>>
  BY Zenon DEF OnChangePwd
<1>3. /\ macaroons' \in [password : AnyPassword, unlocked : BOOLEAN, rootKey : BOOLEAN]
      /\ macaroons'.unlocked => macaroons'.password # NoPassword
      /\ macaroons'.rootKey = macaroons.rootKey
      /\ macaroons.password = tasks[k].password /\ macaroons.rootKey =>
           macaroons'.password = tasks[k].new
  BY Zenon, <1>0, <1>1, InterfacesAssumption DEF OnChangePwd, Types, Shape, AnyPassword
<1> HIDE DEF t
<1>4. Types'
  BY Zenon, <1>0, <1>1, <1>2, <1>3 DEF Types, pointers, ports, history
<1>5. Shape'
  BY Zenon, <1>0, <1>1, <1>2, <1>3 DEF Types, Shape, TaskOK, MacaroonSteps, ServerSteps
<1>6. Dead'
  BY <1>0, <1>2 DEF Dead
<1>7. ASSUME Calm' PROVE CalmInv'
  <2>1. Calm /\ DownOld /\ Alone(k) /\ MacaroonStage(k) /\ ServerStage(k)
    BY Zenon, <1>0, <1>2, <1>7, Working DEF Calm, history
  <2>2. DownOld' /\ AtRest'
    BY Zenon, <1>0, <1>1, <1>2, <2>1, ServersStay DEF MacaroonSteps, history
  <2>3. Settled'
    BY Zenon, <2>1, <1>0, <1>2, <1>3 DEF MacaroonStage, Settled
  <2> QED BY Zenon, <1>0, <1>1, <2>1, <2>2, <2>3, CalmStep DEF Ended
<1> QED BY <1>4, <1>5, <1>6, <1>7 DEF IInv, CalmInv

-----------------------------------------------------------------------------
\* The operator server is shut down (service.go, stop).
LEMMA StopOperatorInv ==
  ASSUME IInv, NEW k \in Tasks, StopOperator(k)
  PROVE  IInv'
<1> DEFINE t == [[tasks[k] EXCEPT !.pc = "stopTrade"] EXCEPT !.server = operatorServer]
<1>0. /\ tasks[k].pc = "stop" /\ tasks[k].pc \notin Ended
      /\ Types /\ Shape /\ up
  BY Zenon, Working DEF IInv, Ended, StopOperator
<1>1. /\ tasks' = [tasks EXCEPT ![k] = t] /\ tasks'[k] = t /\ t \in TaskType
      /\ t.kind = tasks[k].kind /\ t.kind \in {"unlock", "lock"} /\ t.pc = "stopTrade"
  <2>1. tasks[k] \in TaskType /\ tasks[k].kind \in {"unlock", "lock"}
        /\ operatorServer \in Servers
    BY Zenon, <1>0 DEF Types, Shape, TaskOK, ServerSteps
  <2>2. t \in TaskType /\ t.kind = tasks[k].kind /\ t.pc = "stopTrade"
    BY Zenon, <2>1 DEF TaskType, Steps, ServerSteps
  <2> QED BY Zenon, <1>0, <2>1, <2>2 DEF StopOperator, Types
<1>2. /\ UNCHANGED <<wallet, up, pointers, tradeDown, spawned, tradeSpawned,
                     tradeOwner, macaroons, files, faults, history>>
      /\ down' = down \cup {operatorServer}
      /\ owner' = IF owner = operatorServer THEN None ELSE owner
  BY Zenon DEF StopOperator
<1> HIDE DEF t
<1>3. Types'
  BY Zenon, <1>0, <1>1, <1>2 DEF Types, pointers, history
<1>4. Shape'
  BY Zenon, <1>0, <1>1, <1>2 DEF Types, Shape, TaskOK, MacaroonSteps, ServerSteps
<1>5. Dead'
  BY Zenon, <1>0, <1>2 DEF Dead
<1>6. ASSUME Calm' PROVE CalmInv'
  <2>1. Calm /\ DownOld /\ Alone(k) /\ MacaroonStage(k) /\ ServerStage(k)
    BY Zenon, <1>0, <1>2, <1>6, Working DEF Calm, history
  <2>2. \A n : Over(n) => Over(n)'
    BY Zenon, <1>0, <1>1, <2>1, TaskGoesOn
  <2>3. Old /\ owner' = None
    BY Zenon, <1>0, <1>2, <2>1 DEF ServerStage
  <2>4. Old' /\ DownOld'
    BY Zenon, <1>2, <2>1, <2>2, <2>3 DEF Old, DownOld, pointers
  <2>5. ServerStage(k)'
    BY Zenon, <1>0, <1>1, <1>2, <2>1, <2>3, <2>4 DEF ServerStage, pointers, history
  <2>6. MacaroonStage(k)'
    BY Zenon, <1>0, <1>1, <1>2, <2>1 DEF MacaroonStage, Settled, ServerSteps
  <2> QED BY Zenon, <1>0, <1>1, <2>1, <2>4, <2>5, <2>6, CalmStep DEF Ended
<1> QED BY <1>3, <1>4, <1>5, <1>6 DEF IInv, CalmInv

\* The trade server is shut down (service.go, stop).
LEMMA StopTradeInv ==
  ASSUME IInv, NEW k \in Tasks, StopTrade(k)
  PROVE  IInv'
<1> DEFINE t == [tasks[k] EXCEPT !.pc = "start"]
<1>0. /\ tasks[k].pc = "stopTrade" /\ tasks[k].pc \notin Ended
      /\ Types /\ Shape /\ up
  BY Zenon, Working DEF IInv, Ended, StopTrade
<1>1. /\ tasks' = [tasks EXCEPT ![k] = t] /\ tasks'[k] = t /\ t \in TaskType
      /\ t.kind = tasks[k].kind /\ t.kind \in {"unlock", "lock"} /\ t.pc = "start"
  BY <1>0 DEF StopTrade, Goto, Types, TaskType, Steps, ServerSteps, Shape, TaskOK
<1>2. /\ UNCHANGED <<wallet, up, pointers, down, spawned, tradeSpawned,
                     owner, macaroons, files, faults, history>>
      /\ tradeDown' = IF tradeServer = None THEN tradeDown ELSE tradeDown \cup {tradeServer}
      /\ tradeOwner' = IF tradeOwner = tradeServer THEN None ELSE tradeOwner
  BY Zenon DEF StopTrade
<1> HIDE DEF t
<1>3. Types'
  BY Zenon, <1>0, <1>1, <1>2 DEF Types, pointers, history
<1>4. Shape'
  BY Zenon, <1>0, <1>1, <1>2 DEF Types, Shape, TaskOK, MacaroonSteps, ServerSteps
<1>5. Dead'
  BY Zenon, <1>0, <1>2 DEF Dead
<1>6. ASSUME Calm' PROVE CalmInv'
  <2>1. Calm /\ DownOld /\ Alone(k) /\ MacaroonStage(k) /\ ServerStage(k)
    BY Zenon, <1>0, <1>2, <1>6, Working DEF Calm, history
  <2>2. \A n : Over(n) => Over(n)'
    BY Zenon, <1>0, <1>1, <2>1, TaskGoesOn
  <2>3. Old /\ owner = None /\ tradeOwner' = None
    BY Zenon, <1>0, <1>2, <2>1 DEF ServerStage
  <2>4. Old' /\ DownOld'
    BY Zenon, <1>2, <2>1, <2>2, <2>3 DEF Old, DownOld, pointers
  <2>5. ServerStage(k)'
    BY Zenon, <1>0, <1>1, <1>2, <2>1, <2>3, <2>4 DEF ServerStage, pointers, history
  <2>6. MacaroonStage(k)'
    BY Zenon, <1>0, <1>1, <1>2, <2>1 DEF MacaroonStage, Settled, ServerSteps
  <2> QED BY Zenon, <1>0, <1>1, <2>1, <2>4, <2>5, <2>6, CalmStep DEF Ended
<1> QED BY Zenon, <1>3, <1>4, <1>5, <1>6 DEF IInv, CalmInv

\* New servers take the pointers, or cannot be made (service.go, start).
LEMMA StartServersInv ==
  ASSUME IInv, NEW k \in Tasks, StartServers(k)
  PROVE  IInv'
<1> DEFINE t(pc) == [tasks[k] EXCEPT !.pc = pc]
<1>0. /\ tasks[k].pc = "start" /\ tasks[k].pc \notin Ended
      /\ Types /\ Shape /\ up
  BY Zenon, Working DEF IInv, Ended, StartServers
<1>1. UNCHANGED <<wallet, up, ports, macaroons, files, history>>
  BY Zenon DEF StartServers
<1>2. CASE faults' = faults + 1 /\ Goto(k, "done") /\ UNCHANGED pointers
  <2>1. Types' /\ Shape'
    BY <1>0, <1>1, <1>2
    DEF Types, TaskType, Goto, Steps, Ended, Shape, TaskOK, MacaroonSteps, ServerSteps,
        pointers, ports, history
  <2>2. Dead' /\ CalmInv'
    BY <1>0, <1>1, <1>2 DEF Dead, CalmInv, Calm, Types
  <2> QED BY Zenon, <2>1, <2>2 DEF IInv
<1>3. CASE /\ operatorServer' = k
           /\ tradeServer' = IF tasks[k].kind = "unlock" THEN k ELSE None
           /\ Goto(k, "listen")
           /\ UNCHANGED faults
  <2>1. /\ tasks' = [tasks EXCEPT ![k] = t("listen")] /\ tasks'[k] = t("listen")
        /\ t("listen") \in TaskType /\ t("listen").kind = tasks[k].kind
        /\ tasks[k].kind \in {"unlock", "lock"} /\ t("listen").pc = "listen"
    BY <1>0, <1>3 DEF Goto, Types, TaskType, Steps, ServerSteps, Shape, TaskOK
  <2> HIDE DEF t
  <2>2. Types'
    BY <1>0, <1>1, <1>3, <2>1 DEF Types, ports, history, Tasks, Servers
  <2>3. Shape'
    BY Zenon, <1>0, <1>1, <2>1 DEF Types, Shape, TaskOK, MacaroonSteps, ServerSteps
  <2>4. Dead'
    BY Zenon, <1>0, <1>1 DEF Dead
  <2>5. ASSUME Calm' PROVE CalmInv'
    <3>1. Calm /\ DownOld /\ Alone(k) /\ MacaroonStage(k) /\ ServerStage(k)
      BY Zenon, <1>0, <1>1, <1>3, <2>5, Working DEF Calm, history
    <3>2. \A n : Over(n) => Over(n)'
      BY Zenon, <1>0, <2>1, <3>1, TaskGoesOn
    <3>3. DownOld'
      BY Zenon, <1>1, <3>1, <3>2 DEF DownOld, ports
    <3>4. ServerStage(k)'
      BY Zenon, <1>0, <1>1, <1>3, <2>1, <3>1 DEF ServerStage, ports, history
    <3>5. MacaroonStage(k)'
      BY Zenon, <1>0, <1>1, <2>1, <3>1 DEF MacaroonStage, Settled, ServerSteps
    <3> QED BY Zenon, <1>0, <2>1, <3>1, <3>3, <3>4, <3>5, CalmStep DEF Ended
  <2> QED BY Zenon, <2>2, <2>3, <2>4, <2>5 DEF IInv, CalmInv
<1> QED BY Zenon, <1>2, <1>3 DEF StartServers

\* The goroutine of the new operator server starts (service.go, start).
LEMMA SpawnOperatorInv ==
  ASSUME IInv, NEW k \in Tasks, SpawnOperator(k)
  PROVE  IInv'
<1> DEFINE t == [tasks[k] EXCEPT !.pc = IF tasks[k].kind = "unlock" THEN "listenTrade" ELSE "done"]
<1>0. /\ tasks[k].pc = "listen" /\ tasks[k].pc \notin Ended
      /\ Types /\ Shape /\ up
  BY Zenon, Working DEF IInv, Ended, SpawnOperator
<1>1. /\ tasks' = [tasks EXCEPT ![k] = t] /\ tasks'[k] = t /\ t \in TaskType
      /\ t.kind = tasks[k].kind /\ t.kind \in {"unlock", "lock"}
      /\ t.pc = IF t.kind = "unlock" THEN "listenTrade" ELSE "done"
  BY <1>0 DEF SpawnOperator, Goto, Types, TaskType, Steps, ServerSteps, Ended, Shape, TaskOK
<1>2. /\ UNCHANGED <<wallet, up, pointers, down, tradeDown, tradeSpawned, owner,
                     tradeOwner, macaroons, files, faults, history>>
      /\ spawned' = spawned \cup {operatorServer}
  BY Zenon DEF SpawnOperator
<1> HIDE DEF t
<1>3. Types'
  BY Zenon, <1>0, <1>1, <1>2 DEF Types, pointers, history
<1>4. Shape'
  BY Zenon, <1>0, <1>1, <1>2 DEF Types, Shape, TaskOK, MacaroonSteps, ServerSteps
<1>5. Dead'
  BY Zenon, <1>0, <1>2 DEF Dead
<1>6. ASSUME Calm' PROVE CalmInv'
  <2>1. Calm /\ DownOld /\ Alone(k) /\ MacaroonStage(k) /\ ServerStage(k)
    BY Zenon, <1>0, <1>2, <1>6, Working DEF Calm, history
  <2>2. (\A n : Over(n) => Over(n)') /\ WithOperator' = WithOperator
    BY Zenon, <1>0, <1>1, <2>1, TaskGoesOn
  <2>3. DownOld'
    BY Zenon, <1>2, <2>1, <2>2 DEF DownOld
  <2>4. k \notin down
    BY <1>0, <2>1 DEF DownOld, Over, Tasks
  <2>5. /\ operatorServer = k /\ owner = None /\ tradeOwner = None
        /\ tradeServer = IF tasks[k].kind = "unlock" THEN k ELSE None
        /\ spawned = {} /\ tradeSpawned = {}
    BY Zenon, <1>0, <2>1 DEF ServerStage
  <2>6. OperatorServed'
    BY Zenon, <1>2, <2>4, <2>5 DEF OperatorServed, pointers
  <2>7. Settled'
    BY Zenon, <1>0, <1>2, <2>1 DEF MacaroonStage, Settled, ServerSteps
  <2>8. ASSUME t.pc # "done" PROVE (MacaroonStage(k) /\ ServerStage(k))'
    <3>1. t.kind = "unlock" /\ t.pc = "listenTrade"
      BY Zenon, <1>1, <2>8
    <3>2. MacaroonStage(k)'
      BY Zenon, <1>1, <2>7, <3>1 DEF MacaroonStage
    <3>3. unlockedHere'
      BY Zenon, <1>1, <1>2, <2>1, <3>1 DEF ServerStage, history
    <3> QED BY Zenon, <1>1, <1>2, <2>5, <2>6, <3>1, <3>2, <3>3 DEF ServerStage, pointers
  <2>9. ASSUME t.pc = "done" PROVE AtRest'
    <3>1. tasks[k].kind = "lock" /\ ~unlockedHere
      BY Zenon, <1>1, <2>1, <2>9 DEF ServerStage
    <3>2. Old'
      BY Zenon, <1>1, <1>2, <2>5, <2>9, <3>1 DEF Old, Over, pointers
    <3>3. TradeServed'
      BY Zenon, <1>2, <2>5, <3>1 DEF TradeServed, pointers
    <3>4. Matches'
      BY Zenon, <1>2, <2>2, <2>5, <3>1 DEF Matches, WithOperator, pointers, history
    <3> QED BY Zenon, <2>6, <3>2, <3>3, <3>4 DEF AtRest
  <2> QED BY Zenon, <1>0, <1>1, <2>1, <2>3, <2>7, <2>8, <2>9, CalmStep DEF Ended
<1> QED BY Zenon, <1>3, <1>4, <1>5, <1>6 DEF IInv, CalmInv

\* The goroutine of the new trade server starts (service.go, start).
LEMMA SpawnTradeInv ==
  ASSUME IInv, NEW k \in Tasks, SpawnTrade(k)
  PROVE  IInv'
<1> DEFINE t == [tasks[k] EXCEPT !.pc = "done"]
<1>0. /\ tasks[k].pc = "listenTrade" /\ tasks[k].pc \notin Ended
      /\ Types /\ Shape /\ up
  BY Zenon, Working DEF IInv, Ended, SpawnTrade
<1>1. /\ tasks' = [tasks EXCEPT ![k] = t] /\ tasks'[k] = t /\ t \in TaskType
      /\ t.kind = tasks[k].kind /\ t.kind = "unlock" /\ t.pc = "done"
  BY <1>0 DEF SpawnTrade, Goto, Types, TaskType, Steps, ServerSteps, Ended, Shape, TaskOK
<1>2. /\ UNCHANGED <<wallet, up, pointers, down, tradeDown, spawned, owner,
                     tradeOwner, macaroons, files, faults, history>>
      /\ tradeSpawned' = tradeSpawned \cup {tradeServer}
      /\ tradeServer # None
  BY Zenon DEF SpawnTrade
<1> HIDE DEF t
<1>3. Types'
  BY Zenon, <1>0, <1>1, <1>2 DEF Types, pointers, history
<1>4. Shape'
  BY Zenon, <1>0, <1>1, <1>2 DEF Types, Shape, TaskOK, MacaroonSteps, ServerSteps
<1>5. Dead'
  BY Zenon, <1>0, <1>2 DEF Dead
<1>6. ASSUME Calm' PROVE CalmInv'
  <2>1. Calm /\ DownOld /\ Alone(k) /\ MacaroonStage(k) /\ ServerStage(k)
    BY Zenon, <1>0, <1>2, <1>6, Working DEF Calm, history
  <2>2. (\A n : Over(n) => Over(n)') /\ WithOperator' = WithOperator
    BY Zenon, <1>0, <1>1, <2>1, TaskGoesOn
  <2>3. DownOld'
    BY Zenon, <1>2, <2>1, <2>2 DEF DownOld
  <2>4. k \notin tradeDown
    BY Zenon, <1>0, <2>1 DEF DownOld, Over
  <2>5. /\ operatorServer = k /\ OperatorServed /\ tradeOwner = None /\ tradeServer = k
        /\ tradeSpawned = {} /\ unlockedHere
    BY Zenon, <1>0, <1>1, <2>1 DEF ServerStage
  <2>6. OperatorServed' /\ TradeServed'
    BY Zenon, <1>2, <2>4, <2>5 DEF OperatorServed, TradeServed, pointers
  <2>7. Old' /\ Matches'
    BY Zenon, <1>1, <1>2, <2>2, <2>5 DEF Old, Over, Matches, WithOperator, pointers, history
  <2>8. Settled'
    BY Zenon, <1>0, <1>2, <2>1 DEF MacaroonStage, Settled, ServerSteps
  <2> QED BY Zenon, <1>0, <1>1, <2>1, <2>3, <2>6, <2>7, <2>8, CalmStep DEF Ended, AtRest
<1> QED BY Zenon, <1>3, <1>4, <1>5, <1>6 DEF IInv, CalmInv

\* An operator server listens if the port is free and it was not shut down.
LEMMA ListenInv ==
  ASSUME IInv, Listen
  PROVE  IInv'
<1>1. PICK n \in spawned : /\ spawned' = spawned \ {n}
                           /\ owner' = IF owner = None /\ n \notin down THEN n ELSE owner
  BY Zenon DEF Listen
<1>2. UNCHANGED <<wallet, up, pointers, down, tradeDown, tradeSpawned, tradeOwner,
                  tasks, macaroons, files, faults, history>>
  BY Zenon DEF Listen
<1>3. Types /\ Shape /\ Dead /\ CalmInv
  BY Zenon DEF IInv
<1>4. Types' /\ Shape' /\ Dead'
  BY Zenon, <1>1, <1>2, <1>3 DEF Types, Shape, Dead, pointers, history
<1>5. ASSUME OperatorServed PROVE OperatorServed'
  BY Zenon, <1>1, <1>2, <1>5 DEF OperatorServed, pointers
<1>6. ASSUME Calm PROVE CalmInv'
  <2>1. DownOld' = DownOld /\ Idle' = Idle /\ Settled' = Settled
    BY Zenon, <1>2 DEF DownOld, Over, Idle, Settled
  <2>2. AtRest => AtRest'
    BY Zenon, <1>2, <1>5 DEF AtRest, Old, Over, TradeServed, Matches, WithOperator, pointers, history
  <2>3. ASSUME NEW k \in Tasks, tasks[k].pc \notin Ended
        PROVE  (Alone(k) /\ MacaroonStage(k) /\ ServerStage(k))'
    <3>1. Alone(k) /\ MacaroonStage(k) /\ ServerStage(k)
      BY Zenon, <1>3, <1>6, <2>3 DEF CalmInv
    <3>2. tasks[k].pc = "listenTrade"
      BY Zenon, <1>1, <3>1 DEF ServerStage
    <3>3. OperatorServed /\ OperatorServed'
      BY Zenon, <1>5, <3>1, <3>2 DEF ServerStage
    <3>4. ServerStage(k)'
      BY Zenon, <1>2, <3>1, <3>2, <3>3 DEF ServerStage, Matches, WithOperator, pointers, history
    <3>5. (Alone(k) /\ MacaroonStage(k))'
      BY Zenon, <1>2, <3>1 DEF Alone, MacaroonStage, Settled
    <3> QED BY Zenon, <3>4, <3>5
  <2> QED BY Zenon, <1>2, <1>3, <1>6, <2>1, <2>2, <2>3 DEF CalmInv
<1>7. Calm' => Calm
  BY Zenon, <1>2 DEF Calm, history
<1> QED BY Zenon, <1>4, <1>6, <1>7 DEF IInv, CalmInv

\* So does a trade server.
LEMMA ListenTradeInv ==
  ASSUME IInv, ListenTrade
  PROVE  IInv'
<1>1. PICK n \in tradeSpawned :
        /\ tradeSpawned' = tradeSpawned \ {n}
        /\ tradeOwner' = IF tradeOwner = None /\ n \notin tradeDown THEN n ELSE tradeOwner
  BY Zenon DEF ListenTrade
<1>2. UNCHANGED <<wallet, up, pointers, down, tradeDown, spawned, owner,
                  tasks, macaroons, files, faults, history>>
  BY Zenon DEF ListenTrade
<1>3. Types /\ Shape /\ Dead /\ CalmInv
  BY DEF IInv
<1>4. Types' /\ Shape' /\ Dead'
  BY Zenon, <1>1, <1>2, <1>3 DEF Types, Shape, Dead, pointers, history
<1>5. ASSUME Calm PROVE CalmInv'
  <2>1. DownOld' = DownOld /\ Idle' = Idle /\ Settled' = Settled
    BY Zenon, <1>2 DEF DownOld, Over, Idle, Settled
  <2>2. AtRest => AtRest'
    <3>1. TradeServed => TradeServed'
      BY Zenon, <1>1, <1>2 DEF TradeServed, pointers
    <3> QED BY Zenon, <1>2, <3>1
            DEF AtRest, Old, Over, OperatorServed, Matches, WithOperator, pointers, history
  <2>3. \A k \in Tasks : tasks'[k].pc \in Ended
    BY Zenon, <1>1, <1>2, <1>3, <1>5 DEF CalmInv, ServerStage
  <2> QED BY Zenon, <1>2, <1>3, <1>5, <2>1, <2>2, <2>3 DEF CalmInv
<1>6. Calm' => Calm
  BY Zenon, <1>2 DEF Calm, history
<1> QED BY Zenon, <1>4, <1>5, <1>6 DEF IInv, CalmInv

\* What the invariant speaks of stays the same.
LEMMA SameInv ==
  ASSUME IInv,
         UNCHANGED <<wallet, up, operatorServer, tradeServer, down, tradeDown, spawned,
                     tradeSpawned, owner, tradeOwner, tasks, macaroons, files, faults,
                     overlapped, unlockedHere>>
  PROVE  IInv'
<1>1. Types'
  BY Zenon DEF IInv, Types
<1>2. Shape' /\ Dead'
  BY Zenon DEF IInv, Shape, Dead
<1>3. Calm' = Calm /\ Idle' = Idle /\ Settled' = Settled
  BY Zenon DEF Calm, Idle, Settled
<1>4. \A n : Over(n)' = Over(n)
  BY Zenon DEF Over
<1>5. DownOld' = DownOld /\ Old' = Old
  BY Zenon, <1>4 DEF DownOld, Old
<1>6. OperatorServed' = OperatorServed /\ TradeServed' = TradeServed /\ Matches' = Matches
  BY Zenon DEF OperatorServed, TradeServed, Matches, WithOperator
<1>7. AtRest' = AtRest
  BY Zenon, <1>5, <1>6 DEF AtRest
<1>8. ASSUME NEW k \in Tasks
      PROVE  (Alone(k) /\ MacaroonStage(k) /\ ServerStage(k)) =>
             (Alone(k) /\ MacaroonStage(k) /\ ServerStage(k))'
  <2>1. Alone(k) => Alone(k)'
    BY Zenon DEF Alone
  <2>2. MacaroonStage(k) => MacaroonStage(k)'
    BY Zenon, <1>3 DEF MacaroonStage
  <2>3. ServerStage(k) => ServerStage(k)'
    BY Zenon, <1>5, <1>6 DEF ServerStage
  <2> QED BY Zenon, <2>1, <2>2, <2>3
<1>9. CalmInv => CalmInv'
  BY Zenon, <1>3, <1>5, <1>7, <1>8 DEF CalmInv
<1> QED BY Zenon, <1>1, <1>2, <1>9 DEF IInv

\* InitWallet answers once its file is there (wallet.go, InitWallet).
LEMMA InitReturnsInv ==
  ASSUME IInv, InitReturns
  PROVE  IInv'
  BY Zenon, SameInv DEF InitReturns, pointers, ports, history

-----------------------------------------------------------------------------
\* An RPC that begins task t: the stage of the macaroons is up to the RPC.
LEMMA RPCInv ==
  ASSUME IInv, NEW k \in Tasks, NEW t \in TaskType, RPC(k, t), TaskOK(t),
         t.pc \in {"password", "change", "stop"},
         wallet' \in [password : AnyPassword, locked : BOOLEAN],
         unlockedHere' \in BOOLEAN,
         t.kind \in {"init", "change"} => unlockedHere' = unlockedHere,
         t.kind = "unlock" => unlockedHere',
         t.kind = "lock" => ~unlockedHere',
         tasks'[k] = t /\ Settled => MacaroonStage(k)'
  PROVE  IInv'
<1>0. tasks[k] = NoTask /\ NoTask.pc = "none" /\ NoTask.kind = "none"
  BY Zenon DEF RPC, NoTask, Task
<1>1. /\ up /\ tasks[k] = NoTask /\ tasks[k].pc = "none" /\ tasks[k].kind = "none"
      /\ tasks' = [tasks EXCEPT ![k] = t]
      /\ overlapped' = (overlapped \/ ~Quiet)
      /\ UNCHANGED <<up, pointers, ports, macaroons, files, faults>>
      /\ Types /\ Shape
  BY <1>0, Zenon DEF RPC, IInv
<1>2. tasks'[k] = t /\ \A j \in Tasks : j # k => tasks'[j] = tasks[j]
  BY Zenon, <1>1 DEF Types
<1>3. Types'
  BY Zenon, <1>1 DEF Types, pointers, ports
<1>4. Shape'
  BY Zenon, <1>1, <1>2 DEF Shape
<1>5. Dead'
  BY Zenon, <1>1 DEF Dead
<1>6. ASSUME Calm' PROVE CalmInv'
  <2>1. Calm /\ Quiet
    BY <1>1, <1>6, Zenon DEF Calm
  <2>2. Idle
    BY Zenon, <2>1 DEF Quiet, Pending, Idle, Ended
  <2>3. DownOld /\ Settled /\ Old /\ OperatorServed /\ TradeServed /\ Matches
    BY Zenon, <1>1, <2>1, <2>2 DEF IInv, CalmInv, AtRest
  <2>4. \A n : Over(n) => Over(n)'
    BY Zenon, <1>1, <1>2 DEF Over
  <2>5. DownOld' /\ Old'
    BY Zenon, <1>1, <2>3, <2>4 DEF DownOld, Old, pointers, ports
  <2>6. Alone(k)' /\ ~Idle' /\ \A j \in Tasks : tasks'[j].pc \notin Ended => j = k
    BY Zenon, <1>2, <2>2 DEF Alone, Idle, Ended
  <2>7. ServerStage(k)'
    <3>1. /\ spawned = {} /\ tradeSpawned = {}
          /\ owner = operatorServer /\ tradeOwner = tradeServer
      BY Zenon, <2>1, <2>3 DEF Quiet, OperatorServed, TradeServed
    <3>2. t.kind \in {"init", "change"} => Matches'
      <4>1. t.kind # "unlock" => WithOperator' = WithOperator
        BY Zenon, <1>1, <1>2 DEF WithOperator
      <4> QED BY Zenon, <1>1, <2>3, <4>1 DEF Matches, pointers
    <3>3. (spawned = {} /\ tradeSpawned = {} /\ owner = operatorServer /\ tradeOwner = tradeServer)'
      BY Zenon, <1>1, <3>1 DEF pointers, ports
    <3> QED BY Zenon, <1>2, <2>5, <3>2, <3>3 DEF ServerStage
  <2>8. MacaroonStage(k)'
    BY Zenon, <1>2, <2>3
  <2> QED BY Zenon, <2>5, <2>6, <2>7, <2>8 DEF CalmInv
<1> QED BY Zenon, <1>3, <1>4, <1>5, <1>6 DEF IInv, CalmInv

\* A wallet is made, and its task begins (wallet.go, InitWallet).
LEMMA InitWalletInv ==
  ASSUME IInv, NEW k \in Tasks, InitWallet(k)
  PROVE  IInv'
<1>1. PICK pw \in Passwords :
        /\ wallet' = [password |-> pw, locked |-> TRUE]
        /\ RPC(k, Task("init", "password", pw, NoPassword))
  BY Zenon DEF InitWallet
<1> DEFINE t == Task("init", "password", pw, NoPassword)
<1>2. /\ t \in TaskType /\ TaskOK(t) /\ t.pc = "password" /\ t.kind = "init" /\ t.password = pw
  BY Zenon DEF Task, TaskType, TaskOK, Kinds, Steps, MacaroonSteps, ServerSteps, AnyPassword
<1>3. wallet' \in [password : AnyPassword, locked : BOOLEAN] /\ wallet'.password = pw
  BY Zenon, <1>1 DEF AnyPassword
<1>4. /\ unlockedHere' = unlockedHere /\ unlockedHere' \in BOOLEAN
      /\ wallet.password = NoPassword /\ macaroons' = macaroons
  BY Zenon, <1>1 DEF InitWallet, RPC, IInv, Types
<1> HIDE DEF t
<1>5. tasks'[k] = t /\ Settled => MacaroonStage(k)'
  BY Zenon, <1>2, <1>3, <1>4 DEF MacaroonStage, Settled, ServerSteps
<1> QED BY Zenon, <1>1, <1>2, <1>3, <1>4, <1>5, RPCInv DEF t

\* The wallet is unlocked, and its task begins (wallet.go, UnlockWallet).
LEMMA UnlockWalletInv ==
  ASSUME IInv, NEW k \in Tasks, UnlockWallet(k)
  PROVE  IInv'
<1> DEFINE t == Task("unlock", "password", wallet.password, NoPassword)
<1>1. /\ wallet.password \in Passwords
      /\ wallet' \in [password : AnyPassword, locked : BOOLEAN]
      /\ wallet'.password = wallet.password
  BY Zenon DEF UnlockWallet, IInv, Types, AnyPassword
<1>2. /\ t \in TaskType /\ TaskOK(t) /\ t.pc = "password" /\ t.kind = "unlock"
      /\ t.password = wallet.password
  BY Zenon, <1>1 DEF Task, TaskType, TaskOK, Kinds, Steps, MacaroonSteps, ServerSteps, AnyPassword
<1>3. RPC(k, t) /\ unlockedHere' = TRUE /\ macaroons' = macaroons
  BY Zenon DEF UnlockWallet, RPC
<1> HIDE DEF t
<1>4. tasks'[k] = t /\ Settled => MacaroonStage(k)'
  BY Zenon, <1>1, <1>2, <1>3 DEF MacaroonStage, Settled, ServerSteps
<1> QED BY Zenon, <1>1, <1>2, <1>3, <1>4, RPCInv

\* The wallet is locked, and its task begins (wallet.go, LockWallet).
LEMMA LockWalletInv ==
  ASSUME IInv, NEW k \in Tasks, LockWallet(k)
  PROVE  IInv'
<1> DEFINE t == Task("lock", "stop", wallet.password, NoPassword)
<1>1. /\ wallet.password \in Passwords
      /\ wallet' \in [password : AnyPassword, locked : BOOLEAN]
      /\ wallet'.password = wallet.password
  BY Zenon DEF LockWallet, IInv, Types, AnyPassword
<1>2. t \in TaskType /\ TaskOK(t) /\ t.pc = "stop" /\ t.kind = "lock"
  BY Zenon, <1>1 DEF Task, TaskType, TaskOK, Kinds, Steps, MacaroonSteps, ServerSteps, AnyPassword
<1>3. RPC(k, t) /\ unlockedHere' = FALSE /\ macaroons' = macaroons
  BY Zenon DEF LockWallet, RPC
<1> HIDE DEF t
<1>4. tasks'[k] = t /\ Settled => MacaroonStage(k)'
  BY Zenon, <1>1, <1>2, <1>3 DEF MacaroonStage, Settled
<1> QED BY Zenon, <1>1, <1>2, <1>3, <1>4, RPCInv

\* The password of the wallet changes, and its task begins (wallet.go,
\* ChangePassword).
LEMMA ChangePasswordInv ==
  ASSUME IInv, NEW k \in Tasks, ChangePassword(k)
  PROVE  IInv'
<1>1. PICK pw \in Passwords :
        /\ wallet' = [wallet EXCEPT !.password = pw]
        /\ RPC(k, Task("change", "change", wallet.password, pw))
  BY Zenon DEF ChangePassword
<1> DEFINE t == Task("change", "change", wallet.password, pw)
<1>2. /\ wallet.password \in Passwords /\ wallet.password # NoPassword
      /\ wallet' \in [password : AnyPassword, locked : BOOLEAN]
      /\ wallet'.password = pw
  BY Zenon, <1>1 DEF ChangePassword, IInv, Types, AnyPassword
<1>3. /\ t \in TaskType /\ TaskOK(t) /\ t.pc = "change" /\ t.kind = "change"
      /\ t.password = wallet.password /\ t.new = pw
  BY Zenon, <1>2 DEF Task, TaskType, TaskOK, Kinds, Steps, MacaroonSteps, ServerSteps, AnyPassword
<1>4. unlockedHere' = unlockedHere /\ unlockedHere' \in BOOLEAN /\ macaroons' = macaroons
  BY Zenon, <1>1 DEF ChangePassword, RPC, IInv, Types
<1> HIDE DEF t
<1>5. tasks'[k] = t /\ Settled => MacaroonStage(k)'
  BY Zenon, <1>2, <1>3, <1>4 DEF MacaroonStage, Settled, ServerSteps
<1> QED BY Zenon, <1>1, <1>2, <1>3, <1>4, <1>5, RPCInv DEF t

-----------------------------------------------------------------------------
\* The end of the process, with the wallet's password as it is.
LEMMA DiesInv ==
  ASSUME IInv, Dies,
         wallet' \in [password : AnyPassword, locked : BOOLEAN],
         wallet'.password = wallet.password
  PROVE  IInv'
<1> DEFINE gone == Task("none", "done", NoPassword, NoPassword)
<1>1. /\ tasks' = [j \in Tasks |-> IF tasks[j] = NoTask THEN NoTask ELSE gone]
      /\ up' = FALSE /\ unlockedHere' = FALSE /\ faults' = faults /\ files' = files
      /\ down' = {} /\ tradeDown' = {} /\ spawned' = {} /\ tradeSpawned' = {}
      /\ owner' = None /\ tradeOwner' = None
      /\ operatorServer' = operatorServer /\ tradeServer' = tradeServer
      /\ overlapped' = (overlapped \/ Pending # {})
      /\ Types /\ Shape
  BY Zenon DEF Dies, pointers, IInv
<1>2. /\ gone \in TaskType /\ NoTask \in TaskType /\ TaskOK(gone) /\ TaskOK(NoTask)
      /\ gone.pc \in Ended /\ NoTask.pc \in Ended
  BY Zenon DEF NoTask, Task, TaskType, Kinds, Steps, Ended, AnyPassword, TaskOK,
         MacaroonSteps, ServerSteps
<1>3. /\ macaroons' \in [password : AnyPassword, unlocked : BOOLEAN, rootKey : BOOLEAN]
      /\ macaroons'.password = macaroons.password
      /\ macaroons'.rootKey = macaroons.rootKey
      /\ macaroons'.unlocked = FALSE
  BY Zenon, <1>1 DEF Dies, Types
<1> HIDE DEF gone
<1>4. Types'
  <2>1. tasks' \in [Tasks -> TaskType]
    BY Zenon, <1>1, <1>2
  <2>2. overlapped' \in BOOLEAN
    BY Zenon, <1>1
  <2> QED BY Zenon, <1>1, <1>3, <2>1, <2>2 DEF Types
<1>5. Shape'
  BY Zenon, <1>1, <1>2, <1>3 DEF Shape
<1>6. Idle'
  BY Zenon, <1>1, <1>2 DEF Idle
<1>7. Dead'
  BY Zenon, <1>1, <1>6 DEF Dead, Idle
<1>8. ASSUME Calm' PROVE CalmInv'
  <2>1. Calm /\ Pending = {}
    BY <1>1, <1>8, Zenon DEF Calm
  <2>2. Settled
    BY Zenon, <2>1 DEF Pending, Idle, Ended, IInv, CalmInv
  <2>3. (Settled /\ AtRest /\ DownOld)'
    BY Zenon, <1>1, <1>3, <2>2 DEF Settled, AtRest, DownOld
  <2> QED BY Zenon, <1>6, <2>3 DEF CalmInv, Idle
<1> QED BY Zenon, <1>4, <1>5, <1>7, <1>8 DEF IInv, CalmInv

\* The daemon starts with the operator server alone (service.go, Start).
LEMMA StartInv ==
  ASSUME IInv, Start
  PROVE  IInv'
<1>1. /\ ~up /\ up' = TRUE /\ operatorServer' = 0 /\ tradeServer' = None /\ spawned' = {0}
      /\ UNCHANGED <<wallet, down, tradeDown, tradeSpawned, owner, tradeOwner, tasks,
                     macaroons, files, faults, overlapped, unlockedHere>>
      /\ Types /\ Shape /\ Dead
  BY Zenon DEF Start, history, IInv
<1>2. /\ down = {} /\ tradeDown = {} /\ tradeSpawned = {} /\ owner = None
      /\ tradeOwner = None /\ ~unlockedHere /\ Idle
  BY Zenon, <1>1 DEF Dead, Idle
<1>3. Types'
  BY <1>1, InterfacesAssumption DEF Types, Servers
<1>4. Shape' /\ Dead'
  BY Zenon, <1>1 DEF Shape, Dead
<1>5. ASSUME Calm' PROVE CalmInv'
  <2>1. Settled
    BY Zenon, <1>1, <1>2, <1>5 DEF IInv, CalmInv, Calm
  <2>2. AtRest'
    <3>1. 0 \notin WithOperator'
      BY DEF WithOperator, Tasks
    <3> QED BY Zenon, <1>1, <1>2, <3>1 DEF AtRest, Old, OperatorServed, TradeServed, Matches
  <2>3. (Settled /\ DownOld /\ Idle)'
    BY Zenon, <1>1, <1>2, <2>1 DEF Settled, DownOld, Idle
  <2> QED BY Zenon, <2>2, <2>3 DEF CalmInv, Idle
<1> QED BY Zenon, <1>3, <1>4, <1>5 DEF IInv, CalmInv

-----------------------------------------------------------------------------
\* A step that changes nothing.
LEMMA StutterInv == IInv /\ UNCHANGED vars => IInv'
  BY Zenon, SameInv DEF vars, pointers, ports, history

\* The invariant is inductive.
LEMMA NextIInv == IInv /\ [Next]_vars => IInv'
<1> SUFFICES ASSUME IInv, [Next]_vars PROVE IInv'
  BY Zenon
<1>1. ASSUME NEW k \in Tasks, InitWallet(k) PROVE IInv'
  BY Zenon, <1>1, InitWalletInv
<1>2. ASSUME NEW k \in Tasks, UnlockWallet(k) PROVE IInv'
  BY Zenon, <1>2, UnlockWalletInv
<1>3. ASSUME NEW k \in Tasks, LockWallet(k) PROVE IInv'
  BY Zenon, <1>3, LockWalletInv
<1>4. ASSUME NEW k \in Tasks, ChangePassword(k) PROVE IInv'
  BY Zenon, <1>4, ChangePasswordInv
<1>5. wallet \in [password : AnyPassword, locked : BOOLEAN]
  BY Zenon DEF IInv, Types
<1>6. ASSUME NEW k \in Tasks, SpawnNil(k) PROVE IInv'
  BY Zenon, <1>5, <1>6, DiesInv DEF SpawnNil
<1>7. ASSUME NEW k \in Tasks, TaskStep(k) PROVE IInv'
  BY Zenon, <1>6, <1>7, RememberPasswordInv, GenMacaroonsInv, BakeMacaroonInv, OnChangePwdInv,
     StopOperatorInv, StopTradeInv, StartServersInv, SpawnOperatorInv, SpawnTradeInv
  DEF TaskStep
<1>8. CASE Stop
  <2>1. /\ wallet' \in [password : AnyPassword, locked : BOOLEAN]
        /\ wallet'.password = wallet.password
    BY Zenon, <1>5, <1>8 DEF Stop
  <2> QED BY Zenon, <1>8, <2>1, DiesInv DEF Stop
<1>9. CASE Crash
  BY Zenon, <1>5, <1>9, DiesInv DEF Crash
<1> QED BY Zenon, <1>1, <1>2, <1>3, <1>4, <1>7, <1>8, <1>9, InitReturnsInv, ListenInv,
           ListenTradeInv, StartInv, StutterInv DEF Next

\* The invariant holds always.
LEMMA AlwaysIInv == Spec => []IInv
  BY InitIInv, NextIInv, PTL DEF Spec

\* For any number of RPCs, restarts and failures: while tasks do not overlap, the
\* daemon that is done with them serves the operator's and the trader's interface
\* exactly if it unlocked the wallet (service.go, onUnlock and onLock).
THEOREM ServersFollowWallet == Spec => []ServesWhatIsUnlocked
<1>1. IInv => ServesWhatIsUnlocked
  <2> SUFFICES ASSUME IInv, up, Quiet, ~overlapped, faults = 0
               PROVE  /\ (owner \in WithOperator) = unlockedHere
                      /\ (tradeOwner # None) = unlockedHere
    BY Zenon DEF ServesWhatIsUnlocked
  <2>1. Calm /\ Idle
    BY Zenon DEF Calm, Quiet, Pending, Idle, Ended
  <2>2. OperatorServed /\ TradeServed /\ Matches /\ unlockedHere \in BOOLEAN
    BY Zenon, <2>1 DEF IInv, Types, CalmInv, AtRest
  <2>3. owner = operatorServer /\ tradeOwner = tradeServer
    BY Zenon, <2>2 DEF Quiet, OperatorServed, TradeServed
  <2> QED BY <2>2, <2>3 DEF Matches
<1> QED BY <1>1, AlwaysIInv, PTL

\* For any number of RPCs, restarts and failures: while tasks do not overlap, the
\* macaroon store ends up with the password of the wallet (service.go, onInit,
\* onUnlock and onChangePwd).
THEOREM MacaroonsKeepPassword == Spec => []MacaroonsFollowPassword
<1>1. IInv => MacaroonsFollowPassword
  BY Zenon DEF IInv, CalmInv, Calm, Settled, MacaroonsFollowPassword, Quiet, Pending, Idle, Ended
<1> QED BY <1>1, AlwaysIInv, PTL
=============================================================================
