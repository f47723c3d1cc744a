------------------------------ MODULE Interfaces ------------------------------
(***************************************************************************)
(* The servers of the daemon (internal/interfaces/grpc/service.go) and the *)
(* RPCs of the wallet interface (handler/wallet.go).  An RPC calls the     *)
(* wallet, answers, and leaves the rest to a goroutine, a task here, that  *)
(* unlocks the macaroons and replaces the servers.  Tasks share the        *)
(* pointers to the servers, the ports and the password without a lock.     *)
(*                                                                         *)
(* A server has the number of the task that made it; the one of the start  *)
(* of the process is 0.  The macaroon store is pkg/macaroons/store.go.     *)
(***************************************************************************)
EXTENDS Naturals

CONSTANTS
  Passwords,
  Files,        \* the macaroon files
  AdminFile,    \* the one InitWallet waits for
  NoPassword,
  None,         \* no server
  MaxTasks,     \* bound on the RPCs
  MaxStarts,    \* bound on the starts of the process
  MaxFaults     \* bound on the failures of start and of writes of files

ASSUME InterfacesAssumption ==
  /\ AdminFile \in Files
  /\ NoPassword \notin Passwords
  /\ {MaxTasks, MaxStarts, MaxFaults} \subseteq Nat
  /\ None \notin 0..MaxTasks

VARIABLES
  wallet,           \* the wallet: its password, and whether it is locked
  up,               \* the process runs
  starts,
  password,         \* s.password
  operatorServer,   \* s.operatorServer
  tradeServer,      \* s.tradeServer
  down,             \* operator servers that were shut down
  tradeDown,        \* trade servers that were shut down
  spawned,          \* operator servers whose goroutine is about to listen
  tradeSpawned,     \* trade servers whose goroutine is about to listen
  owner,            \* the operator server that listens
  tradeOwner,       \* the trade server that listens
  tasks,
  initOn,           \* the server of an InitWallet that waits for its file
  macaroons,        \* the macaroon store
  files,            \* the macaroon files on disk
  faults,
  overlapped,       \* tasks overlapped, or one was cut short (history)
  unlockedHere      \* this process unlocked the wallet (history)

pointers == <<operatorServer, tradeServer>>
ports == <<down, tradeDown, spawned, tradeSpawned, owner, tradeOwner>>
history == <<overlapped, unlockedHere>>
vars == <<wallet, up, starts, password, pointers, ports, tasks, initOn,
          macaroons, files, faults, history>>

Servers == 0..MaxTasks
Tasks == 1..MaxTasks

Task(kind, pc, old, new) ==
  [kind |-> kind, pc |-> pc, password |-> old, new |-> new,
   left |-> {}, server |-> None]

NoTask == Task("none", "none", NoPassword, NoPassword)

\* The servers that have the operator's handlers and not only the wallet's.
WithOperator == {k \in Tasks : tasks[k].kind = "unlock"}

Pending == {k \in Tasks : tasks[k].pc \notin {"none", "done"}}

Quiet == Pending = {} /\ spawned = {} /\ tradeSpawned = {}

Goto(k, pc) == tasks' = [tasks EXCEPT ![k].pc = pc]

-----------------------------------------------------------------------------
(***************************************************************************)
(* The process.  Start serves the wallet interface only.                   *)
(***************************************************************************)
Started ==
  /\ up = TRUE
  /\ password = NoPassword
  /\ operatorServer = 0
  /\ tradeServer = None
  /\ spawned = {0}

Init ==
  /\ Started
  /\ starts = 1
  /\ wallet = [password |-> NoPassword, locked |-> TRUE]
  /\ down = {} /\ tradeDown = {} /\ tradeSpawned = {}
  /\ owner = None /\ tradeOwner = None
  /\ tasks = [k \in Tasks |-> NoTask]
  /\ initOn = None
  /\ macaroons = [password |-> NoPassword, unlocked |-> FALSE, rootKey |-> FALSE]
  /\ files = {}
  /\ faults = 0
  /\ overlapped = FALSE /\ unlockedHere = FALSE

\* All that is in memory is gone.
Dies ==
  /\ up' = FALSE
  /\ down' = {} /\ tradeDown' = {} /\ spawned' = {} /\ tradeSpawned' = {}
  /\ owner' = None /\ tradeOwner' = None
  /\ tasks' = [k \in Tasks |-> IF tasks[k] = NoTask THEN NoTask
                               ELSE Task("none", "done", NoPassword, NoPassword)]
  /\ initOn' = None
  /\ macaroons' = [macaroons EXCEPT !.unlocked = FALSE]
  /\ overlapped' = (overlapped \/ Pending # {})
  /\ unlockedHere' = FALSE
  /\ UNCHANGED <<starts, password, pointers, files, faults>>

Crash ==
  /\ up
  /\ Dies
  /\ UNCHANGED wallet

\* Stop locks the wallet with the password it remembers, if any; a wrong one
\* leaves the wallet as it is.
Stop ==
  /\ up
  /\ wallet' = [wallet EXCEPT !.locked =
                  @ \/ (password # NoPassword /\ password = wallet.password)]
  /\ Dies

Start ==
  /\ ~up
  /\ starts < MaxStarts
  /\ starts' = starts + 1
  /\ up' = TRUE
  /\ password' = NoPassword
  /\ operatorServer' = 0
  /\ tradeServer' = None
  /\ spawned' = {0}
  /\ UNCHANGED <<wallet, down, tradeDown, tradeSpawned, owner, tradeOwner, tasks,
                 initOn, macaroons, files, faults, history>>

-----------------------------------------------------------------------------
(***************************************************************************)
(* The RPCs.  The wallet refuses a wrong password; the others begin task k.*)
(***************************************************************************)
RPC(k, task) ==
  /\ up
  /\ owner # None
  /\ tasks[k] = NoTask
  /\ k > 1 => tasks[k - 1] # NoTask
  /\ tasks' = [tasks EXCEPT ![k] = task]
  /\ overlapped' = (overlapped \/ ~Quiet)
  /\ UNCHANGED <<up, starts, password, pointers, ports, macaroons, files, faults>>

InitWallet(k) ==
  /\ wallet.password = NoPassword
  /\ \E pw \in Passwords :
       /\ wallet' = [password |-> pw, locked |-> TRUE]
       /\ RPC(k, Task("init", "password", pw, NoPassword))
  /\ initOn' = owner
  /\ UNCHANGED unlockedHere

\* InitWallet answers when the file exists.
InitReturns ==
  /\ initOn # None
  /\ AdminFile \in files
  /\ initOn' = None
  /\ UNCHANGED <<wallet, up, starts, password, pointers, ports, tasks,
                 macaroons, files, faults, history>>

UnlockWallet(k) ==
  /\ wallet.password # NoPassword
  /\ wallet' = [wallet EXCEPT !.locked = FALSE]
  /\ RPC(k, Task("unlock", "password", wallet.password, NoPassword))
  /\ unlockedHere' = TRUE
  /\ UNCHANGED initOn

LockWallet(k) ==
  /\ wallet.password # NoPassword
  /\ wallet' = [wallet EXCEPT !.locked = TRUE]
  /\ RPC(k, Task("lock", "stop", wallet.password, NoPassword))
  /\ unlockedHere' = FALSE
  /\ UNCHANGED initOn

ChangePassword(k) ==
  /\ wallet.password # NoPassword
  /\ wallet.locked
  /\ \E pw \in Passwords :
       /\ wallet' = [wallet EXCEPT !.password = pw]
       /\ RPC(k, Task("change", "change", wallet.password, pw))
  /\ UNCHANGED <<initOn, unlockedHere>>

-----------------------------------------------------------------------------
(***************************************************************************)
(* The macaroons: onInit, the first part of onUnlock, and onChangePwd.     *)
(***************************************************************************)
\* CreateUnlock of the macaroon store.
CreateUnlock(pw) ==
  macaroons' =
    IF macaroons.unlocked \/ macaroons.password \notin {NoPassword, pw} THEN macaroons
    ELSE [[macaroons EXCEPT !.password = pw] EXCEPT !.unlocked = TRUE]

RememberPassword(k) ==
  /\ tasks[k].pc = "password"
  /\ password' = IF tasks[k].kind = "init" \/ password = NoPassword
                 THEN tasks[k].password ELSE password
  /\ CreateUnlock(tasks[k].password)
  /\ Goto(k, "check")
  /\ UNCHANGED <<wallet, up, starts, pointers, ports, initOn, files, faults, history>>

\* Where a task goes on after genMacaroons, whose error is only logged.
AfterMacaroons(k) == IF tasks[k].kind = "init" THEN "done" ELSE "stop"

\* genMacaroons does nothing if any of the files exists.
GenMacaroons(k) ==
  /\ tasks[k].pc = "check"
  /\ tasks' = [tasks EXCEPT ![k] =
       IF files # {} \/ ~macaroons.unlocked
       THEN [tasks[k] EXCEPT !.pc = AfterMacaroons(k)]
       ELSE [[tasks[k] EXCEPT !.pc = "bake"] EXCEPT !.left = Files]]
  /\ UNCHANGED <<wallet, up, starts, password, pointers, ports, initOn, macaroons,
                 files, faults, history>>

\* The admin macaroon is not written.
BakeOthers(k) ==
  /\ tasks[k].pc = "bake"
  /\ files' = files \cup (tasks[k].left \ {AdminFile})
  /\ tasks' = [tasks EXCEPT ![k] = [[tasks[k] EXCEPT !.left = {}]
                                       EXCEPT !.pc = AfterMacaroons(k)]]
  /\ macaroons' = [macaroons EXCEPT !.rootKey = TRUE]
  /\ UNCHANGED <<wallet, up, starts, password, pointers, ports, initOn, faults, history>>

\* One macaroon, with the root key that the first one makes; the files come in
\* any order, and an error ends the rest.
BakeMacaroon(k) ==
  /\ tasks[k].pc = "bake"
  /\ \/ /\ \E f \in tasks[k].left :
             /\ files' = files \cup {f}
             /\ tasks' = [tasks EXCEPT ![k] =
                  [[tasks[k] EXCEPT !.left = @ \ {f}]
                      EXCEPT !.pc = IF tasks[k].left = {f} THEN AfterMacaroons(k)
                                    ELSE "bake"]]
        /\ macaroons' = [macaroons EXCEPT !.rootKey = TRUE]
        /\ UNCHANGED faults
     \/ /\ faults < MaxFaults
        /\ faults' = faults + 1
        /\ Goto(k, AfterMacaroons(k))
        /\ UNCHANGED <<files, macaroons>>
  /\ UNCHANGED <<wallet, up, starts, password, pointers, ports, initOn, history>>

\* onChangePwd that wants the store unlocked.
ChangeUnlocked(k) ==
  /\ tasks[k].pc = "change"
  /\ macaroons' =
       IF macaroons.unlocked /\ macaroons.password = tasks[k].password /\ macaroons.rootKey
       THEN [[macaroons EXCEPT !.password = tasks[k].new] EXCEPT !.unlocked = TRUE]
       ELSE macaroons
  /\ Goto(k, "done")
  /\ UNCHANGED <<wallet, up, starts, password, pointers, ports, initOn, files, faults, history>>

\* The macaroon store takes the new password if it knows the old one and has a
\* root key, and is unlocked by that.
OnChangePwd(k) ==
  /\ tasks[k].pc = "change"
  /\ macaroons' =
       IF macaroons.password = tasks[k].password /\ macaroons.rootKey
       THEN [[macaroons EXCEPT !.password = tasks[k].new] EXCEPT !.unlocked = TRUE]
       ELSE macaroons
  /\ Goto(k, "done")
  /\ UNCHANGED <<wallet, up, starts, password, pointers, ports, initOn, files, faults, history>>

-----------------------------------------------------------------------------
(***************************************************************************)
(* The servers: stop, then start, of onUnlock and onLock.                  *)
(***************************************************************************)
\* Shutdown of the operator server: it no longer listens, and never will.
StopOperator(k) ==
  /\ tasks[k].pc = "stop"
  /\ down' = down \cup {operatorServer}
  /\ owner' = IF owner = operatorServer THEN None ELSE owner
  /\ tasks' = [tasks EXCEPT ![k] = [[tasks[k] EXCEPT !.pc = "stopTrade"]
                                       EXCEPT !.server = operatorServer]]
  /\ UNCHANGED <<wallet, up, starts, password, pointers, tradeDown, spawned,
                 tradeSpawned, tradeOwner, initOn, macaroons, files, faults, history>>

\* stop that leaves the trade server alone.
StopOperatorOnly(k) ==
  /\ tasks[k].pc = "stopTrade"
  /\ initOn # tasks[k].server
  /\ Goto(k, "start")
  /\ UNCHANGED <<wallet, up, starts, password, pointers, ports, initOn,
                 macaroons, files, faults, history>>

\* Shutdown waits for the RPCs of the server; the trade server comes next.
StopTrade(k) ==
  /\ tasks[k].pc = "stopTrade"
  /\ initOn # tasks[k].server
  /\ tradeDown' = IF tradeServer = None THEN tradeDown ELSE tradeDown \cup {tradeServer}
  /\ tradeOwner' = IF tradeOwner = tradeServer THEN None ELSE tradeOwner
  /\ Goto(k, "start")
  /\ UNCHANGED <<wallet, up, starts, password, pointers, down, spawned,
                 tradeSpawned, owner, initOn, macaroons, files, faults, history>>

\* start that keeps the operator server it has.
StartOldServers(k) ==
  /\ tasks[k].pc = "start"
  /\ tradeServer' = IF tasks[k].kind = "unlock" THEN k ELSE None
  /\ Goto(k, "listen")
  /\ UNCHANGED <<wallet, up, starts, password, operatorServer, ports, initOn,
                 macaroons, files, faults, history>>

\* New servers; an error leaves the old ones, which are shut down.
StartServers(k) ==
  /\ tasks[k].pc = "start"
  /\ \/ /\ operatorServer' = k
        /\ tradeServer' = IF tasks[k].kind = "unlock" THEN k ELSE None
        /\ Goto(k, "listen")
        /\ UNCHANGED faults
     \/ /\ faults < MaxFaults
        /\ faults' = faults + 1
        /\ Goto(k, "done")
        /\ UNCHANGED pointers
  /\ UNCHANGED <<wallet, up, starts, password, ports, initOn, macaroons, files, history>>

\* The goroutines get the servers that the pointers name by now.
SpawnOperator(k) ==
  /\ tasks[k].pc = "listen"
  /\ spawned' = spawned \cup {operatorServer}
  /\ Goto(k, IF tasks[k].kind = "unlock" THEN "listenTrade" ELSE "done")
  /\ UNCHANGED <<wallet, up, starts, password, pointers, down, tradeDown,
                 tradeSpawned, owner, tradeOwner, initOn, macaroons, files, faults, history>>

SpawnTrade(k) ==
  /\ tasks[k].pc = "listenTrade"
  /\ tradeServer # None
  /\ tradeSpawned' = tradeSpawned \cup {tradeServer}
  /\ Goto(k, "done")
  /\ UNCHANGED <<wallet, up, starts, password, pointers, down, tradeDown,
                 spawned, owner, tradeOwner, initOn, macaroons, files, faults, history>>

\* Another task has set the pointer to nil: the goroutine ends the process.
SpawnNil(k) ==
  /\ tasks[k].pc = "listenTrade"
  /\ tradeServer = None
  /\ Dies
  /\ UNCHANGED wallet

\* ListenAndServe fails if the server was shut down or the port is taken.
Listen ==
  /\ \E n \in spawned :
       /\ spawned' = spawned \ {n}
       /\ owner' = IF owner = None /\ n \notin down THEN n ELSE owner
  /\ UNCHANGED <<wallet, up, starts, password, pointers, down, tradeDown, tradeSpawned,
                 tradeOwner, tasks, initOn, macaroons, files, faults, history>>

ListenTrade ==
  /\ \E n \in tradeSpawned :
       /\ tradeSpawned' = tradeSpawned \ {n}
       /\ tradeOwner' = IF tradeOwner = None /\ n \notin tradeDown THEN n ELSE tradeOwner
  /\ UNCHANGED <<wallet, up, starts, password, pointers, down, tradeDown, spawned,
                 owner, tasks, initOn, macaroons, files, faults, history>>

-----------------------------------------------------------------------------
TaskStep(k) ==
  \/ RememberPassword(k)
  \/ GenMacaroons(k)
  \/ BakeMacaroon(k)
  \/ OnChangePwd(k)
  \/ StopOperator(k)
  \/ StopTrade(k)
  \/ StartServers(k)
  \/ SpawnOperator(k)
  \/ SpawnTrade(k)
  \/ SpawnNil(k)

Next ==
  \/ \E k \in Tasks :
       \/ InitWallet(k)
       \/ UnlockWallet(k)
       \/ LockWallet(k)
       \/ ChangePassword(k)
       \/ TaskStep(k)
  \/ InitReturns
  \/ Listen
  \/ ListenTrade
  \/ Stop
  \/ Crash
  \/ Start

\* Goroutines run on, and InitWallet polls for its file; no RPC need come, and
\* the process need not be started again.
Spec ==
  /\ Init /\ [][Next]_vars
  /\ \A k \in Tasks : WF_vars(TaskStep(k))
  /\ WF_vars(InitReturns)
  /\ WF_vars(Listen)
  /\ WF_vars(ListenTrade)

-----------------------------------------------------------------------------
\* When the tasks of wallet RPCs do not overlap, the daemon ends up serving the
\* operator's and the trader's interface exactly if it unlocked the wallet, and
\* the wallet interface alone otherwise (service.go, onUnlock and onLock).
ServesWhatIsUnlocked ==
  up /\ Quiet /\ ~overlapped /\ faults = 0 =>
    /\ (owner \in WithOperator) = unlockedHere
    /\ (tradeOwner # None) = unlockedHere

\* The macaroon store opens with the password of the wallet, which is handed to
\* it by tasks that run after the wallet's answer (service.go, onChangePwd).
MacaroonsFollowPassword ==
  Quiet /\ ~overlapped /\ faults = 0 => macaroons.password = wallet.password

\* The operator interface, which every unlocking and locking takes down, is
\* served again whatever tasks overlap, unless a start failed, a macaroon was
\* not written or the process ended (service.go, start and stop).
ServedAgain ==
  (up /\ owner = None) ~> (owner # None \/ ~up \/ faults > 0)

\* InitWallet, which polls for the file another goroutine writes, answers
\* (handler/wallet.go, InitWallet; macaroon_utils.go, genMacaroons).
InitAnswers == (initOn # None) ~> (initOn = None \/ faults > 0)
=============================================================================
