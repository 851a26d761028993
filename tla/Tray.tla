-------------------------------- MODULE Tray --------------------------------
(* The desktop program (src/cmd/awl-tray): every menu item has a goroutine *)
(* of its own, and those that start and stop the server share the variable *)
(* app without a lock. What Init and Close of an Application do is in      *)
(* Lifecycle; here Init succeeds or leaves it half made, and Close of such *)
(* a one may panic on a field that is still nil.                           *)
(* External: the menu of the desktop.                                      *)
EXTENDS Naturals, FiniteSets

CONSTANTS
  MaxApps,   \* bound: Applications made
  MaxClicks  \* bound: clicks

ASSUME TrayAssumption == MaxApps \in Nat

VARIABLES
  app,      \* the shared variable, 0 is nil
  state,    \* of each Application: "none", "new", "half", "open", "closed"
  menu,     \* what the menu says: "running" or "stopped"
  hand,     \* what each goroutine is doing
  clicks,
  process,  \* "up", "exited" or "crashed"
  raced     \* history: an InitServer overlapped another handler

trayVars == <<app, state, menu, hand, clicks, process, raced>>

Goroutine == {"ready", "startStop", "restart", "edit", "update", "quit"}

\* After StopServer: Restart goes on with InitServer, Quit ends the program, and
\* so does an update, unless it cannot start the new version.
After(g) == CASE g = "restart" -> {"new"} [] g = "quit" -> {"exit"}
              [] g = "update" -> {"exit", "idle"} [] OTHER -> {"idle"}

trayInit ==
  /\ app = 0 /\ state = [a \in 1 .. MaxApps |-> "none"]
  /\ menu = "stopped"
  /\ hand = [g \in Goroutine |-> IF g = "ready" THEN "new" ELSE "idle"]
  /\ clicks = 0 /\ process = "up" /\ raced = FALSE

Busy     == {g \in Goroutine : hand[g] # "idle"}
Starting == {g \in Goroutine : hand[g] \in {"new", "init", "setup", "undo"}}
Made     == {a \in DOMAIN state : state[a] # "none"}

Goto(g, pc) ==
  /\ hand' = [hand EXCEPT ![g] = pc]
  /\ raced' = (raced \/ (Busy \ {g} # {} /\ (pc = "new" \/ Starting \ {g} # {})))

-----------------------------------------------------------------------------
(* The menu items.                                                         *)

Clicked(g, pc) ==
  /\ process = "up" /\ hand[g] = "idle" /\ clicks < MaxClicks
  /\ clicks' = clicks + 1
  /\ Goto(g, pc)
  /\ UNCHANGED <<app, state, menu, process>>

startStopClicked == Clicked("startStop", IF app # 0 THEN "stop" ELSE "new")

\* Disabled while the menu says that the server is stopped.
restartClicked == menu = "running" /\ Clicked("restart", "stop")

\* Editing the configuration asks first; a refusal changes nothing.
onClickEditRawConfig == app # 0 /\ Clicked("edit", "stop")

\* A new version was found, agreed to and downloaded.
onClickUpdateMenu == Clicked("update", "stop")

quitClicked == Clicked("quit", "stop")

-----------------------------------------------------------------------------
(* StopServer.                                                             *)

\* Close of an open Application returns, and so does another Close of it; of
\* one that was not fully made it may panic.
Panics(a) == IF state[a] \in {"new", "half"} THEN BOOLEAN ELSE {FALSE}

StopServer(g) ==
  /\ process = "up" /\ hand[g] = "stop"
  /\ Goto(g, IF app = 0 THEN "stopped" ELSE "close")
  /\ UNCHANGED <<app, state, menu, clicks, process>>

\* By now another stop may have made it nil, which panics; StopServer recovers,
\* without coming to the assignment.
AppClose(g) ==
  /\ process = "up" /\ hand[g] = "close"
  /\ \/ app = 0 /\ Goto(g, "refresh") /\ UNCHANGED state
     \/ app # 0 /\ \E panic \in Panics(app) :
          /\ state' = [state EXCEPT ![app] = IF panic THEN @ ELSE "closed"]
          /\ Goto(g, IF panic THEN "refresh" ELSE "stopped")
  /\ UNCHANGED <<app, menu, clicks, process>>

StopServerForgets(g) ==
  /\ process = "up" /\ hand[g] = "stopped"
  /\ app' = 0
  /\ Goto(g, "refresh")
  /\ UNCHANGED <<state, menu, clicks, process>>

\* The deferred refresh, also after a panic.
refreshMenusOnStoppedServer(g) ==
  /\ process = "up" /\ hand[g] = "refresh"
  /\ menu' = "stopped"
  /\ \E pc \in After(g) : Goto(g, pc)
  /\ UNCHANGED <<app, state, clicks, process>>

Exit(g) ==
  /\ process = "up" /\ hand[g] = "exit"
  /\ process' = "exited"
  /\ UNCHANGED <<app, state, menu, hand, clicks, raced>>

-----------------------------------------------------------------------------
(* InitServer.                                                             *)

InitServer(g) ==
  /\ process = "up" /\ hand[g] = "new"
  /\ \E a \in DOMAIN state : /\ a = 1 + Cardinality(Made)
                             /\ app' = a /\ state' = [state EXCEPT ![a] = "new"]
  /\ Goto(g, "init")
  /\ UNCHANGED <<menu, clicks, process>>

\* app.Init of whatever app is by now; the panic of a nil one is recovered.
AppInit(g) ==
  /\ process = "up" /\ hand[g] = "init"
  /\ \/ app = 0 /\ Goto(g, "undo") /\ UNCHANGED state
     \/ app # 0 /\ \E ok \in BOOLEAN :
          /\ state' = [state EXCEPT ![app] = IF ok THEN "open" ELSE IF @ = "new" THEN "half" ELSE @]
          /\ Goto(g, IF ok THEN "setup" ELSE "undo")
  /\ UNCHANGED <<app, menu, clicks, process>>

\* SetupFrontend, the subscriptions and refreshMenusOnStartedServer.
SetUp(g) ==
  /\ process = "up" /\ hand[g] = "setup"
  /\ IF app # 0 /\ state[app] = "open" THEN menu' = "running" /\ Goto(g, "idle")
     ELSE Goto(g, "undo") /\ UNCHANGED menu
  /\ UNCHANGED <<app, state, clicks, process>>

Undo_KeepsApp(g) ==
  /\ process = "up" /\ hand[g] = "undo"
  /\ \E panic \in IF app = 0 THEN {FALSE} ELSE Panics(app) :
       /\ process' = IF panic THEN "crashed" ELSE "up"
       /\ state' = IF panic \/ app = 0 THEN state ELSE [state EXCEPT ![app] = "closed"]
  /\ Goto(g, "idle")
  /\ UNCHANGED <<app, menu, clicks>>

\* The deferred Close after an error; nobody recovers its panic.
Undo(g) ==
  /\ process = "up" /\ hand[g] = "undo"
  /\ \E panic \in IF app = 0 THEN {FALSE} ELSE Panics(app) :
       /\ process' = IF panic THEN "crashed" ELSE "up"
       /\ state' = IF panic \/ app = 0 THEN state ELSE [state EXCEPT ![app] = "closed"]
       /\ app' = IF panic THEN app ELSE 0
  /\ Goto(g, "idle")
  /\ UNCHANGED <<menu, clicks>>

trayNext ==
  \/ startStopClicked \/ restartClicked \/ onClickEditRawConfig \/ onClickUpdateMenu \/ quitClicked
  \/ \E g \in Goroutine :
       \/ StopServer(g) \/ AppClose(g) \/ StopServerForgets(g) \/ refreshMenusOnStoppedServer(g) \/ Exit(g)
       \/ InitServer(g) \/ AppInit(g) \/ SetUp(g) \/ Undo(g)

traySpec == trayInit /\ [][trayNext]_trayVars

-----------------------------------------------------------------------------
(* Properties.                                                             *)

\* Whenever no handler is under way, the menu, the variable and the servers
\* agree: what the menu calls running is the one open Application, to which app
\* points, and when it says stopped there is none. It holds whatever stops
\* overlap and whichever starts fail, unless an InitServer overlapped another
\* handler. A program that exits leaves no server open either.
TrayAgrees ==
  (process = "up" => Busy = {}) /\ process # "crashed" /\ ~raced =>
    /\ (menu = "running") <=> (app # 0)
    /\ {a \in Made : state[a] # "closed"} = IF app = 0 THEN {} ELSE {app}
    /\ app # 0 => state[app] = "open"
=============================================================================
