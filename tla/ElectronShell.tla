--------------------------- MODULE ElectronShell ---------------------------
(***************************************************************************)
(* The desktop application (electron/main.js): it spawns the Go server,     *)
(* probes its port until it answers, shows a window and a tray icon, and    *)
(* stops the server before it exits.                                        *)
(*                                                                          *)
(* JavaScript runs one callback at a time, so a callback is one action,     *)
(* with the promise continuations that run right after it.  What           *)
(* interleaves are the callbacks: probes and their timers, events of the    *)
(* server process, dialogs, and the user.                                   *)
(***************************************************************************)
EXTENDS Naturals, FiniteSets

CONSTANTS
    DevModes,      \* values NODE_ENV === 'development' may have
    Platforms,     \* subset of {"darwin", "win32"}
    MaxRetries,    \* maxRetries of checkServerAvailability
    MaxQuits,      \* bound: how often a quit is held up for the server
    Windows        \* bound: identities of browser windows

ASSUME RetriesAssumption == MaxRetries \in Nat \ {0}
ASSUME QuitsAssumption == MaxQuits \in Nat \ {0}
ASSUME WindowsAssumption == "null" \notin Windows
ASSUME ModesAssumption == DevModes \subseteq BOOLEAN

VARIABLES
    isDev, platform,
    portTaken,       \* another program answers on the port
    app,             \* "launching", "running" or "exited"
    server,          \* the process: "none", "starting", "serving", "gone"
    closeEvent,      \* its 'close' event not delivered yet: "none", "clean", "crash"
    serverProcess,   \* is the reference to the process set?
    startup,         \* the promise of startServer: "pending", "up", "failed"
    currentAttempt, probing, retries,  \* attempts made, requests open, timers set
    windows,         \* the windows that exist, and whether they are visible
    mainWindow,      \* the one the program refers to, or "null"
    isQuitting,      \* app.isQuitting
    dialogs,         \* the message boxes on the screen
    shutdowns        \* quits that wait for the server, each with its timer

probeVars == <<currentAttempt, probing, retries>>
uiVars == <<windows, mainWindow>>
envVars == <<isDev, platform, portTaken>>
vars == <<envVars, app, server, closeEvent, serverProcess, startup, probeVars,
          uiVars, isQuitting, dialogs, shutdowns>>

Dialogs == {"crash", "crashLog", "failed", "failedLog"}
Alive == server \in {"starting", "serving"}

(* The tray icon is created right after startServer resolved. *)
Tray == startup = "up"

(***************************************************************************)
(* Windows.  The 'close' handler of every window acts on mainWindow, which  *)
(* need not be the window that is being closed.                             *)
(***************************************************************************)
NewWindow == Windows \ DOMAIN windows
Restricted(f, S) == [w \in S |-> f[w]]

CreateWindow ==
    \E w \in NewWindow :
        /\ windows' = [v \in DOMAIN windows \union {w} |->
                          IF v = w THEN "visible" ELSE windows[v]]
        /\ mainWindow' = w

Shown(w, how) == [windows EXCEPT ![w] = how]

(* Mutant: 'closed' does not reset mainWindow. *)
AfterCloseKept(w) ==
    [windows |-> IF isQuitting THEN Restricted(windows, DOMAIN windows \ {w})
                               ELSE Shown(mainWindow, "hidden"),
     main |-> mainWindow]

(* What closing window w does to the windows and to mainWindow. *)
AfterClose(w) ==
    IF isQuitting
      THEN [windows |-> Restricted(windows, DOMAIN windows \ {w}), main |-> "null"]
      ELSE [windows |-> IF mainWindow = "null" THEN windows ELSE Shown(mainWindow, "hidden"),
            main |-> mainWindow]

Close(w) == /\ windows' = AfterClose(w).windows
            /\ mainWindow' = AfterClose(w).main

(* mainWindow.close(), called when the server ended by itself *)
CloseMainWindow ==
    IF mainWindow = "null" THEN UNCHANGED uiVars ELSE Close(mainWindow)

(***************************************************************************)
(* app.quit().  While the program holds a server process the quit is held   *)
(* up: the server gets SIGTERM, a timer and a 'close' listener are set.     *)
(* Otherwise Electron asks every window; one that refuses ends the quit.    *)
(***************************************************************************)
Quit(quitting) ==
    /\ isQuitting' = quitting
    /\ IF serverProcess
         THEN /\ shutdowns < MaxQuits
              /\ shutdowns' = shutdowns + 1
              /\ UNCHANGED <<app, uiVars>>
         ELSE /\ UNCHANGED shutdowns
              /\ IF quitting \/ DOMAIN windows = {}
                   THEN /\ app' = "exited"
                        /\ windows' = <<>>
                        /\ mainWindow' = "null"
                   ELSE /\ windows' = Shown(mainWindow, "hidden")
                        /\ UNCHANGED <<app, mainWindow>>

(***************************************************************************)
(* Start of the application.  In development nothing is spawned and the     *)
(* probes go to the front end's own server.                                 *)
(***************************************************************************)
Init ==
    /\ isDev \in DevModes /\ platform \in Platforms /\ portTaken \in BOOLEAN
    /\ app = "launching"
    /\ server = "none" /\ closeEvent = "none" /\ serverProcess = FALSE
    /\ startup = "pending"
    /\ currentAttempt = 0 /\ probing = 0 /\ retries = 0
    /\ windows = <<>> /\ mainWindow = "null"
    /\ isQuitting = FALSE /\ dialogs = {} /\ shutdowns = 0

StartServer ==
    /\ app = "launching"
    /\ app' = "running"
    /\ server' = IF isDev THEN "none" ELSE "starting"
    /\ serverProcess' = ~isDev
    /\ currentAttempt' = 1 /\ probing' = 1
    /\ UNCHANGED <<envVars, closeEvent, startup, retries, uiVars, isQuitting,
                   dialogs, shutdowns>>

(* The continuation of `await startServer()`: resolved, or rejected. *)
Resolve ==
    IF startup = "pending"
      THEN startup' = "up" /\ CreateWindow /\ UNCHANGED dialogs
      ELSE UNCHANGED <<startup, uiVars, dialogs>>

(* Mutant: no message box is shown. *)
RejectSilently ==
    /\ UNCHANGED <<uiVars, dialogs>>
    /\ startup' = IF startup = "pending" THEN "failed" ELSE startup

Reject ==
    /\ UNCHANGED uiVars
    /\ IF startup = "pending"
         THEN startup' = "failed" /\ dialogs' = dialogs \union {"failed"}
         ELSE UNCHANGED <<startup, dialogs>>

(***************************************************************************)
(* checkServerAvailability.  A request that times out is destroyed, which   *)
(* also makes it report an error: both handlers react, so one timeout sets  *)
(* two retry timers, and the attempts are counted over all of them.         *)
(***************************************************************************)
Answering == server = "serving" \/ portTaken \/ isDev

(* Mutants: the comparison lets one attempt more through; the last failure is dropped. *)
FailedLater(handlers) ==
    IF currentAttempt > MaxRetries
      THEN Reject /\ UNCHANGED retries
      ELSE retries' = retries + handlers /\ UNCHANGED <<startup, uiVars, dialogs>>

FailedDropped(handlers) ==
    /\ retries' = IF currentAttempt >= MaxRetries THEN retries ELSE retries + handlers
    /\ UNCHANGED <<startup, uiVars, dialogs>>

Failed(handlers) ==
    IF currentAttempt >= MaxRetries
      THEN Reject /\ UNCHANGED retries
      ELSE retries' = retries + handlers /\ UNCHANGED <<startup, uiVars, dialogs>>

ProbeEnds(handlers) ==
    /\ app = "running" /\ probing > 0
    /\ probing' = probing - 1
    /\ Failed(handlers)
    /\ UNCHANGED <<envVars, app, server, closeEvent, serverProcess, currentAttempt,
                   isQuitting, shutdowns>>

ProbeRefused == ProbeEnds(1)
ProbeTimesOut == Answering /\ ProbeEnds(2)

ProbeAnswered ==
    /\ app = "running" /\ probing > 0 /\ Answering
    /\ probing' = probing - 1
    /\ Resolve
    /\ UNCHANGED <<envVars, app, server, closeEvent, serverProcess, currentAttempt,
                   retries, isQuitting, shutdowns>>

TryConnect ==
    /\ app = "running" /\ retries > 0
    /\ retries' = retries - 1
    /\ currentAttempt' = currentAttempt + 1
    /\ probing' = probing + 1
    /\ UNCHANGED <<envVars, app, server, closeEvent, serverProcess, startup, uiVars,
                   isQuitting, dialogs, shutdowns>>

(***************************************************************************)
(* The server process and its events.                                       *)
(***************************************************************************)
ServerListens ==
    /\ app = "running" /\ server = "starting" /\ ~portTaken
    /\ server' = "serving"
    /\ UNCHANGED <<envVars, app, closeEvent, serverProcess, startup, probeVars, uiVars,
                   isQuitting, dialogs, shutdowns>>

(* It ends: with code 0 or by a signal ("clean"), or with another code. *)
ServerExits ==
    /\ app = "running" /\ Alive
    /\ server' = "gone"
    /\ closeEvent' \in {"clean", "crash"}
    /\ UNCHANGED <<envVars, app, serverProcess, startup, probeVars, uiVars, isQuitting,
                   dialogs, shutdowns>>

(* The binary cannot be started: 'error', followed by 'close'. *)
SpawnFails ==
    /\ app = "running" /\ server = "starting"
    /\ server' = "gone" /\ closeEvent' = "crash"
    /\ Reject
    /\ UNCHANGED <<envVars, app, serverProcess, probeVars, isQuitting, shutdowns>>

(* The 'close' event runs the handler of startServer, then those before-quit added. *)
CloseEvent ==
    /\ app = "running" /\ closeEvent # "none"
    /\ closeEvent' = "none"
    /\ IF closeEvent = "crash"
         THEN dialogs' = dialogs \union {"crash"} /\ UNCHANGED uiVars
         ELSE UNCHANGED dialogs /\ CloseMainWindow
    /\ IF shutdowns > 0
         THEN serverProcess' = FALSE /\ app' = "exited"
         ELSE UNCHANGED <<serverProcess, app>>
    /\ UNCHANGED <<envVars, server, startup, probeVars, isQuitting, shutdowns>>

(* Mutants: exit without SIGKILL; SIGKILL without exit. *)
ShutdownTimerSpares ==
    /\ app = "running" /\ shutdowns > 0
    /\ app' = "exited"
    /\ UNCHANGED <<envVars, server, closeEvent, serverProcess, startup, probeVars, uiVars,
                   isQuitting, dialogs, shutdowns>>

ShutdownTimerStays ==
    /\ app = "running" /\ shutdowns > 0 /\ Alive
    /\ server' = "gone" /\ closeEvent' = "clean"
    /\ UNCHANGED <<envVars, app, serverProcess, startup, probeVars, uiVars,
                   isQuitting, dialogs, shutdowns>>

(* The five seconds of a held-up quit are over. *)
ShutdownTimer ==
    /\ app = "running" /\ shutdowns > 0
    /\ server' = IF serverProcess /\ Alive THEN "gone" ELSE server
    /\ app' = "exited"
    /\ UNCHANGED <<envVars, closeEvent, serverProcess, startup, probeVars, uiVars,
                   isQuitting, dialogs, shutdowns>>

(***************************************************************************)
(* Dialogs.  "View the full log" leads to a second box; the boxes about a   *)
(* failed start quit without setting isQuitting.                            *)
(***************************************************************************)
ViewLog ==
    /\ app = "running"
    /\ \E d \in dialogs \intersect {"crash", "failed"} :
          dialogs' = (dialogs \ {d}) \union {IF d = "crash" THEN "crashLog" ELSE "failedLog"}
    /\ UNCHANGED <<envVars, app, server, closeEvent, serverProcess, startup, probeVars,
                   uiVars, isQuitting, shutdowns>>

DialogQuits ==
    /\ app = "running"
    /\ \E d \in dialogs :
          /\ dialogs' = dialogs \ {d}
          /\ Quit(isQuitting \/ d \in {"crash", "crashLog"})
    /\ UNCHANGED <<envVars, server, closeEvent, serverProcess, startup, probeVars>>

(***************************************************************************)
(* The user.                                                                *)
(***************************************************************************)
UserUnchanged == UNCHANGED <<envVars, server, closeEvent, serverProcess, startup,
                             probeVars, dialogs>>

TrayShow ==
    /\ app = "running" /\ Tray
    /\ IF mainWindow = "null"
         THEN CreateWindow
         ELSE windows' = Shown(mainWindow, "visible") /\ UNCHANGED mainWindow
    /\ UserUnchanged /\ UNCHANGED <<app, isQuitting, shutdowns>>

TrayClick ==
    /\ app = "running" /\ Tray
    /\ IF mainWindow = "null"
         THEN CreateWindow
         ELSE /\ windows' = Shown(mainWindow, IF windows[mainWindow] = "visible"
                                                THEN "hidden" ELSE "visible")
              /\ UNCHANGED mainWindow
    /\ UserUnchanged /\ UNCHANGED <<app, isQuitting, shutdowns>>

TrayQuit == app = "running" /\ Tray /\ Quit(TRUE) /\ UserUnchanged

(* Quit from the application menu, the dock or the session: isQuitting is not set. *)
SystemQuit == app = "running" /\ Quit(isQuitting) /\ UserUnchanged

CloseWindow ==
    /\ app = "running"
    /\ \E w \in DOMAIN windows : windows[w] = "visible" /\ Close(w)
    /\ UserUnchanged /\ UNCHANGED <<app, isQuitting, shutdowns>>

(* The dock icon on macOS, as soon as the application is ready *)
Activate ==
    /\ app = "running" /\ platform = "darwin" /\ DOMAIN windows = {}
    /\ CreateWindow
    /\ UserUnchanged /\ UNCHANGED <<app, isQuitting, shutdowns>>

Probe == ProbeRefused \/ ProbeTimesOut \/ ProbeAnswered
Server == ServerListens \/ ServerExits \/ SpawnFails \/ CloseEvent
User == TrayShow \/ TrayClick \/ TrayQuit \/ SystemQuit \/ CloseWindow \/ Activate
            \/ ViewLog \/ DialogQuits

Next == StartServer \/ Probe \/ TryConnect \/ Server \/ ShutdownTimer \/ User

(* Timers fire and a request ends (it has a timeout); nothing is owed by the user. *)
Fairness == /\ WF_vars(StartServer)
            /\ WF_vars(Probe)
            /\ WF_vars(TryConnect)
            /\ WF_vars(ShutdownTimer)

Spec == Init /\ [][Next]_vars /\ Fairness

(***************************************************************************)
(* Properties                                                               *)
(***************************************************************************)
(* Every variable has the values the program gives it. *)
TypeOK ==
    /\ isDev \in BOOLEAN /\ platform \in Platforms /\ portTaken \in BOOLEAN
    /\ app \in {"launching", "running", "exited"}
    /\ server \in {"none", "starting", "serving", "gone"}
    /\ closeEvent \in {"none", "clean", "crash"}
    /\ serverProcess \in BOOLEAN
    /\ startup \in {"pending", "up", "failed"}
    /\ currentAttempt \in Nat /\ probing \in Nat /\ retries \in Nat
    /\ DOMAIN windows \subseteq Windows
    /\ windows \in [DOMAIN windows -> {"visible", "hidden"}]
    /\ mainWindow \in Windows \union {"null"}
    /\ isQuitting \in BOOLEAN
    /\ dialogs \subseteq Dialogs
    /\ shutdowns \in 0 .. MaxQuits

(* The application never exits and leaves its server running, whichever of the   *)
(* quit, the exit of the server and the five-second timer comes first.           *)
NoOrphanServer == app = "exited" => ~Alive

(* While the desktop application runs there is a way to end it or it is about to *)
(* go on by itself: the start is under way, a dialog or the tray icon is there,  *)
(* or a quit waits for the server.  It never lives on unseen.                    *)
NeverUnreachable ==
    app = "running" /\ ~isDev =>
        startup = "pending" \/ dialogs # {} \/ Tray \/ shutdowns > 0

(* mainWindow never refers to a destroyed window, although the handlers of every *)
(* window write it: show() and hide() of the tray never throw.                   *)
MainWindowExists == mainWindow # "null" => mainWindow \in DOMAIN windows

(* A timeout sets two retry timers instead of one, so the probes exceed          *)
(* maxRetries; they still stay below twice that number.                          *)
AttemptsBounded == currentAttempt + retries < 2 * MaxRetries

(* A quit that was accepted ends the application, even if the server ignores     *)
(* SIGTERM or has ended long ago and its 'close' event will not come.            *)
QuitEnds == (isQuitting \/ shutdowns > 0) ~> app = "exited"

(* The start ends: the promise of startServer is resolved or rejected.           *)
StartSettles == app = "launching" ~> (startup # "pending" \/ app = "exited")
=============================================================================
