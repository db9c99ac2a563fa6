------------------------- MODULE ElectronShellProofs -------------------------
(***************************************************************************)
(* Invariants of the desktop application, for any number of retries, quits *)
(* and windows.                                                            *)
(***************************************************************************)
EXTENDS ElectronShell, TLAPS

(* The windows and the reference to one of them. *)
WindowsOK ==
    /\ DOMAIN windows \subseteq Windows
    /\ windows \in [DOMAIN windows -> {"visible", "hidden"}]
    /\ mainWindow \in Windows \union {"null"}
    /\ MainWindowExists

(* Everything else that has a type. *)
RestTyped ==
    /\ isDev \in BOOLEAN /\ platform \in Platforms /\ portTaken \in BOOLEAN
    /\ app \in {"launching", "running", "exited"}
    /\ server \in {"none", "starting", "serving", "gone"}
    /\ closeEvent \in {"none", "clean", "crash"}
    /\ serverProcess \in BOOLEAN
    /\ startup \in {"pending", "up", "failed"}
    /\ isQuitting \in BOOLEAN
    /\ dialogs \subseteq Dialogs
    /\ shutdowns \in 0 .. MaxQuits

(* Every attempt but the first used up a timer, and a probe that ended set at    *)
(* most two: with p open probes, a attempts made and t timers, t + 2p <= a + 1.  *)
ProbesOK ==
    /\ currentAttempt \in Nat /\ probing \in Nat /\ retries \in Nat
    /\ retries + 2 * probing <= currentAttempt + 1
    /\ app = "launching" => retries = 0
    /\ AttemptsBounded

(* The reference to the process is kept as long as the process may live, and in  *)
(* an installed application as long as it runs.                                  *)
ProcessOK ==
    /\ Alive => serverProcess
    /\ app = "running" /\ ~isDev => serverProcess
    /\ closeEvent # "none" => server = "gone"
    /\ app = "launching" => server = "none" /\ startup = "pending"
    /\ NoOrphanServer
    /\ NeverUnreachable

Inv == WindowsOK /\ RestTyped /\ ProbesOK /\ ProcessOK

-----------------------------------------------------------------------------
(* Windows                                                                  *)

LEMMA CreateKeepsWindows == WindowsOK /\ CreateWindow => WindowsOK'
<1> SUFFICES ASSUME WindowsOK, CreateWindow PROVE WindowsOK'
    OBVIOUS
<1>1. PICK w \in NewWindow :
          /\ windows' = [v \in DOMAIN windows \union {w} |-> IF v = w THEN "visible" ELSE windows[v]]
          /\ mainWindow' = w
    BY DEF CreateWindow
<1>2. w \in Windows
    BY DEF NewWindow
<1>3. DOMAIN windows' = DOMAIN windows \union {w}
    BY <1>1
<1>4. \A v \in DOMAIN windows : windows[v] \in {"visible", "hidden"}
    BY DEF WindowsOK
<1>5. windows' \in [DOMAIN windows' -> {"visible", "hidden"}]
    BY <1>1, <1>3, <1>4
<1>6. QED
    BY <1>1, <1>2, <1>3, <1>5 DEF WindowsOK, MainWindowExists

LEMMA ShowKeepsWindows ==
    ASSUME WindowsOK, NEW w, NEW how \in {"visible", "hidden"},
           windows' = Shown(w, how), mainWindow' = mainWindow
    PROVE  WindowsOK'
<1>1. DOMAIN windows' = DOMAIN windows
    BY DEF Shown, WindowsOK
<1>2. windows' \in [DOMAIN windows' -> {"visible", "hidden"}]
    BY <1>1 DEF Shown, WindowsOK
<1>3. QED
    BY <1>1, <1>2 DEF WindowsOK, MainWindowExists

LEMMA CloseKeepsWindows ==
    ASSUME WindowsOK, NEW w \in DOMAIN windows, Close(w)
    PROVE  WindowsOK'
<1>1. CASE isQuitting
  <2>1. windows' = [v \in DOMAIN windows \ {w} |-> windows[v]] /\ mainWindow' = "null"
      BY <1>1 DEF Close, AfterClose, Restricted
  <2>2. DOMAIN windows' = DOMAIN windows \ {w}
      BY <2>1
  <2>3. \A v \in DOMAIN windows : windows[v] \in {"visible", "hidden"}
      BY DEF WindowsOK
  <2>4. windows' \in [DOMAIN windows' -> {"visible", "hidden"}]
      BY <2>1, <2>2, <2>3
  <2>5. QED
      BY <2>1, <2>2, <2>4 DEF WindowsOK, MainWindowExists
<1>2. CASE ~isQuitting /\ mainWindow = "null"
    BY <1>2 DEF Close, AfterClose, WindowsOK, MainWindowExists
<1>3. CASE ~isQuitting /\ mainWindow # "null"
    BY <1>3, ShowKeepsWindows DEF Close, AfterClose
<1>4. QED
    BY <1>1, <1>2, <1>3

LEMMA QuitKeepsWindows ==
    ASSUME WindowsOK, NEW q \in BOOLEAN, Quit(q)
    PROVE  WindowsOK'
<1>1. CASE UNCHANGED uiVars
    BY <1>1 DEF uiVars, WindowsOK, MainWindowExists
<1>2. CASE windows' = <<>> /\ mainWindow' = "null"
  <2>1. DOMAIN windows' = {} /\ windows' \in [{} -> {"visible", "hidden"}]
      BY <1>2
  <2>2. QED
      BY <1>2, <2>1 DEF WindowsOK, MainWindowExists
<1>3. CASE windows' = Shown(mainWindow, "hidden") /\ mainWindow' = mainWindow
    BY <1>3, ShowKeepsWindows
<1>4. QED
    BY <1>1, <1>2, <1>3 DEF Quit, uiVars

LEMMA SameWindows == WindowsOK /\ UNCHANGED uiVars => WindowsOK'
    BY DEF uiVars, WindowsOK, MainWindowExists

LEMMA WindowsStep == WindowsOK /\ RestTyped /\ Next => WindowsOK'
<1> SUFFICES ASSUME WindowsOK, RestTyped, Next PROVE WindowsOK'
    OBVIOUS
<1>1. CASE StartServer
    BY <1>1, SameWindows DEF StartServer
<1>2. CASE Probe
  <2>1. CASE ProbeRefused \/ ProbeTimesOut
      BY <2>1, SameWindows DEF ProbeRefused, ProbeTimesOut, ProbeEnds, Failed, Reject
  <2>2. CASE ProbeAnswered
      BY <2>2, SameWindows, CreateKeepsWindows DEF ProbeAnswered, Resolve
  <2>3. QED
      BY <1>2, <2>1, <2>2 DEF Probe
<1>3. CASE TryConnect \/ ShutdownTimer
    BY <1>3, SameWindows DEF TryConnect, ShutdownTimer
<1>4. CASE Server
  <2>1. CASE ServerListens \/ ServerExits \/ SpawnFails
      BY <2>1, SameWindows DEF ServerListens, ServerExits, SpawnFails, Reject
  <2>2. CASE CloseEvent
    <3>1. UNCHANGED uiVars \/ (mainWindow # "null" /\ Close(mainWindow))
        BY <2>2 DEF CloseEvent, CloseMainWindow
    <3>2. QED
        BY <3>1, SameWindows, CloseKeepsWindows DEF WindowsOK, MainWindowExists
  <2>3. QED
      BY <1>4, <2>1, <2>2 DEF Server
<1>5. CASE User
  <2>1. CASE TrayShow
      BY <2>1, CreateKeepsWindows, ShowKeepsWindows DEF TrayShow
  <2>2. CASE TrayClick
      BY <2>2, CreateKeepsWindows, ShowKeepsWindows DEF TrayClick
  <2>3. CASE TrayQuit
      BY <2>3, QuitKeepsWindows DEF TrayQuit
  <2>4. CASE SystemQuit
      BY <2>4, QuitKeepsWindows DEF SystemQuit, RestTyped
  <2>5. CASE CloseWindow
      BY <2>5, CloseKeepsWindows DEF CloseWindow
  <2>6. CASE Activate
      BY <2>6, CreateKeepsWindows DEF Activate
  <2>7. CASE ViewLog
      BY <2>7, SameWindows DEF ViewLog
  <2>8. CASE DialogQuits
    <3>1. PICK d \in dialogs : Quit(isQuitting \/ d \in {"crash", "crashLog"})
        BY <2>8 DEF DialogQuits
    <3>2. (isQuitting \/ d \in {"crash", "crashLog"}) \in BOOLEAN
        OBVIOUS
    <3>3. QED
        BY <3>1, <3>2, QuitKeepsWindows
  <2>9. QED
      BY <1>5, <2>1, <2>2, <2>3, <2>4, <2>5, <2>6, <2>7, <2>8 DEF User
<1>6. QED
    BY <1>1, <1>2, <1>3, <1>4, <1>5 DEF Next

-----------------------------------------------------------------------------
(* The remaining types, the probes and the process                          *)

LEMMA RestStep == RestTyped /\ Next => RestTyped'
<1> SUFFICES ASSUME RestTyped, Next PROVE RestTyped'
    OBVIOUS
<1> USE DEF RestTyped, envVars, Dialogs
<1>1. CASE StartServer
    BY <1>1 DEF StartServer
<1>2. CASE Probe
    BY <1>2 DEF Probe, ProbeRefused, ProbeTimesOut, ProbeAnswered, ProbeEnds, Failed, Reject, Resolve
<1>3. CASE TryConnect \/ ShutdownTimer
    BY <1>3 DEF TryConnect, ShutdownTimer
<1>4. CASE Server
    BY <1>4 DEF Server, ServerListens, ServerExits, SpawnFails, CloseEvent, Reject
<1>5. CASE User
  <2>1. CASE TrayShow \/ TrayClick \/ CloseWindow \/ Activate
      BY <2>1 DEF TrayShow, TrayClick, CloseWindow, Activate, UserUnchanged
  <2>2. CASE TrayQuit \/ SystemQuit
    <3>1. PICK q \in BOOLEAN : Quit(q)
        BY <2>2 DEF TrayQuit, SystemQuit
    <3>2. isQuitting' \in BOOLEAN /\ app' \in {app, "exited"}
        BY <3>1 DEF Quit
    <3>3. shutdowns' \in 0 .. MaxQuits
        BY <3>1, QuitsAssumption DEF Quit
    <3>4. QED
        BY <2>2, <3>2, <3>3 DEF TrayQuit, SystemQuit, UserUnchanged
  <2>3. CASE ViewLog
      BY <2>3 DEF ViewLog
  <2>4. CASE DialogQuits
    <3>1. PICK d \in dialogs : /\ dialogs' = dialogs \ {d}
                               /\ Quit(isQuitting \/ d \in {"crash", "crashLog"})
        BY <2>4 DEF DialogQuits
    <3>2. isQuitting' \in BOOLEAN /\ app' \in {app, "exited"} /\ shutdowns' \in 0 .. MaxQuits
        BY <3>1, QuitsAssumption DEF Quit
    <3>3. QED
        BY <2>4, <3>1, <3>2 DEF DialogQuits
  <2>5. QED
      BY <1>5, <2>1, <2>2, <2>3, <2>4 DEF User
<1>6. QED
    BY <1>1, <1>2, <1>3, <1>4, <1>5 DEF Next

(* A timeout with p >= 1 probes open leaves t <= a - 1 timers, and sets two more *)
(* only when a < maxRetries: attempts and timers stay below 2 * maxRetries.      *)
LEMMA ProbesStep == ProbesOK /\ RestTyped /\ Next => ProbesOK'
<1> SUFFICES ASSUME ProbesOK, RestTyped, Next PROVE ProbesOK'
    OBVIOUS
<1> USE RetriesAssumption DEF ProbesOK, AttemptsBounded
<1>1. CASE StartServer
    BY <1>1 DEF StartServer
<1>2. ASSUME NEW h \in {1, 2}, ProbeEnds(h)
      PROVE  ProbesOK'
  <2>1. CASE currentAttempt >= MaxRetries
      BY <1>2, <2>1 DEF ProbeEnds, Failed
  <2>2. CASE currentAttempt < MaxRetries
      BY <1>2, <2>2 DEF ProbeEnds, Failed
  <2>3. QED
      BY <2>1, <2>2
<1>3. CASE ProbeAnswered
    BY <1>3 DEF ProbeAnswered
<1>4. CASE TryConnect
    BY <1>4 DEF TryConnect
<1>5. CASE Server \/ ShutdownTimer \/ User
  <2>1. UNCHANGED probeVars /\ app' # "launching"
      BY <1>5 DEF Server, ServerListens, ServerExits, SpawnFails, CloseEvent, ShutdownTimer, User,
                  TrayShow, TrayClick, TrayQuit, SystemQuit, CloseWindow, Activate, ViewLog,
                  DialogQuits, UserUnchanged, Quit
  <2>2. QED
      BY <2>1 DEF probeVars
<1>6. QED
    BY <1>1, <1>2, <1>3, <1>4, <1>5 DEF Next, Probe, ProbeRefused, ProbeTimesOut

(* A quit exits at once only when no process is referred to; otherwise it waits. *)
LEMMA QuitKeepsProcess ==
    ASSUME ProcessOK, RestTyped, app = "running", NEW q \in BOOLEAN, Quit(q),
           UNCHANGED <<envVars, server, closeEvent, serverProcess, startup>>
    PROVE  ProcessOK'
<1> USE DEF ProcessOK, RestTyped, NoOrphanServer, NeverUnreachable, Alive, Tray, envVars
<1>1. CASE serverProcess
  <2>1. shutdowns' > 0 /\ app' = app
      BY <1>1, QuitsAssumption DEF Quit
  <2>2. QED
      BY <1>1, <2>1
<1>2. CASE ~serverProcess
    BY <1>2 DEF Quit
<1>3. QED
    BY <1>1, <1>2

LEMMA ProcessStep == ProcessOK /\ RestTyped /\ Next => ProcessOK'
<1> SUFFICES ASSUME ProcessOK, RestTyped, Next PROVE ProcessOK'
    OBVIOUS
<1> USE DEF ProcessOK, RestTyped, NoOrphanServer, NeverUnreachable, Alive, Tray, envVars
<1>1. CASE StartServer
  <2>1. CASE isDev
      BY <1>1, <2>1 DEF StartServer
  <2>2. CASE ~isDev
      BY <1>1, <2>2 DEF StartServer
  <2>3. QED
      BY <2>1, <2>2
<1>2. CASE Probe
  <2>1. CASE ProbeRefused \/ ProbeTimesOut
      BY <2>1 DEF ProbeRefused, ProbeTimesOut, ProbeEnds, Failed, Reject
  <2>2. CASE ProbeAnswered
      BY <2>2 DEF ProbeAnswered, Resolve
  <2>3. QED
      BY <1>2, <2>1, <2>2 DEF Probe
<1>3. CASE TryConnect \/ ShutdownTimer
    BY <1>3 DEF TryConnect, ShutdownTimer
<1>4. CASE Server
  <2>1. CASE ServerListens \/ ServerExits
      BY <2>1 DEF ServerListens, ServerExits
  <2>2. CASE SpawnFails
      BY <2>2 DEF SpawnFails, Reject
  <2>3. CASE CloseEvent
      BY <2>3 DEF CloseEvent
  <2>4. QED
      BY <1>4, <2>1, <2>2, <2>3 DEF Server
<1>5. CASE User
  <2>1. CASE TrayShow \/ TrayClick \/ CloseWindow \/ Activate
      BY <2>1 DEF TrayShow, TrayClick, CloseWindow, Activate, UserUnchanged
  <2>2. CASE TrayQuit \/ SystemQuit
      BY <2>2, QuitKeepsProcess DEF TrayQuit, SystemQuit, UserUnchanged
  <2>3. CASE ViewLog
      BY <2>3 DEF ViewLog
  <2>4. CASE DialogQuits
    <3>1. PICK d \in dialogs : Quit(isQuitting \/ d \in {"crash", "crashLog"})
        BY <2>4 DEF DialogQuits
    <3>2. (isQuitting \/ d \in {"crash", "crashLog"}) \in BOOLEAN
        OBVIOUS
    <3>3. QED
        BY <2>4, <3>1, <3>2, QuitKeepsProcess DEF DialogQuits
  <2>5. QED
      BY <1>5, <2>1, <2>2, <2>3, <2>4 DEF User
<1>6. QED
    BY <1>1, <1>2, <1>3, <1>4, <1>5 DEF Next

-----------------------------------------------------------------------------
(* The invariant                                                            *)

LEMMA InvInit == Init => Inv
<1> SUFFICES ASSUME Init PROVE Inv
    OBVIOUS
<1>1. WindowsOK
  <2>1. DOMAIN windows = {} /\ windows \in [{} -> {"visible", "hidden"}]
      BY DEF Init
  <2>2. QED
      BY <2>1 DEF Init, WindowsOK, MainWindowExists
<1>2. RestTyped
  <2>1. isDev \in BOOLEAN
      BY ModesAssumption DEF Init
  <2>2. shutdowns \in 0 .. MaxQuits
      BY QuitsAssumption DEF Init
  <2>3. QED
      BY <2>1, <2>2 DEF Init, RestTyped
<1>3. ProbesOK
    BY RetriesAssumption DEF Init, ProbesOK, AttemptsBounded
<1>4. ProcessOK
    BY DEF Init, ProcessOK, NoOrphanServer, NeverUnreachable, Alive
<1>5. QED
    BY <1>1, <1>2, <1>3, <1>4 DEF Inv

LEMMA InvStep == Inv /\ [Next]_vars => Inv'
<1> SUFFICES ASSUME Inv, [Next]_vars PROVE Inv'
    OBVIOUS
<1>1. CASE Next
    BY <1>1, WindowsStep, RestStep, ProbesStep, ProcessStep DEF Inv
<1>2. CASE UNCHANGED vars
  <2>1. WindowsOK'
      BY <1>2, SameWindows DEF vars, Inv
  <2>2. RestTyped' /\ ProbesOK'
      BY <1>2 DEF vars, envVars, probeVars, Inv, RestTyped, ProbesOK, AttemptsBounded
  <2>3. ProcessOK'
      BY <1>2 DEF vars, envVars, Inv, ProcessOK, NoOrphanServer, NeverUnreachable, Alive, Tray
  <2>4. QED
      BY <2>1, <2>2, <2>3 DEF Inv
<1>3. QED
    BY <1>1, <1>2

LEMMA InvHolds == Spec => []Inv
    BY InvInit, InvStep, PTL DEF Spec

(* Every variable of the shell keeps its type; in particular no window record    *)
(* and no count of quits leaves its range.                                       *)
THEOREM TypeCorrect == Spec => []TypeOK
<1>1. Inv => TypeOK
    BY DEF Inv, WindowsOK, RestTyped, ProbesOK, TypeOK
<1>2. QED
    BY <1>1, InvHolds, PTL

(* The shell never exits while its server lives: every exit either waited for    *)
(* the 'close' event, or killed the process when the timer fired.                *)
THEOREM ServerStopsFirst == Spec => []NoOrphanServer
<1>1. Inv => NoOrphanServer
    BY DEF Inv, ProcessOK
<1>2. QED
    BY <1>1, InvHolds, PTL

(* An installed application that runs can always be reached by its user or is    *)
(* about to exit, whatever failed while it started.                              *)
THEOREM AlwaysReachable == Spec => []NeverUnreachable
<1>1. Inv => NeverUnreachable
    BY DEF Inv, ProcessOK
<1>2. QED
    BY <1>1, InvHolds, PTL

(* mainWindow refers to a window that exists, for any number of windows that     *)
(* 'activate' and the tray create.                                               *)
THEOREM MainWindowValid == Spec => []MainWindowExists
<1>1. Inv => MainWindowExists
    BY DEF Inv, WindowsOK
<1>2. QED
    BY <1>1, InvHolds, PTL

(* Although a timeout sets two timers, fewer than 2 * maxRetries probes are made. *)
THEOREM ProbesAreBounded == Spec => []AttemptsBounded
<1>1. Inv => AttemptsBounded
    BY DEF Inv, ProbesOK
<1>2. QED
    BY <1>1, InvHolds, PTL
=============================================================================
