------------------------------- MODULE Frontend -------------------------------
(***************************************************************************)
(* The Electron frontend of LanSend: the main process (src/gui/src/        *)
(* main.js), which starts the backend, serves its two pipes and reports to *)
(* the renderer whether the backend is usable, and the part of the         *)
(* renderer (app.js) that shows that status and the devices.               *)
(*                                                                         *)
(* The main process handles one event at a time, but the events of the     *)
(* backend process, of the two sockets and of the window come in any       *)
(* order: a process can be gone before its pipes close or after, and       *)
(* before the main process has noticed that they were ever connected.      *)
(*                                                                         *)
(* The backend (src/src/ipc) appears as the other end: it connects its     *)
(* pipes one after the other, greets, and reports devices found and lost.  *)
(***************************************************************************)
EXTENDS Naturals, Sequences

CONSTANTS
  Device,
  MaxNews,      \* bound on the devices reported found or lost
  MaxReloads    \* bound on the times the user reloads the window

ASSUME FrontendBounds == MaxNews \in Nat /\ MaxReloads \in Nat

VARIABLES
  process,                   \* the backend: "running" or "gone"
  exit_handled,              \* its exit event was handled
  pipe,                      \* each pipe, as the main process has it
  connected,                 \* individualStdinConnected, individualStdoutConnected
  connectionAttemptReported,
  isPipeConnected,
  isBackendLogicallyReady,
  isRendererReady,
  overallBackendReportedStatus,
  window,                    \* "loading", "mounted" or "closed"
  mounted_sent,              \* "renderer-mounted-ready" is on its way
  to_main,                   \* what the backend has written and main not read
  to_renderer,               \* what main has sent and the renderer not handled
  backendConnected,          \* the status the renderer shows
  devices,                   \* the devices the renderer lists
  greeted,                   \* the backend has sent backend_started
  listed,                    \* the devices the backend lists
  news,                      \* devices reported so far
  reloads                    \* times the window was reloaded

flags    == <<isBackendLogicallyReady, isRendererReady>>
sockets  == <<pipe, connected, connectionAttemptReported, isPipeConnected>>
reported == <<overallBackendReportedStatus, to_renderer>>
renderer == <<window, mounted_sent, backendConnected, devices, reloads>>
backend  == <<process, greeted, listed, news>>
fvars    == <<flags, sockets, reported, renderer, backend, exit_handled, to_main>>

Pipes == {"stdin", "stdout"}

\* "connecting": the backend has opened its end and the main process has not
\* handled that event; "destroyed": the close event is still to come.
PipeStates == {"listening", "connecting", "open", "destroyed", "closed"}

Status(b) == [type |-> "status", value |-> b]
Found(d)  == [type |-> "FoundDevice", value |-> d]
Lost(d)   == [type |-> "LostDevice", value |-> d]
Greeting  == [type |-> "backend_started", value |-> TRUE]

\* The process is spawned and the pipe servers listen, or there is no
\* executable to start.
startBackendProcess ==
  \/ /\ process = "running"
     /\ exit_handled = FALSE
     /\ pipe = [p \in Pipes |-> "listening"]
  \/ /\ process = "gone"
     /\ exit_handled = TRUE
     /\ pipe = [p \in Pipes |-> "closed"]

\* createWindow and startBackendProcess have run.
FrontendInit ==
  /\ startBackendProcess
  /\ connected = [p \in Pipes |-> FALSE]
  /\ connectionAttemptReported = FALSE
  /\ isPipeConnected = FALSE
  /\ isBackendLogicallyReady = FALSE
  /\ isRendererReady = FALSE
  /\ overallBackendReportedStatus = FALSE
  /\ window = "loading"
  /\ mounted_sent = FALSE
  /\ to_main = <<>>
  /\ to_renderer = <<>>
  /\ backendConnected = FALSE
  /\ devices = {}
  /\ greeted = FALSE
  /\ listed = {}
  /\ news = 0
  /\ reloads = 0

-----------------------------------------------------------------------------
\* The status.

\* updateAndReportOverallBackendStatus, once the flags are set: a change is
\* sent, if there is a window to send it to.
updateAndReport ==
  LET new == isPipeConnected' /\ isBackendLogicallyReady' /\ isRendererReady'
  IN IF new # overallBackendReportedStatus /\ window # "closed"
     THEN /\ overallBackendReportedStatus' = new
          /\ to_renderer' = Append(to_renderer, Status(new))
     ELSE UNCHANGED reported

\* updatePipeConnectionStatus, once connected' is set: attempt is the flag for
\* reported attempts, and details says that an error is to be told.
updatePipeConnectionStatus(attempt, details) ==
  LET new == \A p \in Pipes : connected'[p]
  IN IF new # isPipeConnected \/ (~new /\ details /\ ~attempt)
     THEN /\ isPipeConnected' = new
          /\ connectionAttemptReported' = (attempt \/ new \/ details)
          /\ updateAndReport
     ELSE /\ connectionAttemptReported' = attempt
          /\ UNCHANGED <<isPipeConnected, reported>>

-----------------------------------------------------------------------------
\* Events of the pipes and of the backend process.

\* The connection event of a pipe server.
PipeConnected(p) ==
  /\ pipe[p] = "connecting"
  /\ pipe' = [pipe EXCEPT ![p] = "open"]
  /\ connected' = [connected EXCEPT ![p] = TRUE]
  /\ UNCHANGED <<flags, renderer, backend, exit_handled, to_main>>
  /\ updatePipeConnectionStatus(FALSE, FALSE)

\* The close event of a socket: the backend is gone, or destroy was called.
\* What was read before is handled before.
PipeClosed(p) ==
  /\ \/ pipe[p] = "destroyed"
     \/ pipe[p] = "open" /\ process = "gone" /\ (p = "stdout" => to_main = <<>>)
  /\ pipe' = [pipe EXCEPT ![p] = "closed"]
  /\ connected' = [connected EXCEPT ![p] = FALSE]
  /\ UNCHANGED <<flags, renderer, backend, exit_handled, to_main>>
  /\ updatePipeConnectionStatus(connectionAttemptReported, TRUE)

\* cleanupPipes: servers are closed and sockets destroyed.  What they had not
\* told yet is lost.
cleanupPipes ==
  /\ pipe' = [p \in Pipes |->
                CASE pipe[p] = "open" -> "destroyed"
                  [] pipe[p] \in {"listening", "connecting"} -> "closed"
                  [] OTHER -> pipe[p]]
  /\ to_main' = <<>>

\* Mutant: the pipes are marked as lost before the status is updated.
ProcessExit_MarksPipes ==
  /\ process = "gone"
  /\ ~exit_handled
  /\ exit_handled' = TRUE
  /\ cleanupPipes
  /\ connected' = [p \in Pipes |-> FALSE]
  /\ isBackendLogicallyReady' = FALSE
  /\ isPipeConnected' = FALSE
  /\ UNCHANGED <<isRendererReady, renderer, backend, connectionAttemptReported, reported>>

\* The exit event of the backend process.
ProcessExit ==
  /\ process = "gone"
  /\ ~exit_handled
  /\ exit_handled' = TRUE
  /\ cleanupPipes
  /\ connected' = [p \in Pipes |-> FALSE]
  /\ isBackendLogicallyReady' = FALSE
  /\ UNCHANGED <<isRendererReady, renderer, backend>>
  /\ updatePipeConnectionStatus(connectionAttemptReported, TRUE)

\* The error event: the process could not be started.  The servers stay.
SpawnFails ==
  /\ process = "running"
  /\ \A p \in Pipes : pipe[p] = "listening"
  /\ process' = "gone"
  /\ exit_handled' = TRUE
  /\ connected' = [p \in Pipes |-> FALSE]
  /\ UNCHANGED <<flags, pipe, renderer, greeted, listed, news, to_main>>
  /\ updatePipeConnectionStatus(connectionAttemptReported, TRUE)

\* processReceivedDataInternal, for one complete message.
MessageReceived ==
  /\ pipe["stdout"] = "open"
  /\ to_main # <<>>
  /\ to_main' = Tail(to_main)
  /\ IF Head(to_main) = Greeting
     THEN /\ isBackendLogicallyReady' = TRUE
          /\ UNCHANGED <<isPipeConnected, isRendererReady>>
          /\ IF isBackendLogicallyReady THEN UNCHANGED reported ELSE updateAndReport
     ELSE /\ to_renderer' = IF window = "closed" THEN to_renderer
                            ELSE Append(to_renderer, Head(to_main))
          /\ UNCHANGED <<flags, isPipeConnected, overallBackendReportedStatus>>
  /\ UNCHANGED <<pipe, connected, connectionAttemptReported, renderer, backend,
                 exit_handled>>

-----------------------------------------------------------------------------
\* The window.

\* mounted of app.js: the listeners are registered, then the main process is
\* told.
Mounted ==
  /\ window = "loading"
  /\ window' = "mounted"
  /\ mounted_sent' = TRUE
  /\ UNCHANGED <<flags, sockets, reported, backendConnected, devices, reloads, backend,
                 exit_handled, to_main>>

\* Mutant: the status is not looked at when the renderer is ready.
RendererReady_OnlyNotes ==
  /\ mounted_sent
  /\ mounted_sent' = FALSE
  /\ isRendererReady' = TRUE
  /\ UNCHANGED <<isBackendLogicallyReady, sockets, window, backendConnected, devices,
                 reloads, backend, exit_handled, to_main, reported>>

\* The main process hears that the renderer is mounted.
RendererReady ==
  /\ mounted_sent
  /\ mounted_sent' = FALSE
  /\ isRendererReady' = TRUE
  /\ UNCHANGED <<isBackendLogicallyReady, sockets, window, backendConnected, devices,
                 reloads, backend, exit_handled, to_main>>
  /\ IF isRendererReady THEN UNCHANGED reported ELSE updateAndReport

\* Mutant: a device that is lost stays in the list.
ListAfter_KeepsLost(list, m) == IF m.type = "FoundDevice" THEN list \cup {m.value} ELSE list

\* handleBackendMessage with updateDeviceList and removeDevice.
ListAfter(list, m) ==
  CASE m.type = "FoundDevice" -> list \cup {m.value}
    [] m.type = "LostDevice"  -> list \ {m.value}
    [] OTHER                  -> list

\* Mutant: any message is taken for a status.
StatusAfter_AnyMessage(shown, m) == m.value

\* The listener of "backend-connected".
StatusAfter(shown, m) == IF m.type = "status" THEN m.value ELSE shown

\* A message of the main process arrives.  Before mounted nobody listens.
RendererHandles ==
  /\ window # "closed"
  /\ to_renderer # <<>>
  /\ to_renderer' = Tail(to_renderer)
  /\ IF window = "mounted"
     THEN /\ backendConnected' = StatusAfter(backendConnected, Head(to_renderer))
          /\ devices' = ListAfter(devices, Head(to_renderer))
     ELSE UNCHANGED <<backendConnected, devices>>
  /\ UNCHANGED <<flags, sockets, overallBackendReportedStatus, window, mounted_sent,
                 reloads, backend, exit_handled, to_main>>

\* The user reloads the window from Electron's menu.
Reload ==
  /\ window # "closed"
  /\ reloads < MaxReloads
  /\ reloads' = reloads + 1
  /\ window' = "loading"
  /\ to_renderer' = <<>>
  /\ backendConnected' = FALSE
  /\ devices' = {}
  /\ UNCHANGED <<flags, sockets, overallBackendReportedStatus, mounted_sent, backend,
                 exit_handled, to_main>>

\* before-quit: the flags fall, the status is reported while there is still a
\* window, the backend is killed and the pipes are cleaned up.  The window may
\* have been closed first, which is what makes the application quit.
Quit ==
  /\ window # "closed"
  /\ isPipeConnected' = FALSE
  /\ isBackendLogicallyReady' = FALSE
  /\ isRendererReady' = FALSE
  /\ \/ window' = "closed" /\ UNCHANGED reported
     \/ UNCHANGED window /\ updateAndReport
  /\ cleanupPipes
  /\ process' = "gone"
  /\ UNCHANGED <<connected, connectionAttemptReported, mounted_sent, backendConnected,
                 devices, reloads, greeted, listed, news, exit_handled>>

-----------------------------------------------------------------------------
\* The backend.

\* Its constructor opens the input pipe, then the output pipe.
BackendConnects(p) ==
  /\ process = "running"
  /\ pipe[p] = "listening"
  /\ p = "stdout" => pipe["stdin"] # "listening"
  /\ pipe' = [pipe EXCEPT ![p] = "connecting"]
  /\ UNCHANGED <<connected, connectionAttemptReported, isPipeConnected, flags,
                 reported, renderer, backend, exit_handled, to_main>>

\* The greeting comes first.
BackendGreets ==
  /\ process = "running"
  /\ pipe["stdout"] # "listening"
  /\ ~greeted
  /\ greeted' = TRUE
  /\ to_main' = Append(to_main, Greeting)
  /\ UNCHANGED <<flags, sockets, reported, renderer, process, listed, news, exit_handled>>

BackendReports(d) ==
  /\ process = "running"
  /\ greeted
  /\ news < MaxNews
  /\ news' = news + 1
  /\ \/ /\ d \notin listed
        /\ listed' = listed \cup {d}
        /\ to_main' = Append(to_main, Found(d))
     \/ /\ d \in listed
        /\ listed' = listed \ {d}
        /\ to_main' = Append(to_main, Lost(d))
  /\ UNCHANGED <<flags, sockets, reported, renderer, process, greeted, exit_handled>>

\* The backend ends, by itself or by a fault.
BackendDies ==
  /\ process = "running"
  /\ process' = "gone"
  /\ UNCHANGED <<flags, sockets, reported, renderer, greeted, listed, news, exit_handled,
                 to_main>>

-----------------------------------------------------------------------------
\* The last event has been handled and nobody acts any more.
Rests == process = "gone" /\ exit_handled /\ UNCHANGED fvars

FrontendNext ==
  \/ \E p \in Pipes : PipeConnected(p) \/ PipeClosed(p) \/ BackendConnects(p)
  \/ ProcessExit
  \/ SpawnFails
  \/ MessageReceived
  \/ Mounted
  \/ RendererReady
  \/ RendererHandles
  \/ Reload
  \/ Quit
  \/ BackendGreets
  \/ \E d \in Device : BackendReports(d)
  \/ BackendDies
  \/ Rests

FrontendSpec == FrontendInit /\ [][FrontendNext]_fvars

\* The event loops of main process and renderer handle every event, the page
\* is loaded, and the backend connects its pipes and greets.  Nobody has to
\* reload, quit, or report a device.
FrontendFairSpec ==
  /\ FrontendSpec
  /\ \A p \in Pipes : /\ WF_fvars(PipeConnected(p))
                      /\ WF_fvars(PipeClosed(p))
                      /\ WF_fvars(BackendConnects(p))
  /\ WF_fvars(ProcessExit)
  /\ WF_fvars(MessageReceived)
  /\ WF_fvars(Mounted)
  /\ WF_fvars(RendererReady)
  /\ WF_fvars(RendererHandles)
  /\ WF_fvars(BackendGreets)

-----------------------------------------------------------------------------
\* Properties.

DeviceMessage == [type : {"FoundDevice", "LostDevice"}, value : Device]

\* The type invariant.
FrontendTypeOK ==
  /\ process \in {"running", "gone"}
  /\ exit_handled \in BOOLEAN
  /\ pipe \in [Pipes -> PipeStates]
  /\ connected \in [Pipes -> BOOLEAN]
  /\ {isPipeConnected, isBackendLogicallyReady, isRendererReady, mounted_sent,
      connectionAttemptReported, overallBackendReportedStatus,
      backendConnected, greeted} \subseteq BOOLEAN
  /\ window \in {"loading", "mounted", "closed"}
  /\ to_main \in Seq(DeviceMessage \cup {Greeting})
  /\ to_renderer \in Seq(DeviceMessage \cup {Status(TRUE), Status(FALSE)})
  /\ devices \subseteq Device
  /\ listed \subseteq Device
  /\ news \in 0 .. MaxNews
  /\ reloads \in 0 .. MaxReloads

\* Something is so once these messages have been handled: the last of them that
\* says yes or no says yes, or none says no and it was so before.
SoAfter(before, messages, yes, no) ==
  \/ before /\ \A i \in DOMAIN messages : messages[i] # no
  \/ \E i \in DOMAIN messages :
       /\ messages[i] = yes
       /\ \A j \in i + 1 .. Len(messages) : messages[j] # no

\* The status shown, and the devices listed, after these messages.
ShownAfter(shown, messages) == SoAfter(shown, messages, Status(TRUE), Status(FALSE))

DevicesAfter(list, messages) ==
  {d \in Device : SoAfter(d \in list, messages, Found(d), Lost(d))}

\* Whatever order the events of process, pipes and window come in, and
\* although the status is sent on a change only, and not everywhere a flag is
\* set: what the renderer shows after the messages on their way is the
\* conjunction of the three flags, until the window is reloaded
\* (updateAndReportOverallBackendStatus).
StatusIsShown ==
  window # "closed" /\ reloads = 0 =>
    (ShownAfter(backendConnected, to_renderer) <=>
       isPipeConnected /\ isBackendLogicallyReady /\ isRendererReady)

\* The list of the renderer runs behind that of the backend, and misses what
\* was reported before the renderer listened; but a device it shows is one of
\* the backend, or its loss is on its way, reloads included.
NoGhostDevices ==
  process = "running" /\ window # "closed" =>
    DevicesAfter(DevicesAfter(devices, to_renderer), to_main) \subseteq listed

\* When the backend is gone the renderer ends up showing it, whichever of the
\* exit event and the two close events comes first, and even when the backend
\* died before its connections were noticed.
BackendLossIsShown ==
  process = "gone" ~> ~backendConnected \/ window = "closed"

\* A window that is never reloaded comes to show a backend that lives, in
\* whatever order page, pipes and greeting become ready.
ConnectionIsShown ==
  <>(backendConnected \/ process = "gone" \/ reloads > 0)
===============================================================================
