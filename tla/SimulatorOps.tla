---------------------------- MODULE SimulatorOps ----------------------------
(***************************************************************************)
(* What an iOS simulator is asked by one request: simulator.go,            *)
(* simulator_fs.go, simulator_location.go, simulator_flutter.go,           *)
(* ios_webview.go.  Commands are xcrun simctl, files of the Mac, or calls  *)
(* of the agent that StartAgent found or launched.                         *)
(***************************************************************************)
EXTENDS HostOps

---------------------------------------------------------------------------
(* Discovery and state *)

\* A device.plist that cannot be read is skipped.
GetSimulators == Skip | (Ask("home directory") ** Ask("devices directory") ** Attempt(Ask("device.plist")))
filterSimulatorsByDownloadsDirectory == Attempt(Ask("home directory") ** Ask("Downloads"))
getState == GetSimulators ** Check("simulator found")

bootstatus == Ask("bootstatus")
Boot == getState ** Check("not booted") ** (bootstatus | (Do("boot") ** bootstatus))
Shutdown == getState ** Check("not shut down") ** Do("shutdown")
\* The simulator may be off already.
Reboot == Attempt(Do("shutdown")) ** Do("boot")

Info == ViaAgent(Ask("window size"))

---------------------------------------------------------------------------
(* The agent: found through the environment of its process, or launched    *)

ListInstalledApps == Ask("listapps") ** Check("plist")
findInstalledAgentBundleID == ListInstalledApps

findDeviceKitProcessForDevice == Ask("ps") ** Check("agent process")
getDeviceKitEnvPort == findDeviceKitProcessForDevice ** Check("port in environment") ** Check("number")

\* Only a simulator that is up, or comes up, can have an agent.
waitUntilBooted == getState ** Check("state") ** Optional(bootstatus)

\* One that runs must answer; only if none runs is one launched.
connectToRunningAgent(otherwise) == Try(getDeviceKitEnvPort, Ask("agent status"), otherwise)

\* What earlier launches wrote to stderr.
removeSimulatorAgentDiagnostics == Attempt(Ask("diagnostics directory") ** Ask("removed"))
\* An agent that does not answer is terminated.
launchAgent ==
  Ask("free port") ** Ask("home directory") ** Take("agent process")
    ** Undoing({"agent process"}, removeSimulatorAgentDiagnostics ** Ask("agent answers"))
    ** Keep("agent process")
StartAgent ==
  waitUntilBooted
    ** connectToRunningAgent(findInstalledAgentBundleID ** Check("installed") ** launchAgent)
    ** AgentStarted

---------------------------------------------------------------------------
(* Screen and input *)

TakeScreenshot == ViaAgent(Ask("screenshot")) ** ProcessScreenshot
StartScreenCapture == getDeviceKitEnvPort ** Ask("mjpeg stream")

\* The exit status of simctl is dropped.
ScreenRecord == Take("recordVideo") ** Drop("recordVideo")

Tap == ViaAgent(Do("tap"))
LongPress == ViaAgent(Do("longpress"))
Swipe == ViaAgent(Do("swipe"))
Gesture == ViaAgent(Do("gesture"))
GetClipboard == ViaAgent(Ask("clipboard"))
SetClipboard == ViaAgent(Do("clipboard"))
PressButton == ViaAgent(Do("button"))
SendKeys == ViaAgent(Do("text"))
PressKeys == ViaAgent(Do("keys"))
GetOrientation == ViaAgent(Ask("orientation"))
SetOrientation == ViaAgent(Do("orientation"))
SetAppearance == ViaAgent(Do("appearance"))
OpenURL == Do("url")

---------------------------------------------------------------------------
(* Apps *)

LaunchApp == Check("no activity") ** Do("launch")
\* Terminating the agent removes what it wrote to stderr.
TerminateApp == Do("terminate") ** Optional(removeSimulatorAgentDiagnostics)

\* The version in the bundle, if it can be read, is the better one.
ListApps == Ask("listapps") ** Check("plist") ** Attempt(Ask("app metadata"))
GetForegroundApp == ViaAgent(Ask("active app")) ** ListApps

\* A zip is unpacked into a directory of its own and its .app installed.
InstallApp ==
  Check("path exists")
    ** (Skip | (Unzip("unzipped app") ** Check("directory") ** Check(".app found")))
    ** Do("install")
\* The app is stopped, then its container emptied entry by entry.
ClearApp ==
  Ask("data container") ** Check("inside this simulator") ** Attempt(TerminateApp)
    ** Ask("entries") ** Optional(Do("first entries removed") ** Do("last entries removed"))
UninstallApp == ListInstalledApps ** Check("installed") ** Do("uninstall")

---------------------------------------------------------------------------
(* Crashes, logs, location *)

ListCrashReports == Ask("diagnostic reports")
GetCrashReport == Check("crash id") ** Ask("report")

\* Every way out kills the process or has waited for it.
StreamLogs ==
  Check("stdout pipe") ** Take("log stream")
    ** Undoing({"log stream"}, Ask("opening token") ** Optional(Ask("entry")))
    ** Drop("log stream") ** Optional(Check("exit status"))

SetLocation == Do("location")
ClearLocation == Do("location off")

---------------------------------------------------------------------------
(* Files of the simulator are files of the Mac below its device directory  *)

simulatorDeviceRoot == Ask("home directory")
validatePath == simulatorDeviceRoot ** Check("inside the device directory")
GetAppContainerPath == Ask("get_app_container")
\* What is not a directory is looked at as a file.
ListFiles ==
  (Skip | GetAppContainerPath | simulatorDeviceRoot) ** validatePath
    ** OrElse(Ask("list"), Ask("stat"))
PullFile == validatePath ** Ask("read") ** Check("local file")
PushFile == validatePath ** Check("local file") ** Do("push")
Mkdir == validatePath ** Do("mkdir")
Rm == validatePath ** Do("rm")

---------------------------------------------------------------------------
(* Web views: a library injected into the app in front with lldb           *)

findSimulatorPIDForBundle == Ask("ps") ** Check("process of the bundle")
writeIOSAgentDylib == Take("dylib") ** Undoing({"dylib"}, Check("written"))
injectIOSAgent == Ask("lldb") ** Check("agent port")
\* The port is remembered for the app; another app in front means another agent.
\* An earlier request may have left the client it needs.
ensureIOSAgentReady ==
  (AgentStarted | StartAgent) ** GetForegroundApp
    ** (Ask("cached port answers")
          | (findSimulatorPIDForBundle ** writeIOSAgentDylib ** Defer("dylib") ** injectIOSAgent
                  ** Ask("agent answers")))
webViewAction(what) == ensureIOSAgentReady ** Do(what)

ListWebViews == ensureIOSAgentReady ** Ask("webview list") ** Check("response")
WebViewGoto == webViewAction("webview goto")
WebViewReload == webViewAction("webview reload")
WebViewGoBack == webViewAction("webview back")
WebViewGoForward == webViewAction("webview forward")
WebViewEvaluate == webViewAction("webview evaluate") ** Check("evaluate result")
WebViewContent ==
  ensureIOSAgentReady ** Ask("webview content") ** Check("evaluate result") ** Check("string")
WebViewWaitForLoadState == ensureIOSAgentReady ** Ask("webview load state")

---------------------------------------------------------------------------
(* View trees *)

\* dns-sd runs until it is killed.
resolveDartVMServiceMDNS == Check("stdout pipe") ** Temp("dns-sd") ** Ask("port and code")
flutterVMServiceURIFromLog == Ask("log show") ** Check("uri in log")
flutterVMServiceURI == OrElse(resolveDartVMServiceMDNS, flutterVMServiceURIFromLog)
isFlutterAppBundle == Ask("app container") ** Check("Flutter.framework")
dumpFlutterTreeOverWS == Temp("vm connection") ** Ask("isolate") ** Ask("flutter tree")
dumpFlutterSourceFromURI == Check("uri") ** dumpFlutterTreeOverWS
tryDumpFlutterSource ==
  GetForegroundApp ** isFlutterAppBundle ** flutterVMServiceURI ** dumpFlutterSourceFromURI
DumpSource == OrElse(tryDumpFlutterSource, ViaAgent(Ask("source")))
DumpSourceRaw == ViaAgent(Ask("source"))

---------------------------------------------------------------------------
(* The device, as the commands see it *)

SimulatorDevice ==
  [class |-> "simulator",
   StartAgent |-> StartAgent, Info |-> Info, TakeScreenshot |-> TakeScreenshot,
   StartScreenCapture |-> StartScreenCapture, ScreenRecord |-> ScreenRecord,
   Tap |-> Tap, LongPress |-> LongPress, Swipe |-> Swipe,
   Gesture |-> Gesture, GetClipboard |-> GetClipboard, SetClipboard |-> SetClipboard,
   PressButton |-> PressButton, PressKeys |-> PressKeys, SendKeys |-> SendKeys, OpenURL |-> OpenURL,
   LaunchApp |-> LaunchApp, TerminateApp |-> TerminateApp, ListApps |-> ListApps,
   GetForegroundApp |-> GetForegroundApp, GetAppContainerPath |-> GetAppContainerPath,
   InstallApp |-> InstallApp, ClearApp |-> ClearApp, UninstallApp |-> UninstallApp,
   GetOrientation |-> GetOrientation, SetOrientation |-> SetOrientation,
   SetAppearance |-> SetAppearance, DumpSource |-> DumpSource, DumpSourceRaw |-> DumpSourceRaw,
   ListCrashReports |-> ListCrashReports, GetCrashReport |-> GetCrashReport,
   StreamLogs |-> StreamLogs, PushFile |-> PushFile, PullFile |-> PullFile, ListFiles |-> ListFiles,
   Mkdir |-> Mkdir, Rm |-> Rm, Boot |-> Boot, Shutdown |-> Shutdown, Reboot |-> Reboot,
   SetLocation |-> SetLocation, ClearLocation |-> ClearLocation, ListWebViews |-> ListWebViews,
   WebViewGoto |-> WebViewGoto, WebViewReload |-> WebViewReload, WebViewGoBack |-> WebViewGoBack,
   WebViewGoForward |-> WebViewGoForward, WebViewEvaluate |-> WebViewEvaluate,
   WebViewContent |-> WebViewContent, WebViewWaitForLoadState |-> WebViewWaitForLoadState]
=============================================================================
