------------------------------- MODULE IosOps -------------------------------
(***************************************************************************)
(* What a real iOS device is asked by one request: ios.go, ios_fs.go,      *)
(* ios_location.go, ios_device_*.go, wda_foreground_app.go.  It is reached *)
(* through the agent that StartAgent launched (IosAgent), through services *)
(* behind the tunnel, or through an agent injected into the app in front.  *)
(***************************************************************************)
EXTENDS HostOps

StartAgent == Ask("device agent") ** AgentStarted

deviceWithRsd == Take("rsd") ** Defer("rsd") ** Ask("rsd handshake") ** Ask("device address")
\* No tunnel information is not an error: a device of iOS 16 needs none.
getEnhancedDevice == Ask("device entry") ** (Skip | (Ask("tunnel info") ** Attempt(deviceWithRsd)))
Tunnelled == Ask("tunnel") ** getEnhancedDevice

\* A connection to a service of the device, closed when the request ends.
Service(name) == Temp(name)

---------------------------------------------------------------------------
(* State, screen, input *)

Reboot == Tunnelled ** Do("reboot")
Boot == Reject("not supported")
Shutdown == Reject("not supported")
Info == ViaAgent(Ask("window size"))
TakeScreenshot == ViaAgent(Ask("screenshot")) ** ProcessScreenshot

Tap == ViaAgent(Do("tap"))
LongPress == ViaAgent(Do("longpress"))
Swipe == ViaAgent(Do("swipe"))
Gesture == ViaAgent(Do("gesture"))
GetClipboard == ViaAgent(Ask("clipboard"))
SetClipboard == ViaAgent(Do("clipboard"))
PressButton == ViaAgent(Do("button"))
SendKeys == ViaAgent(Do("text"))
PressKeys == ViaAgent(Do("keys"))
OpenURL == ViaAgent(Do("url"))
GetOrientation == ViaAgent(Ask("orientation"))
SetOrientation == ViaAgent(Do("orientation"))
SetAppearance == ViaAgent(Do("appearance"))

---------------------------------------------------------------------------
(* Apps *)

launchApp(what) ==
  Check("bundle id") ** Check("no activity") ** Tunnelled ** Service("process control") ** Do(what)
LaunchApp == launchApp("launch")

TerminateApp ==
  Check("bundle id") ** Tunnelled ** Service("process control") ** Service("installation proxy")
    ** Ask("apps") ** Check("installed") ** Service("device info") ** Ask("processes")
    ** Check("running") ** Do("terminate")

ListApps == Tunnelled ** Service("installation proxy") ** Ask("apps")

wdaForegroundApp(listApps) == ViaAgent(Ask("active app")) ** listApps
GetForegroundApp == wdaForegroundApp(ListApps)

InstallApp == Tunnelled ** Service("zipconduit") ** Do("install")
ClearApp == Reject("not supported")
UninstallApp == Tunnelled ** Service("installation proxy") ** Do("uninstall")

---------------------------------------------------------------------------
(* The broadcast picker: two or three taps, each after a poll *)

\* A dump that fails is repeated until the time is up.
waitForPickerButton == ViaAgent(Ask("button shows up"))
findRecordButton == Check("record button")
tapCenter == ViaAgent(Do("picker tap"))
tapRecordButtonIfVisible == Optional(findRecordButton ** tapCenter)
clickStartBroadcastButton ==
  tapRecordButtonIfVisible ** waitForPickerButton ** tapCenter ** waitForPickerButton ** tapCenter

---------------------------------------------------------------------------
(* Screen capture *)

launchDeviceKitApp == launchApp("capture app")
dismissDeviceKitApp == Attempt(PressButton)
\* The app that captures is launched, and told to by taps on its screen.
StartDeviceKitAvc ==
  Ask("tunnel") ** ListApps ** Check("capture app") ** Take("avc forwarders")
    ** Undoing({"avc forwarders"},
               Ask("listening") ** launchDeviceKitApp ** StartAgent ** clickStartBroadcastButton)
    ** Keep("avc forwarders") ** dismissDeviceKitApp

\* The stream that the subscribers of AvcHub share.
ensureDeviceKitAvcRunning == (Ask("running") ** Ask("forwarders")) | StartDeviceKitAvc
startAvcStream == ensureDeviceKitAvcRunning ** Temp("avc stream") ** Attempt(Do("bitrate"))
StartScreenCapture ==
  startAvcStream | (ViaAgent(Check("agent port")) ** Ask("mjpeg stream"))

sendAvcControl(P) == Check("live stream") ** P
SetAvcBitrate == sendAvcControl(Do("bitrate"))
RequestAvcKeyFrame == sendAvcControl(Ask("key frame"))

---------------------------------------------------------------------------
(* Crashes and logs *)

ListCrashReports == getEnhancedDevice ** Ask("reports")
GetCrashReport ==
  Check("crash id") ** getEnhancedDevice ** Temp("report directory") ** Ask("download")
    ** Check("report found")

\* The reading goroutine ends when the connection is closed.
StreamLogs == Tunnelled ** Temp("os_trace connection") ** Optional(Ask("next entry"))

---------------------------------------------------------------------------
(* Files: listing only *)

iosBrowseAllApps == getEnhancedDevice ** Service("installation proxy") ** Ask("apps")
bundleIDForContainerUUID == iosBrowseAllApps ** Check("container of an app")
resolveAfcClientAndPath ==
  getEnhancedDevice ** Optional(bundleIDForContainerUUID) ** Take("afc connection")
GetAppContainerPath == Ask("tunnel") ** iosBrowseAllApps ** Check("container")
\* What cannot be listed is looked at as a file.
ListFiles ==
  Ask("tunnel") ** resolveAfcClientAndPath ** Defer("afc connection")
    ** OrElse(Ask("list"), Ask("stat"))
PushFile == Reject("not implemented")
PullFile == Reject("not implemented")
Mkdir == Reject("not implemented")
Rm == Reject("not implemented")

---------------------------------------------------------------------------
(* Location: the override of iOS 17+ lasts as long as the connection       *)

locationDevice == Tunnelled
newLocationService ==
  Take("location connection") ** Undoing({"location connection"}, Do("location"))
    ** Keep("location connection")
SetLocation ==
  locationDevice
    ** (Do("location") | OrElse(Do("location"), newLocationService) | newLocationService)
stopHeldLocationSimulation == Do("location off")
ClearLocation ==
  stopHeldLocationSimulation | (locationDevice ** (Reject("not held here") | Do("location off")))

---------------------------------------------------------------------------
(* The agent injected into the app in front *)

\* The forwarder that found an agent is remembered by its port only.
findRunningDeviceAgent ==
  Ask("free port") ** Take("forward to the injected agent")
    ** Undoing({"forward to the injected agent"}, Ask("agent answers"))
forwardToAgent ==
  Ask("free port") ** Take("forward to the injected agent") ** Ask("agent answers")
iosDeviceDebugProxyPort == Check("rsd supported") ** Check("debug proxy")

\* While the debugger is attached the app stands still.
startLLDBProxy ==
  Ask("debug proxy") ** Take("debugger")
    ** Undoing({"debugger"}, Ask("attached") ** Ask("listening"))
injectServerViaLLDB == Ask("lldb") ** Check("agent port")
injectFreshAgent ==
  getEnhancedDevice ** iosDeviceDebugProxyPort ** StartAgent ** ViaAgent(Ask("active app"))
    ** Check("app in front") ** startLLDBProxy ** Defer("debugger") ** injectServerViaLLDB
    ** forwardToAgent
ensureIOSDeviceAgentReady ==
  Ask("cached port answers")
    | (Ask("tunnel") ** OrElse(findRunningDeviceAgent, injectFreshAgent))
agentCall(P) == ensureIOSDeviceAgentReady ** P

ListWebViews == agentCall(Ask("webview list")) ** Check("response")
WebViewGoto == agentCall(Do("webview goto"))
WebViewReload == agentCall(Do("webview reload"))
WebViewGoBack == agentCall(Do("webview back"))
WebViewGoForward == agentCall(Do("webview forward"))
WebViewEvaluate == agentCall(Do("webview evaluate")) ** Check("evaluate result")
WebViewContent == agentCall(Ask("webview content")) ** Check("evaluate result") ** Check("string")
WebViewWaitForLoadState == agentCall(Ask("webview load state"))

---------------------------------------------------------------------------
(* View trees: that of a Flutter app, if the app in front is one *)

installedAppAdvertisesDartVMService ==
  getEnhancedDevice ** Service("installation proxy") ** Ask("user apps")
\* Whatever cannot be found out means "perhaps"; the verdict is kept for the process.
foregroundFlutterCandidate ==
  Try(ViaAgent(Ask("active app")),
      Check("dart vm service")
        | Try(installedAppAdvertisesDartVMService, Check("dart vm service"), Skip),
      Skip)
dumpFlutterSourceDevice ==
  Check("uri") ** Ask("free port") ** Temp("forward to the VM service") ** Ask("flutter tree")
\* Bonjour first; LLDB only if it has no answer.
tryDumpFlutterSource ==
  foregroundFlutterCandidate
    ** Try(Ask("bonjour"), dumpFlutterSourceDevice,
           agentCall(Ask("vm service uri")) ** Check("response") ** dumpFlutterSourceDevice)
DumpSource == OrElse(tryDumpFlutterSource, ViaAgent(Ask("source")))
DumpSourceRaw == ViaAgent(Ask("source"))

---------------------------------------------------------------------------
(* The device, as the commands see it *)

IOSDevice ==
  [class |-> "ios",
   StartAgent |-> StartAgent, Info |-> Info, TakeScreenshot |-> TakeScreenshot,
   StartScreenCapture |-> StartScreenCapture, Tap |-> Tap, LongPress |-> LongPress, Swipe |-> Swipe,
   Gesture |-> Gesture, GetClipboard |-> GetClipboard, SetClipboard |-> SetClipboard,
   PressButton |-> PressButton, PressKeys |-> PressKeys, SendKeys |-> SendKeys, OpenURL |-> OpenURL,
   LaunchApp |-> LaunchApp, TerminateApp |-> TerminateApp, ListApps |-> ListApps,
   GetForegroundApp |-> GetForegroundApp, GetAppContainerPath |-> GetAppContainerPath,
   InstallApp |-> InstallApp, ClearApp |-> ClearApp, UninstallApp |-> UninstallApp,
   GetOrientation |-> GetOrientation, SetOrientation |-> SetOrientation,
   SetAppearance |-> SetAppearance, DumpSource |-> DumpSource, DumpSourceRaw |-> DumpSourceRaw,
   ListCrashReports |-> ListCrashReports, GetCrashReport |-> GetCrashReport,
   StreamLogs |-> StreamLogs, PushFile |-> PushFile, PullFile |-> PullFile, ListFiles |-> ListFiles,
   Mkdir |-> Mkdir, Rm |-> Rm, Boot |-> Boot, Shutdown |-> Shutdown, Reboot |-> Reboot,
   SetAvcBitrate |-> SetAvcBitrate, RequestAvcKeyFrame |-> RequestAvcKeyFrame,
   SetLocation |-> SetLocation, ClearLocation |-> ClearLocation, ListWebViews |-> ListWebViews,
   WebViewGoto |-> WebViewGoto, WebViewReload |-> WebViewReload, WebViewGoBack |-> WebViewGoBack,
   WebViewGoForward |-> WebViewGoForward, WebViewEvaluate |-> WebViewEvaluate,
   WebViewContent |-> WebViewContent, WebViewWaitForLoadState |-> WebViewWaitForLoadState]
=============================================================================
