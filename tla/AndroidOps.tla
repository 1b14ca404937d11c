----------------------------- MODULE AndroidOps -----------------------------
(***************************************************************************)
(* What an Android device is asked by one request: android.go,             *)
(* android_fs.go, android_webview.go.  Every question and command is an    *)
(* adb command line or a call of the on-device server.                     *)
(***************************************************************************)
EXTENDS HostOps

\* serverRequest: the server is started if need be (AndroidServer), then asked.
Server(P) == Ask("device server") ** P

---------------------------------------------------------------------------
(* Discovery and state *)

\* A device whose properties cannot be read is left out of the list.
parseAdbDevicesOutput ==
  Attempt(Ask("avd name") ** Ask("model") ** Ask("version")) ** Attempt(Ask("device name"))

\* An adb that cannot be run means no devices; one that fails is an error.
GetAndroidDevices == Skip | (Check("adb status") ** parseAdbDevicesOutput)

\* AVDs that cannot be read are left out.
getOfflineAndroidEmulators == Check("home directory") ** Attempt(Ask("avd config"))

StartAgent == Check("online") ** AgentStarted

waitForEmulatorBootComplete == Attempt(GetAndroidDevices) ** Ask("boot completed")

\* An emulator that does not come up is killed.
Boot == Check("offline") ** Do("boot") ** Undoing({"boot"}, waitForEmulatorBootComplete)

Reboot == Do("reboot")

Shutdown == Check("emulator") ** Check("online") ** Do("shutdown")

Info == Ask("wm size") ** Check("width") ** Check("height")

---------------------------------------------------------------------------
(* Screenshots, captures, recordings *)

takeScreenshotWithDex ==
  Check("format") ** Server(Ask("screenshot")) ** Check("response") ** Check("magic bytes")

\* Neither the number of displays nor the name of the active one can fail.
getFirstDisplayId == OrElse(Ask("get-displays"), Attempt(Ask("dumpsys display")))
captureScreenshot == Ask("screencap")
takeScreenshotWithScreencap ==
  Attempt(Ask("display count")) ** Optional(getFirstDisplayId) ** captureScreenshot

TakeScreenshot ==
  OrElse(takeScreenshotWithDex, takeScreenshotWithScreencap ** ProcessScreenshot)

\* A file is pushed under a name of its own and renamed into place.
pushTempFile(file) ==
  Temp("host temp file") ** Check("written") ** Check("random name")
    ** Undoing({file \o ".tmp"}, Take(file \o ".tmp") ** Ask("mv")) ** Drop(file \o ".tmp")

StartScreenCapture ==
  Check("format") ** pushTempFile("dex") ** Check("stdout pipe") ** Take("capture process")
    ** Drop("capture process")

\* adb has no way to stop it but a signal to the process on the device.
signalRemoteScreenRecord == Attempt(Ask("pgrep") ** Ask("kill -INT"))

ScreenRecord ==
  Take("recording on the device") ** Optional(signalRemoteScreenRecord) ** Ask("pull")
    ** Drop("recording on the device")

---------------------------------------------------------------------------
(* Input and the clipboard *)

Tap == Server(Do("tap"))
LongPress == Server(Do("longpress"))
Swipe == Server(Do("swipe"))
Gesture == Server(Do("gesture"))

GetClipboard == Server(Ask("clipboard")) ** Check("response")
SetClipboard == Server(Do("clipboard"))

PressButton == Check("button name") ** Server(Do("button"))

\* Every combination is resolved before a key is pressed.
PressKeys == Optional(Check("keycodes") ** Check("modifiers") ** Server(Do("keys")))

\* What is not ASCII is pasted; the clipboard is emptied afterwards, best effort.
SendKeys ==
  Skip | PressButton | Server(Do("text"))
    | (SetClipboard ** Try(Server(Do("paste")), Attempt(SetClipboard),
                           Attempt(SetClipboard) ** Reject("not pasted")))

OpenURL == Do("url")

---------------------------------------------------------------------------
(* Apps *)

setAppLocales == Check("locale tags") ** Do("app locales")
buildLaunchComponent == Check("activity")
resolveLauncherActivity == Ask("launcher activity") ** Check("found")
LaunchApp ==
  Optional(setAppLocales) ** (buildLaunchComponent | resolveLauncherActivity) ** Do("launch")

TerminateApp == Do("terminate")

listAllPackages == Server(Ask("package list")) ** Check("response")
listLaunchableApps == Ask("launcher activities") ** listAllPackages
ListApps == listLaunchableApps | listAllPackages

getForegroundComponent == Ask("window displays") ** Check("focus")
GetAppVersion == Ask("dumpsys package")
\* Retried for 5 s; without the list of packages the package name is the name.
GetForegroundApp ==
  getForegroundComponent ** GetAppVersion ** Attempt(listAllPackages)

GetAppContainerPath == Ask("pm dump") ** Check("dataDir")

InstallApp == Do("install")
ClearApp == Do("clear app")
UninstallApp == Do("uninstall")

---------------------------------------------------------------------------
(* Settings *)

GetOrientation == Ask("user_rotation") ** Check("number")
SetOrientation == Check("orientation") ** Do("auto-rotation off") ** Do("orientation")
SetAnimationsEnabled ==
  Do("window animations") ** Do("transition animations") ** Do("animator duration")
SetAppearance == Do("appearance")

setEmulatorLocation == Do("location")
\* fault: a location that was not set leaves the permission to mock one.
KeepsAppop == Do("mock_location appop") ** Server(Do("location"))
\* Real devices take the location from the device server, which the appop allows to mock it.
startMockLocation ==
  Do("mock_location appop") ** Undoing({"mock_location appop"}, Server(Do("location")))
SetLocation == setEmulatorLocation | startMockLocation
\* The appop goes back either way.
ClearLocation ==
  setEmulatorLocation
    | Try(Server(Do("location off")), Do("appop revoked"),
          Attempt(Do("appop revoked")) ** Reject("not removed"))

\* The bit rate and key frames of the capture that is running; the forward is kept.
ensureControlForward == Optional(Ask("forward"))
SetAvcBitrate == ensureControlForward ** Do("bitrate")
RequestAvcKeyFrame == ensureControlForward ** Ask("key frame")

---------------------------------------------------------------------------
(* View trees, crashes, logs *)

dumpUiNodes == Server(Ask("ui nodes")) ** Check("response")
getDeviceServerDump == dumpUiNodes ** Check("serialised")
getUiAutomatorDump == Ask("uiautomator dump") ** Check("xml found")
DumpSourceRaw == OrElse(getDeviceServerDump, getUiAutomatorDump)

getCrashLog == Ask("logcat crash")
ListCrashReports == getCrashLog
GetCrashReport == getCrashLog ** Check("crash id")

\* A pid without a process name is remembered too.
resolveProcessNameByPid == Attempt(Ask("cmdline"))
StreamLogs ==
  Check("stdout pipe") ** Take("logcat") ** Optional(resolveProcessNameByPid) ** Drop("logcat")
    ** Optional(Check("scanner") ** Check("exit status"))

---------------------------------------------------------------------------
(* Files *)

\* A path of /data/user/ goes through run-as, and needs a package name.
buildShellCommand == Check("package name")

PushFile ==
  Do("push")
    | (Take("file in /data/local/tmp") ** buildShellCommand
            ** ((Do("push") ** Drop("file in /data/local/tmp") ** Check("rm"))
                  | (Drop("file in /data/local/tmp") ** Reject("copy failed"))))

PullFile == buildShellCommand ** Ask("cat") ** Check("local file")

\* A path that is not a directory is listed again without the trailing slash.
ListFiles == buildShellCommand ** OrElse(Ask("ls dir"), Ask("ls file"))

Mkdir == buildShellCommand ** Do("mkdir")
Rm == buildShellCommand ** Do("rm")

---------------------------------------------------------------------------
(* Web views: an agent attached to a debuggable app, behind an adb forward *)

\* A private copy is made executable and renamed over the one the app may have mapped.
copyToAppDir(file) ==
  Ask("mkdir") ** Check("random name")
    ** Undoing({file \o " in app.tmp"},
               Take(file \o " in app.tmp") ** Ask("chmod") ** Ask("mv in app"))
    ** Drop(file \o " in app.tmp")

\* The data directory falls back to the conventional path.
installWebViewKit ==
  Attempt(Ask("app data directory"))
    ** pushTempFile("so") ** copyToAppDir("so") ** pushTempFile("dex") ** copyToAppDir("dex")

attachAgentAndWait == Ask("pidof") ** Ask("attach-agent") ** Ask("agent ready")

\* The forward is kept for the next call, whatever becomes of this one.
ensureAgentReady ==
  Ask("forward works")
    | (installWebViewKit ** attachAgentAndWait)
    | (Check("debuggable") ** installWebViewKit ** Ask("forward") ** Optional(attachAgentAndWait))

\* Retried for 3 s.
getWebViewPort == GetForegroundApp ** ensureAgentReady

ListWebViews == getWebViewPort ** Ask("webview list") ** Check("response")
WebViewGoto == getWebViewPort ** Do("webview goto")
WebViewReload == getWebViewPort ** Do("webview reload")
WebViewGoBack == getWebViewPort ** Do("webview back")
WebViewGoForward == getWebViewPort ** Do("webview forward")
webViewEvaluate == Do("webview evaluate") ** Check("evaluate result")
WebViewEvaluate == getWebViewPort ** webViewEvaluate
\* Evaluates an expression that changes nothing.
WebViewContent == getWebViewPort ** Ask("outerHTML") ** Check("evaluate result") ** Check("string")
webViewWaitForLoadState == Ask("webview load state")
WebViewWaitForLoadState == getWebViewPort ** webViewWaitForLoadState

---------------------------------------------------------------------------
(* View trees: FlutterVM models the walk; its failure leads on to the      *)
(* accessibility dump.                                                     *)

flutterVMServiceURI == ensureAgentReady ** Ask("vm service uri") ** Check("uri")
dumpFlutterSource ==
  Check("uri pattern") ** Temp("forward to the vm service") ** Attempt(Ask("wm density"))
    ** Ask("flutter tree")
tryDumpFlutterSource ==
  GetForegroundApp ** Ask("debuggable") ** flutterVMServiceURI ** dumpFlutterSource
DumpSource ==
  OrElse(tryDumpFlutterSource, OrElse(dumpUiNodes, getUiAutomatorDump ** Check("xml parsed")))

---------------------------------------------------------------------------
(* The device, as the commands see it *)

AndroidDevice ==
  [class |-> "android",
   StartAgent |-> StartAgent, Info |-> Info, TakeScreenshot |-> TakeScreenshot,
   StartScreenCapture |-> StartScreenCapture, ScreenRecord |-> ScreenRecord,
   Tap |-> Tap, LongPress |-> LongPress, Swipe |-> Swipe,
   Gesture |-> Gesture, GetClipboard |-> GetClipboard, SetClipboard |-> SetClipboard,
   PressButton |-> PressButton, PressKeys |-> PressKeys, SendKeys |-> SendKeys, OpenURL |-> OpenURL,
   LaunchApp |-> LaunchApp, TerminateApp |-> TerminateApp, ListApps |-> ListApps,
   GetForegroundApp |-> GetForegroundApp, GetAppContainerPath |-> GetAppContainerPath,
   InstallApp |-> InstallApp, ClearApp |-> ClearApp, UninstallApp |-> UninstallApp,
   GetOrientation |-> GetOrientation, SetOrientation |-> SetOrientation,
   SetAppearance |-> SetAppearance, DumpSource |-> DumpSource, DumpSourceRaw |-> DumpSourceRaw,
   ListCrashReports |-> ListCrashReports, GetCrashReport |-> GetCrashReport,
   StreamLogs |-> StreamLogs, PushFile |-> PushFile, PullFile |-> PullFile, ListFiles |-> ListFiles,
   Mkdir |-> Mkdir, Rm |-> Rm, Boot |-> Boot, Shutdown |-> Shutdown, Reboot |-> Reboot,
   SetAvcBitrate |-> SetAvcBitrate, RequestAvcKeyFrame |-> RequestAvcKeyFrame,
   SetAnimationsEnabled |-> SetAnimationsEnabled, SetLocation |-> SetLocation,
   ClearLocation |-> ClearLocation, ListWebViews |-> ListWebViews, WebViewGoto |-> WebViewGoto,
   WebViewReload |-> WebViewReload, WebViewGoBack |-> WebViewGoBack,
   WebViewGoForward |-> WebViewGoForward, WebViewEvaluate |-> WebViewEvaluate,
   WebViewContent |-> WebViewContent, WebViewWaitForLoadState |-> WebViewWaitForLoadState]
=============================================================================
