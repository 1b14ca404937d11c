----------------------------- MODULE CommandOps -----------------------------
(***************************************************************************)
(* What each command does with a device d (commands/*.go), and what the    *)
(* handlers of the server check before they run it (server/*.go): a        *)
(* procedure for every method, and for the commands only the CLI has.      *)
(* The device tables come from AndroidOps, IosOps, SimulatorOps and        *)
(* RemoteOps.                                                              *)
(***************************************************************************)
EXTENDS HostOps

Android == INSTANCE AndroidOps
Ios == INSTANCE IosOps
Simulator == INSTANCE SimulatorOps
Remote == INSTANCE RemoteOps

Classes == {"android", "ios", "simulator", "remote"}

\* What each class of device does.
Devices ==
  [android |-> Android!AndroidDevice, ios |-> Ios!IOSDevice,
   simulator |-> Simulator!SimulatorDevice, remote |-> Remote!RemoteDevice]

\* The platform and type a device gives for itself.  A device of the fleet has
\* those that the service lists, and the commands take it at its word.
Kinds(d) ==
  [android |-> {"android"}, ios |-> {"real iOS"}, simulator |-> {"iOS simulator"},
   remote |-> {"android", "real iOS", "iOS simulator", "other"}][d.class]
ByKind(d, procedure) == OneOf({procedure[kind] : kind \in Kinds(d)})

---------------------------------------------------------------------------
(* Finding the device (DeviceCache has the cache)                          *)

\* A platform that cannot be listed counts as having no devices.
GetAllControllableDevices ==
  [android |-> Attempt(Android!GetAndroidDevices) ** Attempt(Android!getOfflineAndroidEmulators),
   ios |-> Attempt(Ask("usbmuxd")),
   simulator |-> Attempt(Simulator!GetSimulators ** Simulator!filterSimulatorsByDownloadsDirectory),
   remote |-> Attempt(Remote!FetchRemoteDevices)]
DevicesCommand(d) == GetAllControllableDevices[d.class]

FindDevice == Ask("find device")
FindDeviceOrAutoSelect == FindDevice ** Optional(Check("one device is online"))
FindDeviceWithAgent(d) == FindDeviceOrAutoSelect ** d.StartAgent

---------------------------------------------------------------------------
(* Input *)

findElementByRef == Check("element found")
resolveRefTapPoint(d) == d.DumpSource ** findElementByRef
\* By coordinates, or by the reference of an element of a fresh dump.
PointOf(d) ==
  (Check("coordinates") ** FindDeviceWithAgent(d))
    | (FindDeviceWithAgent(d) ** resolveRefTapPoint(d))
TapCommand(d) == PointOf(d) ** d.Tap
LongPressCommand(d) == PointOf(d) ** d.LongPress
SwipeCommand(d) == FindDeviceWithAgent(d) ** d.Swipe
TextCommand(d) == Check("text") ** FindDeviceWithAgent(d) ** d.SendKeys
ButtonCommand(d) == Check("button") ** FindDeviceWithAgent(d) ** d.PressButton
GestureCommand(d) ==
  Check("actions") ** FindDeviceWithAgent(d) ** Check("actions decoded") ** d.Gesture
screenCenter(d) == d.Info ** Check("screen size")
PinchCommand(d) ==
  Check("direction") ** FindDeviceWithAgent(d) ** Optional(screenCenter(d)) ** Check("distance")
    ** d.Gesture
\* All combinations are parsed before the device is looked for.
KeysCommand(d) ==
  Check("keys") ** Check("combinations") ** FindDeviceWithAgent(d) ** d.PressKeys

ClipboardGetCommand(d) == FindDeviceWithAgent(d) ** d.GetClipboard
ClipboardSetCommand(d) == FindDeviceWithAgent(d) ** d.SetClipboard
URLCommand(d) == Check("url") ** FindDeviceWithAgent(d) ** d.OpenURL
OrientationGetCommand(d) == FindDeviceWithAgent(d) ** d.GetOrientation
OrientationSetCommand(d) ==
  Check("orientation") ** FindDeviceWithAgent(d) ** d.SetOrientation

---------------------------------------------------------------------------
(* Screen *)

resolveScreenWidthForClip(d) == Optional(Check("clip") ** d.Info ** Check("screen size"))
\* fault: the width is asked for as soon as the clip is known.
ScreenshotWidthFirst(d) ==
  FindDeviceOrAutoSelect ** Check("format") ** Check("scale") ** resolveScreenWidthForClip(d)
    ** d.StartAgent ** d.TakeScreenshot
    ** Optional(Check("path") ** Check("file written"))
ScreenshotCommand(d) ==
  FindDeviceOrAutoSelect ** Check("format") ** Check("scale") ** d.StartAgent
    ** resolveScreenWidthForClip(d) ** d.TakeScreenshot
    ** Optional(Check("path") ** Check("file written"))
DumpUICommand(d) == FindDeviceWithAgent(d) ** (d.DumpSource | d.DumpSourceRaw)
InfoCommand(d) == FindDeviceWithAgent(d) ** d.Info

\* What could not be converted stays as it is.
screenRecordAvc(d) ==
  Temp("avc file") ** Ios!startAvcStream ** Check("data captured")
    ** Take("output file") ** Check("converted") ** Keep("output file")
\* Real iOS devices record the stream of their captures; Recorder has the sessions.
ScreenRecordCommand(d) ==
  FindDeviceOrAutoSelect ** d.StartAgent
    ** IF d.class = "ios" THEN screenRecordAvc(d) ELSE d.ScreenRecord

---------------------------------------------------------------------------
(* Power *)

BootCommand(d) == FindDeviceOrAutoSelect ** d.Boot
ShutdownCommand(d) == FindDeviceOrAutoSelect ** d.Shutdown
RebootCommand(d) == FindDeviceOrAutoSelect ** d.Reboot

---------------------------------------------------------------------------
(* Apps *)

LaunchAppCommand(d) == Check("bundle id") ** FindDeviceOrAutoSelect ** d.LaunchApp
TerminateAppCommand(d) == Check("bundle id") ** FindDeviceOrAutoSelect ** d.TerminateApp
ListAppsCommand(d) == FindDeviceOrAutoSelect ** d.ListApps
ForegroundAppCommand(d) == FindDeviceWithAgent(d) ** d.GetForegroundApp
AppPathCommand(d) == Check("bundle id") ** FindDeviceOrAutoSelect ** d.GetAppContainerPath
ClearAppCommand(d) == Check("bundle id") ** FindDeviceOrAutoSelect ** d.ClearApp
UninstallAppCommand(d) == Check("package name") ** FindDeviceOrAutoSelect ** d.UninstallApp
\* Only an .ipa for a real iOS device can be signed again.
InstallAppCommand(d) ==
  LET resigned == [kind \in Kinds(d) |->
        IF kind = "real iOS" THEN ResignIPA("resigned ipa") ** Defer("resigned ipa")
                             ELSE Reject("not a real iOS device")]
  IN Check("path") ** FindDeviceOrAutoSelect
       ** Optional(Check(".ipa") ** ByKind(d, resigned)) ** d.InstallApp ** ParseAppMetadata

---------------------------------------------------------------------------
(* The agent *)

findInstalledAgent(d) == Attempt(d.ListApps)
waitForAgentInstalled(d) == findInstalledAgent(d) ** Check("agent shows up")
downloadAndInstallAgent(d, transform) ==
  DownloadFile ** Check("checksum pinned") ** SHA256File ** Check("checksum") ** transform
    ** d.InstallApp ** waitForAgentInstalled(d)
installAgentOnSimulator(d) == Temp("agent directory") ** downloadAndInstallAgent(d, Skip)
installAgentOnRealIOS(d) ==
  Temp("agent directory")
    ** downloadAndInstallAgent(d, ResignIPA("resigned agent") ** Defer("resigned agent"))
installAgent(d, kind) ==
  CASE kind = "iOS simulator" -> installAgentOnSimulator(d)
    [] kind = "real iOS" -> Check("provisioning profile") ** installAgentOnRealIOS(d)
    [] OTHER -> Reject("unsupported device type")

\* Android brings its helpers along.
withAgentPackage(d, procedure) ==
  LET needed == [kind \in Kinds(d) |-> IF kind = "android" THEN Skip ELSE procedure[kind]]
  IN FindDeviceOrAutoSelect ** ByKind(d, needed)

AgentStatusCommand(d) ==
  LET found == [kind \in Kinds(d) |-> findInstalledAgent(d)]
  IN withAgentPackage(d, found)
\* The agent of this version stays, unless the request insists; one of another
\* version goes before the new one comes.
AgentInstallCommand(d) ==
  LET fresh(kind) == installAgent(d, kind) ** findInstalledAgent(d) ** Check("agent found")
      install == [kind \in Kinds(d) |->
        OneOf({fresh(kind), findInstalledAgent(d),
               findInstalledAgent(d) ** fresh(kind),
               findInstalledAgent(d) ** d.UninstallApp ** fresh(kind)})]
  IN withAgentPackage(d, install)
AgentUninstallCommand(d) ==
  LET uninstall == [kind \in Kinds(d) |-> findInstalledAgent(d) ** Optional(d.UninstallApp)]
  IN withAgentPackage(d, uninstall)

---------------------------------------------------------------------------
(* Settings and location *)

applyAnimations(d) ==
  Check("animations value") ** (IF d.class = "android" THEN d.SetAnimationsEnabled ELSE Skip)
applyAppearance(d) == Check("appearance value") ** d.SetAppearance
\* Only the appearance needs the agent.
ApplySettingsCommand(d) ==
  (FindDeviceOrAutoSelect ** Optional(applyAnimations(d)))
    | (FindDeviceWithAgent(d) ** Optional(applyAnimations(d)) ** applyAppearance(d))

\* Devices of the fleet cannot.
locationSettable(d, operation) ==
  FindDeviceOrAutoSelect ** IF d.class = "remote" THEN Reject("location not supported") ELSE operation
LocationSetCommand(d) ==
  Check("coordinates") ** locationSettable(d, d.SetLocation)
LocationClearCommand(d) == locationSettable(d, d.ClearLocation)

---------------------------------------------------------------------------
(* Crashes, logs, files *)

CrashesListCommand(d) == FindDeviceOrAutoSelect ** d.ListCrashReports
CrashesGetCommand(d) == FindDeviceOrAutoSelect ** d.GetCrashReport
\* An entry that cannot be written ends the stream.
LogsCommand(d) == FindDeviceOrAutoSelect ** d.StreamLogs ** Optional(Check("written"))

FsPushCommand(d) ==
  Check("paths") ** Check("local file") ** FindDeviceOrAutoSelect ** d.PushFile
FsPullCommand(d) == Check("paths") ** FindDeviceOrAutoSelect ** d.PullFile
FsListCommand(d) == FindDeviceOrAutoSelect ** d.ListFiles
FsMkdirCommand(d) == Check("path") ** FindDeviceOrAutoSelect ** d.Mkdir
FsRmCommand(d) == Check("path") ** FindDeviceOrAutoSelect ** d.Rm

---------------------------------------------------------------------------
(* Web views; devices of the fleet have none *)

webViewable(d, operation) ==
  FindDeviceOrAutoSelect ** IF d.class = "remote" THEN Reject("no web views") ELSE operation

WebViewListCommand(d) == webViewable(d, d.ListWebViews)
WebViewGotoCommand(d) == webViewable(d, d.WebViewGoto)
WebViewReloadCommand(d) == webViewable(d, d.WebViewReload)
WebViewGoBackCommand(d) == webViewable(d, d.WebViewGoBack)
WebViewGoForwardCommand(d) == webViewable(d, d.WebViewGoForward)
WebViewContentCommand(d) == webViewable(d, d.WebViewContent)
WebViewEvaluateCommand(d) == webViewable(d, d.WebViewEvaluate)
WebViewQueryCommand(d) == WebViewEvaluateCommand(d)
WebViewWaitForLoadStateCommand(d) == webViewable(d, d.WebViewWaitForLoadState)
=============================================================================
