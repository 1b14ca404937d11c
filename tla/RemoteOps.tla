----------------------------- MODULE RemoteOps ------------------------------
(***************************************************************************)
(* What a device of the fleet is asked by one request (devices/remote.go,  *)
(* remote_fs.go), and the fleet itself (commands/remote.go): calls of a    *)
(* service over HTTP.                                                      *)
(***************************************************************************)
EXTENDS Procedures

\* The fleet starts its agents itself.
StartAgent == AgentStarted

fireRPC(method) == Do(method)
rpcCall(method) == Ask(method) ** Check("response")

TakeScreenshot == rpcCall("screenshot") ** Check("base64")
StartScreenCapture == Reject("not supported")
Info == rpcCall("info")
GetClipboard == rpcCall("clipboard")
GetOrientation == rpcCall("orientation")
ListApps == rpcCall("apps")
GetForegroundApp == rpcCall("foreground app")
DumpSource == rpcCall("source")
DumpSourceRaw == rpcCall("source")
ListCrashReports == rpcCall("crashes")
GetCrashReport == rpcCall("crash")
StreamLogs == Reject("not supported")

Tap == fireRPC("tap")
LongPress == fireRPC("longpress")
Swipe == fireRPC("swipe")
Gesture == fireRPC("gesture")
SetClipboard == fireRPC("clipboard")
SendKeys == fireRPC("text")
PressKeys == fireRPC("keys")
PressButton == fireRPC("button")
OpenURL == fireRPC("url")
LaunchApp == fireRPC("launch")
TerminateApp == fireRPC("terminate")
ClearApp == fireRPC("clear app")
UninstallApp == Reject("not supported")
Boot == fireRPC("boot")
Shutdown == fireRPC("shutdown")
Reboot == fireRPC("reboot")
SetOrientation == fireRPC("orientation")
SetAppearance == fireRPC("appearance")

\* The upload is the service's to discard if the installation fails.
uploadFileToURL ==
  Check("url of the artifacts host") ** Temp("open file") ** Ask("upload") ** Check("status")
InstallApp ==
  Check("path exists") ** rpcCall("uploads.create") ** uploadFileToURL ** fireRPC("install")

\* A download that fails leaves what it has written.
downloadFile ==
  Check("url of the artifacts host") ** Temp("http response") ** Check("status")
    ** Take("partial download") ** Ask("download") ** Keep("partial download")
\* The recording goes on at the service if it cannot be told to stop.
ScreenRecord ==
  Take("remote recording") ** Ask("stop recording") ** Drop("remote recording")
    ** Optional(downloadFile)

ListFiles == Reject("not implemented")
GetAppContainerPath == Reject("not implemented")
PushFile == Reject("not implemented")
PullFile == Reject("not implemented")
Mkdir == Reject("not implemented")
Rm == Reject("not implemented")

---------------------------------------------------------------------------
(* The device, as the commands see it *)

RemoteDevice ==
  [class |-> "remote",
   StartAgent |-> StartAgent, Info |-> Info, TakeScreenshot |-> TakeScreenshot,
   StartScreenCapture |-> StartScreenCapture, ScreenRecord |-> ScreenRecord,
   Tap |-> Tap, LongPress |-> LongPress, Swipe |-> Swipe,
   Gesture |-> Gesture, GetClipboard |-> GetClipboard, SetClipboard |-> SetClipboard,
   PressButton |-> PressButton, PressKeys |-> PressKeys, SendKeys |-> SendKeys, OpenURL |-> OpenURL,
   LaunchApp |-> LaunchApp, TerminateApp |-> TerminateApp, ListApps |-> ListApps,
   GetForegroundApp |-> GetForegroundApp, GetAppContainerPath |-> GetAppContainerPath,
   InstallApp |-> InstallApp, ClearApp |-> ClearApp, UninstallApp |-> UninstallApp,
   GetOrientation |-> GetOrientation, SetOrientation |-> SetOrientation,
   SetAppearance |-> SetAppearance, DumpSource |-> DumpSource, DumpSourceRaw |-> DumpSourceRaw,
   ListCrashReports |-> ListCrashReports, GetCrashReport |-> GetCrashReport,
   StreamLogs |-> StreamLogs, PushFile |-> PushFile, PullFile |-> PullFile, ListFiles |-> ListFiles,
   Mkdir |-> Mkdir, Rm |-> Rm, Boot |-> Boot, Shutdown |-> Shutdown, Reboot |-> Reboot]

---------------------------------------------------------------------------
(* The fleet *)

\* The session is created first, so that the allocation belongs to one.
FleetAllocate == Take("session") ** Do("allocation") ** Keep("session")

fleetListAllocatedDevices == Ask("devices.list") ** Check("response")
FetchRemoteDevices == fleetListAllocatedDevices
FleetGetDeviceByAllocation == fleetListAllocatedDevices ** Check("device found")
\* Page by page until the session that holds the device is found.
findOwningSessionID == Ask("page of sessions") ** Optional(Ask("next page")) ** Check("session found")
FleetRelease == findOwningSessionID ** Do("release")
FleetListDevices == Ask("fleet.listDevices")
=============================================================================
