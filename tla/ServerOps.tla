----------------------------- MODULE ServerOps ------------------------------
(***************************************************************************)
(* What the handlers of the server check before they run a command         *)
(* (server.go, webview_handlers.go, forward.go), and the table of methods  *)
(* (dispatch.go).  The sessions of recordings and streams are in Recorder  *)
(* and StreamSessions, the shutdown in DaemonLifecycle.                    *)
(***************************************************************************)
EXTENDS CommandOps, TLC

\* The parameters are there and decode.
params == Check("params")

handleDevicesList(d) == params ** DevicesCommand(d)
handleDeviceResolve(d) == params ** FindDeviceOrAutoSelect
handleServerInfo(d) == Skip
handleScreenshot(d) == params ** ScreenshotCommand(d) ** Check("response format")

handleIoTap(d) == params ** TapCommand(d)
handleIoLongPress(d) == params ** LongPressCommand(d)
handleIoSwipe(d) == params ** Check("coordinates present") ** SwipeCommand(d)
handleIoPinch(d) == params ** PinchCommand(d)
handleIoText(d) == params ** TextCommand(d)
handleIoKeys(d) == params ** KeysCommand(d)
handleIoButton(d) == params ** ButtonCommand(d)
handleIoGesture(d) == params ** GestureCommand(d)
handleClipboardGet(d) == params ** ClipboardGetCommand(d)
handleClipboardSet(d) == params ** ClipboardSetCommand(d)
handleURL(d) == params ** URLCommand(d)
handleIoOrientationGet(d) == params ** OrientationGetCommand(d)
handleIoOrientationSet(d) == params ** OrientationSetCommand(d)
handleDumpUI(d) == params ** DumpUICommand(d)
\* The agent is started twice: the second time it is found running.
handleDeviceInfo(d) ==
  params ** FindDeviceOrAutoSelect ** d.StartAgent ** InfoCommand(d)

handleDeviceBoot(d) == params ** BootCommand(d)
handleDeviceShutdown(d) == params ** ShutdownCommand(d)
handleDeviceReboot(d) == params ** RebootCommand(d)
handleLocationSet(d) == params ** Check("coordinates present") ** LocationSetCommand(d)
handleLocationClear(d) == params ** LocationClearCommand(d)
handleSettingsApply(d) == params ** ApplySettingsCommand(d)

handleAppsLaunch(d) == params ** LaunchAppCommand(d)
handleAppsTerminate(d) == params ** TerminateAppCommand(d)
handleAppsList(d) == params ** ListAppsCommand(d)
handleAppsForeground(d) == params ** ForegroundAppCommand(d)
handleAppsInstall(d) == params ** InstallAppCommand(d)
handleAppsUninstall(d) == params ** UninstallAppCommand(d)
handleAppsClear(d) == params ** ClearAppCommand(d)
handleAppsPath(d) == params ** AppPathCommand(d)
handleCrashesList(d) == params ** CrashesListCommand(d)
handleCrashesGet(d) == params ** Check("id") ** CrashesGetCommand(d)

\* Tickets for streams; StreamSessions has what becomes of them.
handleScreenCaptureSession(d) ==
  LET streamable == [kind \in Kinds(d) |->
        IF kind = "iOS simulator" THEN Check("not avc") ELSE Skip]
  IN params ** Check("format") ** FindDeviceOrAutoSelect ** ByKind(d, streamable)
handleLogsSession(d) == params ** Check("limit") ** Check("filters") ** FindDeviceOrAutoSelect

\* The streams themselves are methods of the daemon only.
streamLogs(d) == params ** Check("filters") ** LogsCommand(d)
streamScreenCapture(d) ==
  params ** FindDeviceOrAutoSelect ** d.StartAgent ** d.StartScreenCapture
streamScreenRecord(d) == params ** ScreenRecordCommand(d)
\* The stream that is running takes the new settings.
avcControl(d, operation) ==
  FindDeviceOrAutoSelect
    ** IF d.class \in {"android", "ios"} THEN operation ELSE Reject("not supported")
handleScreenCaptureSetConfiguration(d) ==
  params ** Check("bitrate") ** avcControl(d, d.SetAvcBitrate)
handleScreenCaptureRequestKeyFrame(d) == params ** avcControl(d, d.RequestAvcKeyFrame)

---------------------------------------------------------------------------
(* Files: small ones, through a temporary file of the host                 *)

handleFsLs(d) == params ** FsListCommand(d)
\* The size is asked first, and checked again once the bytes are here.
handleFsPull(d) ==
  params ** FsListCommand(d) ** Check("size") ** Temp("pulled file") ** FsPullCommand(d)
    ** Check("readable") ** Check("size of the bytes")
handleFsPush(d) ==
  params ** Check("base64") ** Check("size") ** Temp("file to push") ** Check("written")
    ** FsPushCommand(d)
handleFsMkdir(d) == params ** FsMkdirCommand(d)
handleFsRm(d) == params ** FsRmCommand(d)

---------------------------------------------------------------------------
(* Web views *)

requireWebViewParams == params ** Check("device id") ** Check("web view id")
handleWebViewList(d) == params ** Check("device id") ** WebViewListCommand(d)
handleWebViewGoto(d) == requireWebViewParams ** Check("url") ** WebViewGotoCommand(d)
handleWebViewReload(d) == requireWebViewParams ** WebViewReloadCommand(d)
handleWebViewGoBack(d) == requireWebViewParams ** WebViewGoBackCommand(d)
handleWebViewGoForward(d) == requireWebViewParams ** WebViewGoForwardCommand(d)
handleWebViewContent(d) == requireWebViewParams ** WebViewContentCommand(d)
\* The url and the title are evaluated too.
evaluateFixedExpression(d) == requireWebViewParams ** WebViewEvaluateCommand(d)
handleWebViewQuery(d) == requireWebViewParams ** Check("selector") ** WebViewQueryCommand(d)
handleWebViewEvaluate(d) ==
  requireWebViewParams ** Check("expression") ** WebViewEvaluateCommand(d)
handleWebViewWaitForLoadState(d) == requireWebViewParams ** WebViewWaitForLoadStateCommand(d)

---------------------------------------------------------------------------
(* Every method, and the commands only the CLI has, as a procedure for     *)
(* each class of device                                                    *)

GetMethodRegistry(d) ==
  [devices_list |-> handleDevicesList(d), device_resolve |-> handleDeviceResolve(d),
   screenshot |-> handleScreenshot(d), server_info |-> handleServerInfo(d),
   screencapture_session |-> handleScreenCaptureSession(d),
   logs_session |-> handleLogsSession(d),
   setConfiguration |-> handleScreenCaptureSetConfiguration(d),
   requestKeyFrame |-> handleScreenCaptureRequestKeyFrame(d),
   tap |-> handleIoTap(d), longpress |-> handleIoLongPress(d), text |-> handleIoText(d),
   keys |-> handleIoKeys(d), button |-> handleIoButton(d), swipe |-> handleIoSwipe(d),
   pinch |-> handleIoPinch(d), gesture |-> handleIoGesture(d),
   clipboard_get |-> handleClipboardGet(d), clipboard_set |-> handleClipboardSet(d),
   url |-> handleURL(d), info |-> handleDeviceInfo(d),
   orientation_get |-> handleIoOrientationGet(d), orientation_set |-> handleIoOrientationSet(d),
   boot |-> handleDeviceBoot(d), shutdown |-> handleDeviceShutdown(d),
   reboot |-> handleDeviceReboot(d), location_set |-> handleLocationSet(d),
   location_clear |-> handleLocationClear(d), settings_apply |-> handleSettingsApply(d),
   dump_ui |-> handleDumpUI(d), apps_launch |-> handleAppsLaunch(d),
   apps_terminate |-> handleAppsTerminate(d), apps_list |-> handleAppsList(d),
   apps_foreground |-> handleAppsForeground(d), apps_install |-> handleAppsInstall(d),
   apps_uninstall |-> handleAppsUninstall(d), apps_clear |-> handleAppsClear(d),
   apps_path |-> handleAppsPath(d), crashes_list |-> handleCrashesList(d),
   crashes_get |-> handleCrashesGet(d), webview_list |-> handleWebViewList(d),
   webview_content |-> handleWebViewContent(d), webview_goto |-> handleWebViewGoto(d),
   webview_reload |-> handleWebViewReload(d), webview_goBack |-> handleWebViewGoBack(d),
   webview_goForward |-> handleWebViewGoForward(d), webview_url |-> evaluateFixedExpression(d),
   webview_title |-> evaluateFixedExpression(d),
   webview_query |-> handleWebViewQuery(d), webview_evaluate |-> handleWebViewEvaluate(d),
   webview_waitForLoadState |-> handleWebViewWaitForLoadState(d),
   fs_ls |-> handleFsLs(d), fs_pull |-> handleFsPull(d), fs_push |-> handleFsPush(d),
   fs_mkdir |-> handleFsMkdir(d), fs_rm |-> handleFsRm(d)]

CLIRegistry(d) ==
  [screencapture |-> streamScreenCapture(d), screenrecord |-> streamScreenRecord(d),
   logs |-> streamLogs(d), agent_status |-> AgentStatusCommand(d),
   agent_install |-> AgentInstallCommand(d), agent_uninstall |-> AgentUninstallCommand(d)]

Fleet ==
  [fleet_allocate |-> Remote!FleetAllocate,
   fleet_get |-> Remote!FleetGetDeviceByAllocation,
   fleet_release |-> Remote!FleetRelease,
   fleet_list |-> Remote!FleetListDevices]

\* What can be asked of the daemon, and of the fleet by the CLI itself.
LOCAL For(d) ==
  GetMethodRegistry(d) @@ CLIRegistry(d) @@ IF d.class = "remote" THEN Fleet ELSE <<>>
Methods == [class \in Classes |-> For(Devices[class])]
=============================================================================
