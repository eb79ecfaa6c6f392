# BuludTechVPN in TLA+

TLA+ models of the parts of BuludTechVPN in which several threads, timers and an
external process share state, the TLC configurations that check them, and TLAPS
proofs of the properties that hold for every value of the constants.

BuludTechVPN is an Android app: a fork of ics-openvpn (`de.blinkt.openvpn`) under a
user interface for public VPN Gate servers (`tk.usagis2.BuludTechVPN`). All of it runs
in one process, next to one native `openvpn` process per VPN session. In the following
`core/` stands for `src/app/src/main/java/de/blinkt/openvpn/core/`.

## 1. The system

### Threads

| Thread | Code it runs |
| --- | --- |
| main looper | activities, intents (`onStartCommand`), broadcasts (`DeviceStateReceiver.onReceive`), delayed runnables, `onRevoke`, `onDestroy` |
| start thread | `OpenVPNService.startOpenVPN()`, a new one for every start |
| management thread | `OpenVpnManagementThread.run()`: lines of the management socket, one per session |
| process thread | `OpenVPNThread.run()`: output and end of the process, one per session |
| log writer | `LogFileHandler.handleMessage()`: messages of `VpnStatus` |
| background thread | `doInBackground()` of all `AsyncTask`s, one after the other |
| `openvpn` process | external; listens to and reports over the management socket |

### Components, their state and what makes them correct

| Component | State | Operations | Correct if |
| --- | --- | --- | --- |
| `DeviceStateReceiver` | `network`, `screen`, `userpause` (three connectStates), last network, delayed disconnect | broadcasts, `userPause`, `updateByteCount`, runnable | the VPN is paused exactly while one of the three speaks against it |
| `OpenVpnManagementThread` | socket, `mWaitingForRelease`, `lastPauseReason`, resume timer, `mShuttingDown`, static `active` | lines `HOLD`, `STATE`, `BYTECOUNT`, ...; `pause`, `resume`, `networkChange`, `stopVPN` | no hold and no release is lost; a stop reaches the process |
| `OpenVPNService` | `mManagement`, `mOpenVPNThread`, `mProcessThread`, `mStarting`, receiver, `mProcessLock` | start, replace, end, revoke, destroy | one process at a time, owned by the service; nothing survives a stop |
| the same, tun set-up | `mLocalIP`, `mLocalIPv6`, `mDnslist`, `mDomain`, `mRoutes`, `mRoutesv6`, `mLastTunCfg` | note an option, `getTunReopenStatus`, `openTun` | a session that is up has the tun its server asked for |
| `OpenVPNThread` | process, `mNoProcessExitStatus`, interrupt flag | run, end | the end of a session is shown, unless it was replaced |
| `VpnStatus` | last state and level, listeners, log buffer | update, query | what is shown agrees with what runs |
| `ProfileManager` | profiles, `LAST_CONNECTED_PROFILE` | load, save, connect, disconnect | a restarted service finds the profile of the running VPN, and only of it |
| `DisconnectVPN` | the open dialog | confirm, cancel | a confirmed disconnect stops the VPN |
| `LogFileHandler` | message queue, log cache file | init, append, trim, flush, recover | no line is lost or comes back after it was cleared; recovery loses no complete record |
| `TrafficHistory` | thinned history | add | it stays bounded and ordered |
| `NetworkSpace`, `CIDRIP` | `mIpAddresses` | add, split, merge, clear | the result covers the addresses whose smallest network is included, and no other |
| `LaunchVPN`, `VPNClassToVPNProfileConverter`, `OnBootReceiver` | the request under way | convert, look up, ask for permission, start | one request makes one start, and one that fails leaves nothing that keeps the next from starting |
| `PasswordCache` | cached secrets | store, take | a secret goes to its profile only |
| `RetainFragment` | list, favourites, `isLoadingCSV`, tasks, the saved answer | download, decrypt, read, parse, save | what is shown is what is stored; a load ends with its flag and cover gone |
| `DatabaseManager` | rows of favourites, open counter | insert, update, delete, read | an edit changes one favourite |
| `DashBoard` | panel, cover, page | tap, disconnect, refresh, edit | the panel is up while a VPN is active, and nothing stays locked |
| settings, adapters, fragments | layout | | out of scope |

### How they interact

* The service creates a management thread and a process thread per session, and a
  `DeviceStateReceiver` which is the management thread's pause callback.
* The receiver calls `pause`, `resume` and `networkChange` of the management thread
  object, mostly on the main looper, but on the management thread from
  `updateByteCount`. The management thread asks the receiver `shouldBeRunning()`.
  `mWaitingForRelease`, `lastPauseReason` and the three connectStates are plain fields.
* The process is run with a management hold: after each (re)start it announces `>HOLD:`
  and waits for `hold release`.
* When the server has pushed its options, the process asks line by line (`>NEED-OK:`) to
  note them and at last for a tun. They are noted in fields of the service, which lives
  longer than a session and a setup.
* A process thread that ends calls `endVpnService()` of the one service object, which by
  then may belong to the next session.
* Everybody writes `VpnStatus`; `DashBoard` decides by `isVPNActive()` whether a tap on a
  server starts or refuses. It is told every state through the main looper, while it is in
  front.
* Everybody logs to `VpnStatus`, under its lock; it posts the lines to the log writer, which
  logs what it reads back and what goes wrong, and reads the buffer when it trims.
* `DashBoard` hands a server to the converter, the profile to `ProfileManager` and its UUID
  to `LaunchVPN`, which hands it to the service; both look it up again.
* `RetainFragment` outlives a rotation of `DashBoard` and calls back into whatever activity
  it is attached to when a task or a request ends.

### What is hard

Two threads deciding by each other's plain fields; lines of the process that are read
after they are out of date; delayed runnables that outlive the reason they were posted
for; ends of old sessions that arrive in the middle of a start; failures halfway through a
start or a tun set-up, and what they leave behind; networks that overlap in ways nobody
tried; a process killed between any two writes; callbacks into an activity that is being
replaced; user interface state that follows events it may have missed; dialogs that are confirmed when
what they ask about is over. The list, with lines and the properties that address each item,
is `hazards` in `PROJECT.json`.

## 2. Modules

| Module | Models |
| --- | --- |
| `PauseControl` | one session: `DeviceStateReceiver`, the hold, pause and resume part of `OpenVpnManagementThread`, the pause/resume intents and the last status |
| `HoldHistory` | `PauseControl` with one history variable, for the statement about a pause by the user |
| `HoldProtocol` | abstract specification: what pausing one session promises |
| `PauseControlProofs` | theorems about `PauseControl` and `HoldHistory` |
| `SessionLifecycle` | a sequence of sessions: the start, replace, stop, revoke, destroy paths of `OpenVPNService`, `OpenVPNThread`, the life of the management threads, `DisconnectVPN`, `LAST_CONNECTED_PROFILE` and the last status |
| `SessionLifecycleProofs` | theorems about `SessionLifecycle` when starts do not overlap |
| `SessionSequenceProofs` | theorems about `SessionLifecycle` when nothing overlaps, on top of the former |
| `MCSessionLifecycle` | `SessionLifecycle` for TLC, with the symmetry of the starts |
| `TunSetup` | `processNeedCommand` and `sendTunFD`, the options noted in the service, `getTunReopenStatus`, `openTun` |
| `TunSetupProofs` | theorems about `TunSetup` |
| `MCTunSetup` | `TunSetup` for TLC: what six servers push |
| `Routes` | `NetworkSpace`, and how `OpenVPNService` fills it |
| `RoutesProofs` | theorems about `Routes`, for addresses of any length |
| `LogCache` | the log buffer of `VpnStatus` and `LogFileHandler`, over several processes |
| `LogCacheProofs` | theorems about `LogCache` |
| `ServerList` | `RetainFragment`, the cover and the pages of `DashBoard`, the favourites of `DatabaseManager`, over several activities and processes |
| `ServerListProofs` | theorems about `ServerList` |
| `Launch` | from a tap to a session and back: converter, `ProfileManager`, `LaunchVPN`, `OnBootReceiver`, `DisconnectVPN`, the panel of `DashBoard`, and a session as far as it is seen |
| `LaunchProofs` | theorems about `Launch` |

The models meet where the code does: `PauseControl` is one session between the start
and the end `SessionLifecycle` gives it; `TunSetup` is what happens in the process's setups
(part of *connecting* in `PauseControl`); the routes of a tun in `TunSetup` are the
networks `Routes` starts from; `Launch` ends where `SessionLifecycle` begins, whose
`RequestStart` it refines into a conversation with the user, and reduces its sessions to the
stages that are shown. They share no variable and are checked separately.

The definitions named *Mutant* in the modules are wrong versions of the definition that
follows them: a property is listed only if replacing the right one by such a mutant makes
TLC find it violated.

### PauseControl

State: `network`, `screen`, `userpause`, `lastNet` (= `lastConnectedNetwork`),
`disconnectTimers` (posts of `mDelayDisconnectRunnable`), `waiting`
(= `mWaitingForRelease`), `lastPauseReason`, `resumeTimers` (posts of
`mResumeHoldRunnable`), `status` (= `VpnStatus.mLaststate`), the queue `inbox` of the main
looper, the process and the two directions of the socket. `mainAt`/`mainOp` and `mgmtAt`
say where the two threads are; a thread inside `pause(reason)` is represented by the
reason.

| Action | Code |
| --- | --- |
| `RegisterReceiver`, `ConnectivityAction`, `NetworkStateChange` | `registerDeviceStateReceiver`, `networkStateChange` |
| `ScreenOff`, `ScreenOn`, `ScreenOnDecides` | `onReceive` |
| `UserPause` | `userPause`, from the intents `PAUSE_VPN` and `RESUME_VPN` |
| `DelayDisconnect`, `ResumeHold` | the two delayed runnables |
| `MainPause`, `MainUsr1`, `MainShow` / `MgmtReason`, `MgmtPause`, `MgmtUsr1`, `MgmtShow` | `pause` and `signalusr1` on either thread |
| `MainResume`, `MainNetworkChange`, `Release...` | `resume`, `networkChange`, `releaseHold`, `releaseHoldCmd` |
| `ReadState`, `ReadHold`, `HoldTest`, `HoldPost`, `ReadByteCount`, `LowTraffic` | lines of the process: `processState`, `handleHold`, `updateByteCount` |
| `Proc...` | the process (external) |
| `NetworkMoves`, `ScreenSwitches`, `Tap` | the device and its user |

Abstractions. Time: a delayed runnable may run at any moment after it was posted, which
includes the real delays; the three seconds `releaseHoldCmd` may sleep are the gap between
`ReleaseCancelsTimer` and `ReleaseClearsWaiting`. The traffic of the last minute is below
the limit or not, at the choice of the model. A network is its type and extra info. The
states before CONNECTED are one, `CONNECTING`. Accesses of one thread are joined in a step
only where their order against the other thread makes no difference: `pause()` writes the
reason, removes the timer and tests `mWaitingForRelease` in one step because
`handleHold()` sets the flag before it tests and posts; a handler's reads of `screen`
are joined because the other thread only turns `PENDINGDISCONNECT` into `DISCONNECTED`,
neither of which is `SHOULDBECONNECTED`. The broadcasts of the screen and the test of
`shouldBeConnected()` that follows in `ACTION_SCREEN_ON` are separate steps.

`KeepsPromise` says that all this implements `HoldProtocol`, whose state is three Booleans:
the process is held (`proc = "hold"`); it is wanted (`Wanted`: neither `network` nor
`userpause` speaks against it); a release was decided and has not reached the process
(`ReleaseIsDue`: a thread is in `resume` or `releaseHold`, or the command is on the socket).
The promise is that a hold ends only by a release that was decided while the VPN was
wanted. The screen is not part of it: a low-traffic pause may come after the decision. It is
about safety only: that a pause makes the process go back into its hold is not promised by it.

That is `PauseHolds`, in `HoldHistory`: when everything has settled after a pause by the user, the
process is in its hold. `signalusr1()` sends SIGUSR1 only if `mWaitingForRelease` is not set, and
a `HOLD` line that is read after its hold was released sets it wrongly (`pause_late_hold`). The
app cannot tell this flag from a true one; the history variable `late` can. It is set when a line is
read whose hold is released by then, and falls with the flag, and `PauseHolds` says that such a
flag is the only thing that can lose a pause. `late` restricts no step.

### SessionLifecycle

State: the fields of the service, `active`, and for each start the position of its start
thread, process thread, management socket, process and of each thread inside
`endVpnService()`. `wanted` records the start the user last asked for and has not
disconnected; it exists for the properties only. Of the lines of a process only `>STATE:` is
modelled: `unread` is the one in the socket, `line` the one that passed the test of
`mShuttingDown` and is not shown yet, at most one of each per session. A socket that is closed
keeps what was written to it, so that a line may be read and shown after the process has died and
its thread has shown NOPROCESS. `late` is history: the status is that of a line shown after its
process thread had ended.

| Action | Code |
| --- | --- |
| `RequestStart`, `OnStartCommand`, `SetConnectedProfile` | a start from `DashBoard`, `LaunchVPN` or the system; `onStartCommand` |
| `GenerateConfig` ... `PostRegister` | `startOpenVPN` from top to bottom, with `stopOldOpenVPNProcess` and `forceStopOpenVpnProcess` |
| `RegisterReceiver` | the runnable it posts |
| `ActiveAdd`, `Accept`, `MgmtEnds` | `OpenVpnManagementThread.run` |
| `ReadState`, `ShowState` | `run` and `processCommand` up to the test of `mShuttingDown`; `processState` |
| `ProcSays`, `ProcExits`, `ProcStops`, `ProcGivesUp` | the process (external) |
| `StopVPN` (operator) | `stopVPN`, `stopOpenVPN`, `managmentCommand` |
| `Exec`, `ReadEnds`, `ReadInterrupted`, `WaitFor`, `ProcessDied` | `OpenVPNThread.run`, `startOpenVPNThreadArgs` |
| `EndLock`, `EndReceiver`, `EndProfile`, `EndDecide` | `endVpnService` |
| `OpenDialog`, `ConfirmDialog`, `CancelDialog`, `DisconnectIntent`, `OnRevoke`, `OnDestroy` | `DisconnectVPN`, `DISCONNECT_VPN`, `onRevoke`, `onDestroy` |

`stopSelf()` sets `stopRequested`; `onDestroy()` follows while it is set and no activity is
bound. A destroyed service is not created again. A start by the system, without an intent,
is one more `RequestStart`; it is more than this app does, which never saves its profiles
(see `Launch`).

Constants bound what may happen at the same time. `Overlap` says which events may fall into
a start, an end or a dialog that is still under way; `Prompt` says whether an old session
ends within the sleeps `stopOldOpenVPNProcess()` grants it; `Faults` says which steps of a
start may fail; `MaxStops` bounds the disconnects and revocations. `Talkers` are the sessions whose
process reports its state. A line changes nothing but the status, at which only `OpenDialog` looks
(what the dialog does `DisconnectIntent` does without it). So the runs whose properties do not mention
the status do without lines (`session_overlap`), or with one talker, whose thread then has more to do
before it ends (`session_live`); in `session_sequence` all three sessions talk.

### TunSetup

State: the fields of the service under their names without the `m` (`mRoutes` and
`mRoutesv6` are one variable), the interface `tun` the system routes by, and of the process
the lines of the current setup it still has to send, the options it was pushed and whether
it holds a tun. `left` and `tidy` are history: whether something was left in the fields. So is
`found`, the domain and the routes that were noted when the present setup began: `setDomain()`
keeps a domain that is there, and `addIP()`, which adds to a `TreeSet`, keeps a network that is
there, included or excluded. What the server asked for is then lost; `LostOnlyToLeftovers` says that
nothing else is lost.

| Action | Code |
| --- | --- |
| `NoteOption` with `AddDNS`, `SetDomain`, `AddRoute`, `AddRoutev6`, `SetLocalIP`, `SetLocalIPv6` | `processNeedCommand` and the methods of the service it calls |
| `KeepTun`, `ReopenTun` | `PERSIST_TUN_ACTION`, `getTunReopenStatus`, `getTunConfigString` |
| `OpenTun`, `NoAddress`, `AddressRefused`, `NoIPv4Address`, `EstablishRefused` | `OPENTUN`, `sendTunFD`, `openTun` and its exits |
| `StartSession`, `Reconnect`, `ProcessEnds`, `ServiceEnds` | the process and the system (external) |

The process waits for the answer to a line before it sends the next one, so a line and its
answer are one step, and only one management thread speaks at a time: the model starts a
session after the last one's process is gone. A descriptor that cannot be sent has the effect
of `EstablishRefused` on the fields; that it is then never closed is not modelled. A DNS
server or route that `Builder` rejects is logged and skipped, and is not modelled. Of the
answers other than `NOACTION` only `OPEN_BEFORE_CLOSE` is modelled; `OPEN_AFTER_CLOSE` is for
Android 4.4.0 to 4.4.2 and differs in the time between two tuns only. `mMtu` is taken
to be the same everywhere, and whether a route is included, which `addRoute()` derives from
its gateway and device, is part of what a server pushes.

`NoIPv4Address`: `openTun()` logs `mLocalIP.mIp` even if only an IPv6 address was pushed;
the exception ends the management thread and with it the app.

### Routes

State: `routes` (= `mIpAddresses`), and the local variables of `generateIPList()`:
`networks`, `currentNet`, `ipsDone`; `positive` is the result of `getPositiveIPList()`.

| Action | Code |
| --- | --- |
| `AddRoute`, `AddRoutev6`, `AddLocalNetwork` | `addRoute`, `addRoutev6`, `addLocalNetworksToRoutes` |
| `GenerateIPList` | `generateIPList` up to its loop |
| `Finish`, `ForgetCurrent`, `SplitNext`, `ForgetNext`, `SplitCurrent` | the branches of the loop; `Merge` is one round of it |
| `GetPositiveIPList`, `Clear` | `getPositiveIPList`, `clear` |

`networks` is a bag because the priority queue may hold equal networks; `poll()` returns any
of the least, as the class documents. A network is the address it was given, its mask and its
kind; `SameNet` and `Before` are `equals` and `compareTo`, which ignore the kind. `PowerOfTwo`
gives the size of a network, whose low bits `getMaskedAddress` sets or clears. Not modelled:
the text of addresses, the multicast routes `openTun()` leaves out, the route to the DNS
server it adds on one make of device, and the two halves of a single address on old devices.

`Verdict` is the reference definition: an address goes through the VPN if the smallest
network around it is included. Two neighbourhoods of networks are kept out of `routes_exact`,
because `generateIPList()` is wrong for some of them: `StartIsShared`, three nested networks
of which the inner two start at the same address, and `LowerHalfIsTaken`, an exception that
is the upper half of a block in whose lower half there is another network.

### LogCache

State: `logbuffer` of `VpnStatus`; of the handler its messages `queue`, where its thread is
(`mode`), what it has read (`read`, `itemsRead`) and still has to write (`todo`), and whether
`mLogFile` is not null (`opened`); the records of `file`, each whole or cut off. `born`,
`cleared`, `failed` (a write) and `untrimmed` (the last truncation failed) are history. A line is
its number, so that a line that comes back is known from one that is new.

| Action | Code |
| --- | --- |
| `initLogCache`, `newLogItem`, `clearLog`, `flushLog` | the synchronized methods of `VpnStatus`, `Trimmed` the end of `newLogItem` |
| `HandleInit`, `OpenLogFile`, `OpenFails` | `LOG_INIT`, `openLogFile` |
| `ReadWhole`, `ReadBrokenLast`, `ReadBroken`, `ReadEnd` | `readLogCache`, `readCacheContents`, one record each |
| `HandleMessage`, `BeginRecord`, `EndRecord` | `LOG_MESSAGE`, `writeLogItemToDisk`, `writeEscapedBytes` |
| `HandleTrim`, `TrimFails`, `Snapshot` | `TRIM_LOG_FILE`; `trimLogFile` with its two outcomes; `getlogbuffer` |
| `HandleFlush`, `HandleWithoutFile` | `FLUSH_TO_DISK`, `flushToDisk`, and the exception without a file |
| `WriteFails` | the exceptions `handleMessage` catches |
| `Kill` | the system (external) |

The first line of a process is logged when the class is loaded, before there is a handler,
and never gets to a file. The four outcomes of a record that was cut off are those the
reader has, depending on where it was cut: ignored, ended by an exception, restored as
something nobody logged (`Garbage`), or stopped at the magic byte of the next one.
`EarlyClear` allows the log to be cleared while the old file is being read, which takes a
start within the first moments of the process. A write that fails logs two lines, which are
written in turn; on a disk that stays full this goes on for ever, which `MaxFaults` cuts off.
`trimLogFile` keeps its exception to itself: after `TrimFails` the handler writes the whole buffer
behind the records that should have gone, and nothing tries again before the next trim.

### ServerList

State: the activity (`open`, `attached`, `page`, `loadedPage`, `cover`); of the fragment its
number, `isLoadingCSV`, `RetainAllServerVPNs`, `RetainFavoriteVPNs`; requests, tasks and
results under way, each with the number of the fragment it belongs to; `due`
(= `doReload()`); what is stored: `file` and `db`. `overlapped` and `torn` are
history. `overlapped` is told of each fragment: of three loads the first two may overlap and the
third fail on both addresses, and the list that is shown then need not be the one that is saved.

| Action | Code |
| --- | --- |
| `Open`, `Rotate`, `Attach`, `Finish`, `Focus`, `SelectPage` | the life of `DashBoard`, `loadDataAfterShowUp`, `onPageSelected` |
| `Refresh`, `RefreshFavorites` | `refreshLoadCSV`, `refreshLoadDatabase`, "Retry" |
| `saveVPN`, `editVPN`, `deleteVPN` | the dialogs of `DashBoard`, `DatabaseManager` |
| `HttpStart`, `HttpSuccess`, `HttpFailure`, `BothFail` | the callbacks of the HTTP client |
| `LoadsRows`, `ReadsFile`, `Decrypts`, `ParsesOnly`, `Deletes`, `Creates`, `Writes`, `SaveFails` | `doInBackground` of the four tasks, `saveByteArrayToFile` |
| `OfflineUnread`, `OfflineRead`, `Decrypted`, `NotDecrypted`, `ListLoaded`, `FavoritesLoaded` | their `onPostExecute` |
| `HidingEnds` | `onAnimationEnd` of the cover |

An answer is its number, or `Blank` (no line), or `Garbled` (cannot be parsed); an answer
that has nothing but its header is left out. A file that was cut off in writing is `Blank`.
`AsyncTask.execute()` runs tasks one after the other on every Android version the app
supports. `updateVPN()` changes every row with the IP of its server, and the rows of the
model are those of one server. That `DatabaseManager` never counts its users down, so that
the database is never closed, needs no state. No VPN is active (see `Launch` for the cover
when one is).

### Launch

State: of `DashBoard` whether it is in front, the position of the panel and the cover;
whether `DisconnectVPN` is open (`asking`); the states posted to the main looper; the last status; the profiles being converted, in memory,
and remembered; the `LaunchVPN` activities and the sessions, each with its profile and stage. `late` is history:
nothing was under way (`UnderWay`) when a disconnection was last confirmed. Whether a VPN is active
is looked at when the panel is tapped; between this and the confirmation, which does not look
again, the session may end, a kill or a restart may come.

| Action | Code |
| --- | --- |
| `Open`, `Rotate`, `Finish`, `Pause`, `Resume` | the life of `DashBoard`, `onResume`, `onPostResume`, `onPause` |
| `Tap`, `Disconnect`, `RunOnUiThread`, `PanelArrives` | `startOrStopVPN`, `updateStateToUIThread`, the animations |
| `ConfirmDisconnect`, `CancelDisconnect` | `DisconnectVPN`: `onClick` and `stopVPN`, `onCancel`; without the setting for a dialog, `onServiceConnected` |
| `FinishConvert`, `ConversionFails`, `OnBoot` | `VPNClassToVPNProfileConverter`, `OnBootReceiver` |
| `NotFound`, `Refused`, `Permitted`, `Asks`, `Granted`, `Denied`, `AskForPW`, `Dismissed` | `LaunchVPN` |
| `OnStartCommand`, `OnStartCommandFails`, `Restarted` | `onStartCommand` with and without an intent |
| `StartOpenVPN`, `Runs`, `Connects`, `AuthFails`, `Exits`, `EndVpnService` | a session, reduced to what it shows |
| `Kill` | the system (external) |

A profile is its number: the name and the text of a configuration make no difference.
`Quick = FALSE` says that neither a tap nor the end of the boot comes within the time
of the few messages a start or an end takes. An intent-less restart is not delivered
while a start is. The fault `dialog` is a device without a dialog for the permission: the
status then stays at USER_VPN_PERMISSION and no tap is accepted any more, so that
`ActiveIsUnderWay` fails with it; `launch` leaves it out. Left out too: the question
`DashBoard` may ask before the conversion, which does not look at the status again when it is
answered; the way to `DisconnectVPN` from the notification; and what the panel says. A session is
reduced to stages that show themselves in order: the STATE lines that come after its end are the
subject of `SessionLifecycle`.

## 3. Runs

`tlc -config X.cfg M` with `M` the module of the first line of the `.cfg`, or its `MC` module if
it has one (`SessionLifecycle` and `TunSetup` have). Deadlock is not checked where the environment owes no event and the system may settle for good; in
`Routes` it is.

### Properties that hold

| Run | Question | Bounds |
| --- | --- | --- |
| `pause_hold` | Does the hold handshake work in every interleaving? `HoldIsKnown`, `ReleaseIsArmed`, `NotHeldWhenWanted`, `SettlesAgain`, `EventuallyConnected` | 2 networks, both preferences on, all four kinds of events, 3 events |
| `pause_user` | Is a pause by the user kept, late `HOLD` lines apart? `PauseHolds`, `NoReleaseWhilePausedByUser`, `KeepsPromise` | `netchangereconnect` off, 4 events |
| `pause_network` | Is a lost network noticed, and is a held VPN shown as paused? `NetworkLossDetected`, `HoldIsShown` | screen stays on, 4 events |
| `session_sequence` | Does a sequence of sessions leave nothing behind? `NoOrphan`, `NoRevival`, `StopIsKept`, `RunningIsShown`, `GoneIsShown` | 3 starts, all of them talk, no overlap, old sessions prompt, the process may fail to start, 2 stops, symmetry of the starts |
| `session_overlap` | What remains when stops, exits and failures fall into a start? `OneProcess`, `RunningIsOwned` | 2 starts, none talks, slow old sessions, all failures, 1 stop, symmetry of the starts |
| `session_live` | Does everything come to rest, and does a stop that was sent end its process? `SentStopsEnd`, `ComesToRest` | 2 starts, one talks, no overlap, slow old sessions, all failures, 1 stop |
| `tun_setups` | Does a session get the tun its server asked for? `TunIsAsAsked`, `LostOnlyToLeftovers` | 4 setups, 6 servers, a local network, persist-tun on, interruptions anywhere, both refusals |
| `routes_exact` | Does the list of included routes say the same as the networks? `SpaceIsKept`, `PositiveIsExact`, `AssertionsHold`, `Terminates` | addresses of 3 bits, 3 networks (one more by halves), all kinds of space, not `Awkward` |
| `log_cache` | Are lines kept in order, on their way to the file, and found again? `LinesStayInOrder`, `NothingIsDropped`, `FileIsBounded`, `ClearedStaysAway`, `RecoveryIsComplete` | 3 lines in the buffer, 6 logged, 3 processes, 1 clear, 1 failure of a write, a truncation or of opening the file, kills anywhere |
| `server_list` | Do loads end with what is stored on the screen and the cover gone? `FlagMeansLoading`, `ListIsSaved`, `FavoritesAreCurrent`, `FileIsReadWhole`, `CoverComesDown` | 2 loads or edits, 2 tasks when favourites are loaded, 2 openings or rotations, 1 kill or failed write |
| `launch` | Does one tap make one start, and can the user always tap again? `OneStart`, `ActiveIsUnderWay`, `PanelIsForActive`, `CoverIsForPanel` | 4 taps, 2 kills, refused profiles, failed conversions and password dialogs, disconnections confirmed or cancelled at any time, users not `Quick` |

With the same constants hold, too, as single runs: `UserPauseShown` (those of `pause_network`),
`DoneIsDisjoint` (`routes_exact`), `SetupEnds` (`tun_setups`), `HandlerCatchesUp` (`log_cache`),
and the type invariant of every module; `TypeOK` of five of them is a theorem (section 4), and
so is `DoneIsDisjoint`.

Bounds. Two networks are the least for "another network". Three events are the least for a
pause, a resume and an event that interferes; four let a network go and come back around
them. The number of restarts, lines, commands and timers is not bounded. Two starts are the
least for a replacement; three let the end of the first fall into the third. Most
properties speak of states in which all has settled (`Settled`, `Quiet`), so that they do
not forbid the transients the design has. Four setups let a tun be kept, then leave options to
a third and see the fourth start clean. The servers of `MCConfigs` differ pairwise in
what can be mixed up: address, domain, DNS servers, routes, kind of address. With three
bits the networks may be nested, equal, next to each other and at both ends of the address
space; three networks are the least for an exception to an exception. With a buffer of
three (a trim at five, the reader's limit at six) six lines trim it twice, and three processes
let the second read what the first left while it is killed in turn. Two loads are the least
that can overlap, two fragments the least that can be mixed up, in two opens. Four taps leave
three after the first session, each of which can be refused, fail or be killed.

Fairness (`FairSpec`). The looper serves its messages, the threads run, the process reads
its commands and answers, the server accepts connections. The two delayed runnables need strong
fairness in the model because they are ready only while the looper is idle; the looper's
queue is ordered by time, so a due runnable gets its turn. Nothing is assumed of users,
networks, of processes writing output, or of services being unbound. A process that was
signalled exits. `TunSetup` only assumes that the management thread answers
(`ProcessNeedCommand`), `Routes` that `openTun()` goes on, `LogCache` that the looper of the
handler does. In `ServerList` the HTTP client answers or times out, the background
thread and the main looper go on, and animations end. `Launch` only has safety properties.

### Statements of the code that do not hold

One of them is a run that ends in a counterexample, and `findings` in `PROJECT.json` quotes the
statement: `pause_flap`, in which `NoReleaseWhilePausedByUser` is violated. The network goes
and comes back within the grace period while the user has paused: `networkChange(true)` is
called without a look at `userpause` and releases the hold. It needs `netchangereconnect`, the
default.

The remaining `.cfg` files show what else a reader might expect of the code and it does not do.

*Pausing.* `pause_late_hold`
(`UserPauseHolds`: a `HOLD` line is handled when its hold has already been released, two
holds were announced and one release was enough; `mWaitingForRelease` stays set, and the next
pause only changes the text; `PauseHolds` excepts exactly this), `pause_double_tap` (`NotHeldWhenWanted`: Resume is tapped twice
before it acts, the second one cancels the timer), `pause_timer_cancelled`
(`NetworkLossDetected`: `ACTION_SCREEN_ON` removes the grace-period runnable of a lost
network), `pause_screen_off` (`ScreenPauseHolds`: a network change marks a pending screen
pause as done without pausing), `pause_stale_reason` (`UserPauseShown`: the management
thread overwrites the user's reason with one it computed before), `pause_lost_screen_on`
(`ScreenOnCounts`: `updateByteCount()` has seen the screen off, the screen is switched on,
and then `screen` is set to DISCONNECTED). With `"screen"` among the `Happenings`, `HoldIsShown`
does not hold in the constants of `pause_network`: the screen goes off while a hold waits for
`mResumeHoldRunnable`, the pending screen pause makes the runnable return without a release,
and the held process goes on being shown as starting or connecting.

*Sessions.* `session_stop_ignored` (`StopIsKept`: a disconnect before the process has connected
to the socket is dropped), `session_profile` (`ProfileKept`: the replaced session's
`endVpnService()` clears the profile stored by the new start), `session_double_start`
(`OneProcess`: two starts overlap and both pass `stopOldOpenVPNProcess()`),
`session_late_dialog` and
`session_config_fails` (`GoneIsShown`: the status stays at Disconnecting, or at
VPN_GENERATE_CONFIG after a failed configuration or management interface, and `DashBoard`
refuses every further start). With `Prompt = FALSE`, or with the fault `config`,
`NoOrphan` does not hold in the constants of `session_sequence`: a late end of the old
session stops the service of the new one, and a failed start forgets the process of the
old one.

A line that is late is not a `.cfg` of its own: with `GoneIsNeverActive` in the place of
`GoneIsShown` TLC finds it in the constants of `session_sequence`. The process says CONNECTED and
dies; its thread shows NOPROCESS and ends; the management thread reads the line, or had already
tested `mShuttingDown`, and shows CONNECTED, and `DashBoard` refuses every further start.
`GoneIsShown` is the same but for such a line. `session_late_dialog` has its counterpart in `launch`:
`ActiveIsUnderWay` excepts a Disconnecting that was confirmed when nothing was under way.

*Tun and routes.* `tun_kept` (`TunCfgStayedTheSame`: a tun is kept because nothing changed; its
options stay noted, and the next reconnect gets them on top of its own, or, as to its domain and
the kind of a network, instead of its own), `routes_awkward`
(`AssertionsHold`: 0/0 excluded, 128/1 and 128/2 included: splitting 0/0 leaves two networks
128/1 of different kinds, and the assertions about the halves fail).

*Log.* `log_order` (`CachedLinesInOrder`: each line read back is put before the ones read
earlier, so that they end up in reverse), `log_second_kill` (`CachedLinesAreKept`: the file is
emptied after it was read, and what was read is not written again before the next trim; a
second kill loses it), `log_reader_limit` (`ReaderLimitSuffices`: a trim whose lines are still
posted leaves them twice, and the reader stops with an error before the end of the file),
`log_early_clear` (`ClearedStaysAway`: what is read back after a clear is there again),
`log_no_file` (`TrimHasAFile`: a file that could not be made is trimmed or flushed, and the
exception ends the app). After a truncation that failed the file is longer than twice the buffer,
and cleared lines stay in it: without `~untrimmed`, neither `FileIsBounded` nor `ClearedStaysAway`
holds in `log_cache`.

*Server list.* `list_garbled` (`GoodFileIsKept`: an answer that cannot be parsed is saved over
one that could), `list_all_page` (`AllPageIsLoaded`: `getVPNClasses()` falls through to the
favourites, and a page that has none of its own is not loaded), `list_cover`
(`CoverWhileLoading`: the flag is not set while the file is read, so that favourites that
arrive take the cover away), `list_overlap` and `list_rotation` (`OverlapIsSaved`,
`RotatedIsSaved`: two loads end in another order on the screen than in the file; an answer that
arrives in the middle of a rotation is shown and not saved), `list_edit_all` (`EditsOneRow`:
an edit changes the copies of a favourite, too).

*Launch.* `launch_quick` (`OneStart`: a second tap, or the end of the boot, falls into the time
in which no status shows the first start), `launch_shown` (`ActiveIsShown`: a state that was
shown before the panel could move up is not looked at again, and an active VPN has no
button to end it until `DashBoard` is resumed again), `launch_restart` (`RestartReconnects`:
`ProfileManager.java` keeps the last profile "to connect if the service restarts", but the
profiles are never saved, so that a restarted service never finds it).

## 4. Proofs

All theorems hold for any number of starts, lines, loads, taps, networks and events, any
length of addresses, any preferences and any bounds, under the `ConstantsAssumption` of their module and what the
last column says. Some properties have an exception in their statement, which is a history variable:
`PauseHolds` (a late `HOLD` line), `GoneIsShown` (a late STATE line), `LostOnlyToLeftovers` (what was
found noted), `FileIsBounded` and the file in `ClearedStaysAway` (a failed truncation),
`ActiveIsUnderWay` (a disconnection confirmed late), `ListIsSaved` (loads that overlapped, a save
that was cut short or left out). Each exception does happen, as section 3 tells.

| Theorem | States | Assumes |
| --- | --- | --- |
| **`PauseControlProofs`** | | |
| `TypeCorrect` | `Spec => []TypeOK` | |
| `HoldKnown` | `Spec => []HoldIsKnown` | |
| `ReleaseArmed` | `Spec => []ReleaseIsArmed` | one tap at a time (`~DoubleTap`) |
| `NeverHeldWhenWanted` | `Spec => []NotHeldWhenWanted` | the same |
| `UserPauseRespected` | `Spec => NoReleaseWhilePausedByUser` | `~NetChangePref` |
| `PauseKeepsHold` | `HistSpec => []PauseHolds` | `~NetChangePref` |
| `PromiseKept` | `Spec => KeepsPromise`, the refinement of `HoldProtocol` | `~NetChangePref` |
| `LossDetected` | `Spec => []NetworkLossDetected` | the screen stays on (`"screen" \notin Happenings`) |
| `HoldShown` | `Spec => []HoldIsShown` | the same |
| **`SessionLifecycleProofs`** | | |
| `TypeCorrect` | `Spec => []TypeOK` | |
| `OneSessionUp` | `Spec => []Inv1`, the inductive invariant of starts one after the other | `"start" \notin Overlap` |
| `AtMostOneProcess` | `Spec => []OneProcess` | the same |
| `TheRunningIsOwned` | `Spec => []RunningIsOwned` | the same |
| `StopsAreKept` | `Spec => []StopIsKept` | `"start"`, `"stop" \notin Overlap` |
| `NothingRevives` | `Spec => []NoRevival` | `"stop" \notin Overlap` |
| **`SessionSequenceProofs`** | | |
| `SequenceHolds` | `Spec => [](Inv1 /\ Inv2)` | `Sequential` |
| `NothingOrphaned` | `Spec => []NoOrphan` | the same |
| `RunningShown` | `Spec => []RunningIsShown` | the same |
| `GoneShown` | `Spec => []GoneIsShown` | the same |
| **`TunSetupProofs`** | | |
| `SetupsAreInOrder` | `Spec => []Inv`, the inductive invariant | |
| `TypeCorrect` | `Spec => []TypeOK` | |
| `OptionsAreNotMixedUp` | `Spec => []TunIsAsAsked` | |
| `OnlyLeftoversDisplace` | `Spec => []LostOnlyToLeftovers` | |
| **`LogCacheProofs`** | | |
| `Inductive` | `Spec => []Inv`, the inductive invariant | |
| `LinesInOrder` | `Spec => []LinesStayInOrder` | |
| `NothingDropped` | `Spec => []NothingIsDropped` | |
| `FileBounded` | `Spec => []FileIsBounded` | |
| `RecoveryComplete` | `Spec => RecoveryIsComplete` | |
| `ClearedStays` | `Spec => []ClearedStaysAway` | `~EarlyClear` |
| **`ServerListProofs`** | | |
| `Inductive` | `Spec => []Inv`, the inductive invariant | |
| `FlagIsNotLeft` | `Spec => []FlagMeansLoading` | |
| `FavoritesCurrent` | `Spec => []FavoritesAreCurrent` | |
| `ListSaved` | `Spec => []ListIsSaved` | |
| `FileReadWhole` | `Spec => FileIsReadWhole` | |
| **`LaunchProofs`** | | |
| `TypeCorrect` | `Spec => []TypeOK` | |
| `PanelIsExplained` | `Spec => []PanelIsForActive` | |
| `ActiveEnds` | `Spec => []ActiveIsUnderWay` | `"dialog" \notin Faults` |
| `OneTapOneStart` | `Spec => []OneStart` | `~Quick` |
| `CoverIsExplained` | `Spec => []CoverIsForPanel` | `~Quick` |
| **`RoutesProofs`** | | |
| `Inductive` | `Spec => []Inv`, the inductive invariant | no awkward neighbours (`~Awkward`) |
| `TypeCorrect` | `Spec => []TypeOK` | the same |
| `SpaceKept` | `Spec => []SpaceIsKept` | the same |
| `PositiveExact` | `Spec => []PositiveIsExact` | the same |
| `DoneDisjoint` | `Spec => []DoneIsDisjoint` | the same |
| `AssertionsKept` | `Spec => []AssertionsHold` | the same |

None of the assumptions in the last column can be dropped; TLC has a counterexample for each:

* `~DoubleTap`: `pause_double_tap`. `~NetChangePref`: `pause_flap`.
* `"screen" \notin Happenings`: `pause_timer_cancelled` for `NetworkLossDetected`; the constants
  of `pause_network` with `"screen"` added to `Happenings` for `HoldIsShown` (section 3).
* `"start" \notin Overlap`: `session_double_start`. `"stop" \notin Overlap`:
  `session_stop_ignored` for `StopIsKept`; the constants of `session_sequence` with
  `Overlap = {"stop"}` for `NoRevival` (a disconnect between the tap and
  `setConnectedVpnProfile()` has nothing to clear, and the start stores its profile after it).
* `Sequential == Overlap = {} /\ Prompt /\ Faults \subseteq {"exec"}`: `session_config_fails`
  for the faults; with `Prompt = FALSE` a late end stops the service of the next session.
* `~EarlyClear`: `log_early_clear`. `~Quick`: `launch_quick`. `"dialog" \notin Faults`: a
  device without the permission dialog leaves the status at USER_VPN_PERMISSION.
* `~Awkward`: `routes_awkward`.

`DoubleTap`, `Quick` and `EarlyClear` say how fast a user is, `NetChangePref` is a preference, and
`Overlap`, `Prompt` and `Faults` say what the device does while a session starts. Sections 2 and
3 describe them.

### PauseControl

* `HoldIsKnown` is inductive together with `TypeOK`. Its four disjuncts are the four stages
  of a hold; each step of the handshake moves it to the next. `InAppend`, `InTail` and
  `RestartLines` say what serving and filling a queue does.
* `ReleaseIsArmed` is not inductive: it says nothing while a thread is busy. `ArmedInv`
  follows the hold through `handleHold()` (flag, test, post) and through the calls of the
  main looper: a hold that should be released without a timer is being handled by the
  management thread, or the main looper is about to release it; a low-traffic pause on the
  management thread removes a timer only while the main looper is about to resume; and
  `pause()` is only called with a reason. The last part needs `TapInv`: a queued Resume is
  the only tap and finds a VPN paused by the user.
* `NotHeldWhenWanted` follows from the two before.
* `ResumeInv` says that whoever is about to resume found no pause by the user, which needs
  that `network` is never `PENDINGDISCONNECT`, hence `~NetChangePref`.
* `PauseInv` follows a pause by the user through the call, the `SIGUSR1` and the `HOLD`
  line until `mWaitingForRelease` is set, and says that no release is under way meanwhile.
  `FlagInv` says that the flag, unless `late`, is true: the process is in its hold and nothing
  that releases it is on its way. Together they give `PauseHolds`. `FlagFrame` serves the many
  steps that neither set the flag nor end a hold.
* `PromiseKept` maps every step to a step of `HoldProtocol` or to a stutter. `StepWants`,
  `StepDecides` and `StepHolds` say which changes of the three Booleans are allowed;
  `HandlerRefines`, `CallRefines`, `MgmtRefines` and `ProcessRefines` apply them to the steps of
  the main looper, of the management thread and of the process. A release may only be decided
  when the VPN is wanted, which is `ResumeInv`, and `WantInv` for the second half of
  `ACTION_SCREEN_ON`.
* `LossDetected` needs `GraceHasTimer` (a pending network has a posted runnable) and
  `LossIsQueued` (a network that is gone and still counts as connected has its broadcast in
  the queue).
* `HoldShown` follows a hold from the socket to the screen. `HoldIsLast`: what a held process
  said last is its hold, so that no state it reported earlier is read after that.
  `HeldIsShown`: once the hold is read and not shown as paused, a pause is under way, or the
  network is in its grace period, or the hold is on the way to its timer or to a release.
  When everything has settled none of these is left. `ScreenIsQuiet` is what the assumption
  on `Happenings` gives.

### SessionLifecycle

`OneProcess` and `RunningIsOwned` speak of the processes, but why there is only one is in the
order of `startOpenVPN()`: it goes from stage to stage, and each stage has to know what the
ones before it established. `Inv1` says this stage by stage.

* `StagesMatch`: what a start has not reached is not there yet, neither its socket, its
  thread, its process nor the fields of the service that name them.
* `OneStarter`, `LatestIsUp`: one start at a time, and only `mManagement` may be up.
* `UpIsReachable`, `ConnectedIsListed`: whoever is up has a socket, in `active` once it is
  connected, so that `stopOpenVPN()` of the next start finds it. This is what a start relies on
  and a stop that comes early does not find.
* `OldIsStopped`: up to `stopOldOpenVPNProcess()` the old process may run, with an open
  socket; from the sleeps on it does not. This is the step that makes `LatestIsUp` inductive.
* `StartingIsMarked`, `UpIsOwned`: `mStarting` belongs to a start, and a session that is up is
  owned by the service, unless a start is about to replace it or an end is under way.

`StoppedIsDown` and `StoppedIsForgotten` follow a stop through `endVpnService()` to the
cleared profile; the second does not need `Inv1`. For sessions in sequence `Inv2` adds what
holds between them: the sessions before the latest are over (`OldIsOver`), threads are in
`endVpnService()` only where something ended (`EndsAreJustified`), the running session is
owned without an exception, the last entry of `active` is the latest session, only a replaced
session ends without a word, and an active status has a start or a process thread that will change it,
unless it is `late` (`ActiveIsThere`), from which `GoneIsShown` follows. A line in a socket comes
from a session whose thread was started (`LinesHaveThreads`), so that a line of an older session,
which is over, is told by `late`. `Alone`, `WorkingIsLatest` and
`EndingIsAlone` say what these give together. That `Without` removes one element is proved for any
sequence.

### TunSetup

The lines still to come are an end of `Lines` of what the server pushed (`LinesRemain`), so
that their number says which of them have been read (`Noted`). The fields hold at least what
those lines said (`AtLeast`), whatever was in them before, and exactly this if they were
empty at first (`Exactly`). Each of the two has a part per field, and each line disturbs
one. The domain and the routes come from the setup or were found by it (`FieldsAreFrom`). At
`OPENTUN` all lines have been read: `AtLeast` and `FieldsAreFrom` give `LostOnlyToLeftovers`,
`Exactly` gives `TunIsAsAsked`. `tidy`, in its statement, excludes the leftovers of `tun_kept`; that
between setups the fields are empty unless `left` says so is `LeftIsTold`. `TunIsKnown` is
needed for a tun that is kept: it is `mLastTunCfg`.

### LogCache

The memory, that is the buffer and the queue of the handler, changes in a few ways: a
line is added behind, or in front, the buffer is cut, a message is appended or taken. For each
there is a lemma about `Good`: the lines of this process are at the end of the buffer
(`InOrder`); messages are queued in the order of their lines (`Posted`); behind the last trim
are only lines still in the buffer (`Recent`); between two trims are no more than `Limit`
(`Runs`). `Follows` sums up what logging may do to the memory, and composes.

Sixteen actions become a few kinds of steps (`StepsAre`), and each part of the invariant is
proved over the kinds. `Shape` holds `Good` and says where things are: the file is being written
only while it is open, LOG_INIT comes first, the last record is the unfinished one. The
others relate the memory to the file.

* `Way`: a line of the buffer is in the file, among the lines to write or posted. Between the
  emptying of the file and the snapshot of the buffer nothing is said.
* `Room`: the length of the file. `FileIsBounded` is not inductive: what is posted
  will come. `Fits` adds, to the records and the lines being written, the lines posted up to the
  next trim, and bounds them by what the buffer takes, or by twice that after a trim that is
  still queued. It needs `Recent` and `Runs`. All of this is `HasRoom`, and claimed while not
  `untrimmed`; `Heals` says that only a trim that succeeds or a new file ends that, both of which
  leave an empty file.
* `Restored`: while reading, unless a trim is queued, the buffer has every line read so far, and
  at least as many lines as were restored. The second half is why the reader's limit is not what
  ends it early: a buffer never exceeds `Limit <= 2 * MAXLOGENTRIES`.
* `Away`: no line up to `cleared` is in the buffer, and what is posted of them is followed by a
  trim. It does not hold with `EarlyClear`, and is kept apart from `Inv`.

### ServerList

A load goes through three stations: `http`, `executor`, `posts`. `StepIs` and `ListMoves` say
what a step does to them, and the parts of the invariant are proved over these kinds of steps.

* `Typed` has that no item belongs to a fragment that is still to come, that without the
  activity the fragment is empty, and that what is being saved is the first task.
* `FlagMeansLoading` is inductive with it; `FileIsWhole` says that a file is blank only if it was
  torn or is being written by the first task, from which `FileIsReadWhole` follows.
* `Current`: loads of favourites are in the order of their fragments through both
  queues, and when no task is left the last result is that of the database.
* `Single`: without an overlap there is one item of the present fragment. `OldSave`: while
  an answer of an older fragment is saved, the present one has read nothing yet. `Saved`: what
  an item of the present fragment has read or parsed is what the file has, and so is the list.

### Launch

`FailureIsNotLast` (after AUTH_FAILED the session is still there to say NOPROCESS) and
`PanelHasReason` (a panel in front of the user has an active VPN, or something that will make
it go down) are inductive together with `TypeOK`. `ActiveIsUnderWay` is inductive, too:
`ConfirmDisconnect` keeps it by what it notes in `late`. `InvAlone` holds while the user is not
`Quick`: `OneAtATime` (of conversions, launches that may still start and sessions there is one),
`BusyIsShown` (which is shown as active, except in the time `Quick` is about, so that the next
tap is refused), `RestartIsVain`, `ConvertedIsNew`, and `PostedIsTrue` for the cover: a state
that was posted as the end of a session is still true when the main looper serves it.

### Routes

TLC checks addresses of three bits and three networks; the theorems are about addresses of
any length, 32 and 128 bits among them, and any number of networks.

*Blocks.* `PowerOfTwo` is a recursive function, of which the prover knows nothing: that it exists
(`DoublingExists`), doubles (`PowerDoubles`) and multiplies (`PowersMultiply`) is proved by
induction. The induction theorems of the library take an operator as a parameter; `AllNumbers`
states the same of sets, from the well-foundedness of `<`. From this follows that a network is
a block that starts at a multiple of its size (`BlockFacts`), that two networks are disjoint or
nested (`Laminar`), and that the halves of one are networks again and add up to it
(`HalvesFacts`, `InHalf`, `AroundHalf`).

*The loop.* Its rounds are treated as changes to three sets: what is finished, what waits and what
waits more than once; `BagWithout` and `BagWithAll` say what `poll()` and `add()` do to them.
`SpaceIsKept` is not inductive. A network may be forgotten inside another of its kind only if
none is between the two, and a half may be left out only if what waits in its place is of the
same kind. `Sound` says why both are true:

* `InOrder`: nothing that waits comes before `currentNet`, and what is finished lies behind it;
* `NoConflict`: no network waits, or is the current one, as included and as excluded;
* `StartsAreFree`: no network that lies in another one, or waits twice, starts with a smaller
  one. This is what `~StartIsShared` becomes while networks are split: the halves that are put
  back start where others do;
* `LowerHalvesAreFree`: what `~LowerHalfIsTaken` becomes. If it failed, a split could put back
  an upper half that waits already as a network of the other kind. `UpperHalfIsOdd` shows that
  the arithmetic of `LowerHalfIsTaken` says the same.

`SplitNextSound` and `SplitCurrentSound` prove `Sound` of the two rounds that split, where almost
all of the work is; the other rounds leave fewer networks (`FewerAreSound`). That a round keeps
what is said of every address is `ForgetKeepsVerdict` or `SplitKeepsVerdict`.

*The result.* `PositiveIsExact` follows for new devices from `SpaceIsKept` and `DoneIsDisjoint`. For
old ones the routes `AddedBack` have to be right, too: `Remain` says that a route waits unchanged as
long as anything of the other kind is around it, so that in the end nothing excluded is around a
route that is added back, and what lies in it is looked at when it is added.

The premise `~Awkward` restricts what the callers may add, by `Fits`, and nothing else: what the
loop does with it is proved.

### Only model-checked

`TypeOK` of `ServerList` and `LogCache` as they stand (what the proofs need of it
is in `Typed` and `Shape`); and the liveness properties, which with `ENABLED` and fairness are
out of the prover's reach: `Terminates` of `Routes` among them, for which the prover would
have to bound the sizes that are left in a bag.

The inductive invariants were also checked with TLC on the constants of the runs, so that they
are not true for want of states.

## 5. Not modelled

* Passwords, proxies and signatures on the management socket;
  `reconnect()`, which nobody calls.
* `PROTECTFD`, unknown `NEED-OK` lines (never answered), which apps a tun is for, and the
  arithmetic on netmasks in `setLocalIP` and `CIDRIP`.
* Notifications, toasts, the text of log lines, byte counts as numbers.
* `onRevoke()` before the first session: it can only throw on the null `mManagement`.
* That the notification offers pause or resume by the `userpause` of the time it was drawn
  (`PauseControl` takes that of the tap); the hide animation of a cover that is gone already
  (`ServerList`); a rotation under the dialog for the permission, which runs
  `startVpnFromIntent()` once more (`Launch`).
* The noPie retry of `OpenVPNThread` and the neutral button of `DisconnectVPN`, which
  current devices and the dialog never reach.
* `PasswordCache`: only `askForPW()` fills it, and that ends the app before a password can be
  entered (`AskForPW` in `Launch`). `TrafficHistory`: it feeds a graph no view of this app shows.
* Starts by other apps, temporary profiles and saved profiles: nothing in this app uses them.
* Text: `ConfigParser`, `VpnProfile`, `CSVReader`. Filters, advertisements, settings and the
  rest of the user interface. `OpenVPNStatusService` is not in the manifest.
* The C and C++ of the repository. `breakpad`, `lzo`, `openssl` and `openvpn` are vendored, and
  make up nearly all of its lines; the app uses them as a process at the other end of the
  management socket, and this is how they are modelled. What is not vendored,
  `scan_ifs.c`, `jniglue.c` and `jbcrypto.cpp`, lists interfaces once and passes calls on,
  without state. The program's own logic is its Java.

## 6. Plan

In order of what matters most to the system:

1. An abstract specification of "one VPN at a time" that `SessionLifecycle` implements with
   prompt sessions, and one of "a session that is up has the tun that was asked for", which
   `TunSetup` implements without leftovers; both from the invariants of section 4.
2. `ServerList` and `LogCache`: `TypeOK` as theorems.
3. `Routes`: whether `~Awkward` can be weakened to the neighbourhoods for which
   `generateIPList()` really is wrong. `TunSetup`: an interface that vanishes under a session.
4. Compositions: `PauseControl` and `TunSetup`, a setup that a pause interrupts; `Launch` and
   `SessionLifecycle`, whose sessions the ones of `Launch` abstract.
