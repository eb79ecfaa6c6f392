---------------------------- MODULE PauseControl ----------------------------
(***************************************************************************)
(* Pausing and resuming one VPN session.                                   *)
(*                                                                         *)
(* DeviceStateReceiver turns network, screen and user events into calls of *)
(* pause / resume / networkChange on OpenVpnManagementThread, which keeps  *)
(* the openvpn process in its management "hold" while the VPN is paused.   *)
(* Two threads of the app share the state without a lock:                  *)
(*   - the main looper: broadcasts, notification taps, delayed runnables;  *)
(*   - the management thread: lines read from the openvpn process.         *)
(* A step is what one thread runs up to an access to state the other one   *)
(* writes; accesses are joined only where the other thread can tell no     *)
(* difference (a handler's reads of screen, say, for which PENDING and     *)
(* DISCONNECTED are the same).  The openvpn process, the network and the   *)
(* screen are the environment; commands and lines travel over the two      *)
(* directions of one local socket, in order and without loss.              *)
(***************************************************************************)
EXTENDS Naturals, Sequences

CONSTANTS
    Networks,       \* networks, told apart by type and extra info
    NoNet,          \* getActiveNetworkInfo() = null
    HalfUp,         \* a network that is not (yet) in State.CONNECTED
    ScreenOffPref,  \* preference "screenoff"
    NetChangePref,  \* preference "netchangereconnect"
    DoubleTap,      \* a notification action may be tapped again before it acts
    Happenings,     \* the kinds of events the environment may produce,
    MaxEvents       \*   and how many of them in all

ASSUME ConstantsAssumption ==
    /\ NoNet \notin Networks /\ HalfUp \notin Networks /\ NoNet # HalfUp
    /\ {ScreenOffPref, NetChangePref, DoubleTap} \subseteq BOOLEAN
    /\ Happenings \subseteq {"net", "screen", "tap", "drop"} /\ MaxEvents \in Nat

VARIABLES
    network, screen, userpause,  \* the three connectStates of DeviceStateReceiver
    lastNet,                     \* lastConnectedNetwork
    disconnectTimers,            \* posts of mDelayDisconnectRunnable not yet run
    registered,                  \* the receiver exists and is the pause callback
    waiting,                     \* mWaitingForRelease
    lastPauseReason,
    resumeTimers,                \* posts of mResumeHoldRunnable not yet run
    mainAt, mainOp,              \* where the main looper is, and in which call
    mgmtAt,                      \* where the management thread is
    status,                      \* VpnStatus.mLaststate
    inbox,                       \* messages queued for the main looper
    curNet, screenOn,            \* the device
    spent,                       \* environment events so far
    proc,                        \* the openvpn process
    toProc, toMgmt               \* the two directions of the management socket

receiver == <<network, screen, userpause, lastNet, disconnectTimers, registered>>
device   == <<curNet, screenOn, spent>>
process  == <<proc, toMgmt>>
vars == <<receiver, waiting, lastPauseReason, resumeTimers, mainAt, mainOp,
          mgmtAt, status, inbox, device, process, toProc>>

SHOULD  == "SHOULDBECONNECTED"
PENDING == "PENDINGDISCONNECT"
DISC    == "DISCONNECTED"

ConnectState == {SHOULD, PENDING, DISC}
PauseReason  == {"noNetwork", "userPause", "screenOff"}
Events       == {"register", "conn", "on", "off", "pause", "resume"}
Commands     == {"release", "usr1", "network-change"}
StateLines   == {"CONNECTING", "CONNECTED", "RECONNECTING"}
Lines        == StateLines \cup {"HOLD", "BYTECOUNT"}
PausedStates == {"NONETWORK", "SCREENOFF", "USERPAUSE"}

\* A thread that is in pause(reason) is represented by that reason.
MainAt == {"idle", "screen", "call", "usr1", "show", "rel1", "rel2", "rel3"}
MainOp == {"none", "connected", "paused", "resume", "networkChange", "resumeHold"}
              \cup PauseReason
MgmtAt == {"read", "hold", "post", "show", "low", "reason", "usr1"} \cup PauseReason

In(x, q) == \E i \in 1..Len(q) : q[i] = x

Connected(n, s, u) == n = SHOULD /\ s = SHOULD /\ u = SHOULD

\* shouldBeConnected(); also OpenVpnManagementThread.shouldBeRunning(), because
\* network is DISCONNECTED until the receiver is registered as callback.
ShouldBeConnected == Connected(network, screen, userpause)

\* getPauseReason()
GetPauseReason(n, s, u) ==
    CASE u = DISC -> "userPause"
      [] u # DISC /\ s = DISC -> "screenOff"
      [] u # DISC /\ s # DISC /\ n = DISC -> "noNetwork"
      [] OTHER -> "userPause"

\* VpnStatus.updateStatePause
PauseState(r) ==
    CASE r = "noNetwork" -> "NONETWORK"
      [] r = "screenOff" -> "SCREENOFF"
      [] r = "userPause" -> "USERPAUSE"

\* The session has just been started: the process waits in its first hold and
\* the registration of the receiver is posted to the main looper.
Init ==
    /\ network = DISC /\ screen = SHOULD /\ userpause = SHOULD
    /\ lastNet = NoNet /\ disconnectTimers = 0 /\ registered = FALSE
    /\ waiting = FALSE /\ lastPauseReason = "noNetwork" /\ resumeTimers = 0
    /\ mainAt = "idle" /\ mainOp = "none" /\ mgmtAt = "read"
    /\ status = "VPN_GENERATE_CONFIG"
    /\ inbox = <<"register">>
    /\ curNet \in Networks \cup {NoNet} /\ screenOn = TRUE
    /\ spent = 0
    /\ proc = "hold" /\ toMgmt = <<"HOLD">> /\ toProc = <<>>

-----------------------------------------------------------------------------
(* The main looper: one message at a time.  A handler first updates the     *)
(* receiver and then, as steps of its own, runs at most one call on the     *)
(* management thread object.                                                *)

Begin(op) == mainAt' = "call" /\ mainOp' = op
Finish    == mainAt' = "idle" /\ mainOp' = "none"
StayIdle  == UNCHANGED <<mainAt, mainOp>>

Take(e) ==
    /\ mainAt = "idle" /\ inbox # <<>> /\ Head(inbox) = e
    /\ inbox' = Tail(inbox)

\* networkStateChange() when the active network is CONNECTED
NetworkConnected ==
    LET pendingDisconnect == network = PENDING
        sameNetwork == lastNet = curNet
        newScreen == IF screen = PENDING THEN DISC ELSE screen
    IN  /\ curNet \in Networks
        /\ network' = SHOULD
        /\ \/ /\ pendingDisconnect /\ sameNetwork
              /\ disconnectTimers' = 0
              /\ Begin("networkChange")
              /\ UNCHANGED <<screen, lastNet>>
           \/ /\ ~(pendingDisconnect /\ sameNetwork)
              /\ screen' = newScreen /\ lastNet' = curNet
              /\ IF Connected(SHOULD, newScreen, userpause)
                 THEN /\ disconnectTimers' = 0
                      /\ Begin(IF pendingDisconnect \/ ~sameNetwork
                               THEN "networkChange" ELSE "resume")
                 ELSE StayIdle /\ UNCHANGED disconnectTimers

\* networkStateChange() when there is no active network
NetworkLost ==
    /\ curNet = NoNet
    /\ IF NetChangePref
       THEN network' = PENDING /\ disconnectTimers' = disconnectTimers + 1
       ELSE UNCHANGED <<network, disconnectTimers>>
    /\ StayIdle /\ UNCHANGED <<screen, lastNet>>

\* any other network state is ignored
NetworkComingUp ==
    /\ curNet = HalfUp
    /\ StayIdle /\ UNCHANGED <<network, screen, lastNet, disconnectTimers>>

NetworkStateChange == NetworkConnected \/ NetworkLost \/ NetworkComingUp

\* The runnable posted at the end of startOpenVPN(): new DeviceStateReceiver,
\* which becomes the pause callback and fetches the initial network state.
RegisterReceiver ==
    /\ Take("register")
    /\ registered' = TRUE
    /\ NetworkStateChange
    /\ UNCHANGED <<userpause, waiting, lastPauseReason, resumeTimers, mgmtAt,
                   status, device, process, toProc>>

ConnectivityAction ==
    /\ Take("conn")
    /\ NetworkStateChange
    /\ UNCHANGED <<userpause, registered, waiting, lastPauseReason, resumeTimers,
                   mgmtAt, status, device, process, toProc>>

ScreenOff ==
    /\ Take("off")
    /\ screen' = IF ~ScreenOffPref THEN screen
                 ELSE IF network = DISC \/ userpause = DISC THEN DISC ELSE PENDING
    /\ StayIdle
    /\ UNCHANGED <<network, userpause, lastNet, disconnectTimers, registered,
                   waiting, lastPauseReason, resumeTimers, mgmtAt, status, device,
                   process, toProc>>

ScreenOn ==
    /\ Take("on")
    /\ screen' = SHOULD
    /\ disconnectTimers' = 0
    /\ mainAt' = "screen" /\ mainOp' = IF ShouldBeConnected THEN "connected" ELSE "paused"
    /\ UNCHANGED <<network, userpause, lastNet, registered, waiting,
                   lastPauseReason, resumeTimers, mgmtAt, status, device, process,
                   toProc>>

\* Mutant: the screen only ever pauses.
ScreenOnNeverResumes ==
    IF ShouldBeConnected THEN Finish ELSE Begin(GetPauseReason(network, screen, userpause))

ScreenOnCall ==
    IF ShouldBeConnected # (mainOp = "connected") THEN Begin("resume")
    ELSE IF ShouldBeConnected THEN Finish
    ELSE Begin(GetPauseReason(network, screen, userpause))

\* the management thread may have set screen again in the meantime
ScreenOnDecides ==
    /\ mainAt = "screen" /\ ScreenOnCall
    /\ UNCHANGED <<receiver, waiting, lastPauseReason, resumeTimers, mgmtAt, status,
                   inbox, device, process, toProc>>

\* Mutant: a resumed VPN waits like one whose network went away.
UserPauseToPending(pause) == IF pause THEN DISC ELSE PENDING

UserPauseState(pause) == IF pause THEN DISC ELSE SHOULD

\* Mutant: shouldBeConnected() is evaluated before userpause is changed.
UserPauseCallEarly(pause) ==
    IF ~pause /\ ShouldBeConnected
    THEN "resume" ELSE GetPauseReason(network, screen, UserPauseState(pause))

\* Mutant: a resume by the user resumes, whatever else speaks against it.
UserPauseCallAnyway(pause) ==
    IF ~pause THEN "resume" ELSE GetPauseReason(network, screen, UserPauseState(pause))

UserPauseCall(pause) ==
    IF ~pause /\ Connected(network, screen, SHOULD) /\ ~ShouldBeConnected
    THEN "resume" ELSE GetPauseReason(network, screen, UserPauseState(pause))

\* userPause(true) / userPause(false), from the PAUSE_VPN and RESUME_VPN intents
UserPause(pause) ==
    /\ Take(IF pause THEN "pause" ELSE "resume")
    /\ userpause' = UserPauseState(pause)
    /\ Begin(UserPauseCall(pause))
    /\ UNCHANGED <<network, screen, lastNet, disconnectTimers, registered,
                   waiting, lastPauseReason, resumeTimers, mgmtAt, status, device,
                   process, toProc>>

\* Mutant: the grace period counts only while the VPN is not paused otherwise.
DelayDisconnectUnpaused == network = PENDING /\ screen = SHOULD /\ userpause = SHOULD

DelayDisconnectIsDue == network = PENDING

\* mDelayDisconnectRunnable.run()
DelayDisconnect ==
    /\ mainAt = "idle" /\ disconnectTimers > 0
    /\ disconnectTimers' = disconnectTimers - 1
    /\ IF DelayDisconnectIsDue
       THEN /\ network' = DISC
            /\ screen' = IF screen = PENDING THEN DISC ELSE screen
            /\ Begin(GetPauseReason(DISC, screen', userpause))
       ELSE StayIdle /\ UNCHANGED <<network, screen>>
    /\ UNCHANGED <<userpause, lastNet, registered, waiting, lastPauseReason,
                   resumeTimers, mgmtAt, status, inbox, device, process, toProc>>

\* Mutants: the runnable releases without asking again; it polls.
ResumeHoldAtOnce == mainAt' = "rel1" /\ mainOp' = "resumeHold" /\ resumeTimers' = resumeTimers - 1
ResumeHoldPolls ==
    IF ShouldBeConnected
    THEN mainAt' = "rel1" /\ mainOp' = "resumeHold" /\ resumeTimers' = resumeTimers - 1
    ELSE StayIdle /\ UNCHANGED resumeTimers

ResumeHoldRun ==
    /\ resumeTimers' = resumeTimers - 1
    /\ IF ShouldBeConnected
       THEN mainAt' = "rel1" /\ mainOp' = "resumeHold"
       ELSE StayIdle

\* mResumeHoldRunnable.run()
ResumeHold ==
    /\ mainAt = "idle" /\ resumeTimers > 0
    /\ ResumeHoldRun
    /\ UNCHANGED <<receiver, waiting, lastPauseReason, mgmtAt, status, inbox,
                   device, process, toProc>>

\* pause(reason) up to the test of signalusr1()
MainPause ==
    /\ mainAt = "call" /\ mainOp \in PauseReason
    /\ lastPauseReason' = mainOp
    /\ resumeTimers' = 0
    /\ mainAt' = IF waiting THEN "show" ELSE "usr1"
    /\ UNCHANGED <<receiver, waiting, mainOp, mgmtAt, status, inbox, device,
                   process, toProc>>

\* the two branches of signalusr1()
MainUsr1 ==
    /\ mainAt = "usr1" /\ Finish
    /\ toProc' = Append(toProc, "usr1")
    /\ UNCHANGED <<receiver, waiting, lastPauseReason, resumeTimers, mgmtAt,
                   status, inbox, device, process>>

MainShow ==
    /\ mainAt = "show" /\ Finish
    /\ status' = PauseState(lastPauseReason)
    /\ UNCHANGED <<receiver, waiting, lastPauseReason, resumeTimers, mgmtAt,
                   inbox, device, process, toProc>>

\* resume() and releaseHold(): the test of mWaitingForRelease
MainResume ==
    /\ mainAt = "call" /\ mainOp = "resume"
    /\ IF waiting
       THEN mainAt' = "rel1" /\ UNCHANGED <<mainOp, lastPauseReason>>
       ELSE Finish /\ lastPauseReason' = "noNetwork"
    /\ UNCHANGED <<receiver, waiting, resumeTimers, mgmtAt, status, inbox, device,
                   process, toProc>>

MainNetworkChange ==
    /\ mainAt = "call" /\ mainOp = "networkChange"
    /\ IF waiting
       THEN mainAt' = "rel1" /\ UNCHANGED <<mainOp, toProc>>
       ELSE Finish /\ toProc' = Append(toProc, "network-change")
    /\ UNCHANGED <<receiver, waiting, lastPauseReason, resumeTimers, mgmtAt,
                   status, inbox, device, process>>

\* releaseHoldCmd(): cancel the timer, (sleep,) clear the flag, send the command
ReleaseCancelsTimer ==
    /\ mainAt = "rel1" /\ mainAt' = "rel2"
    /\ resumeTimers' = 0
    /\ UNCHANGED <<receiver, waiting, lastPauseReason, mainOp, mgmtAt, status,
                   inbox, device, process, toProc>>

\* Mutant: the flag stays until the next hold.
ReleaseKeepsWaiting ==
    /\ mainAt = "rel2" /\ mainAt' = "rel3"
    /\ UNCHANGED <<receiver, waiting, lastPauseReason, resumeTimers, mainOp, mgmtAt,
                   status, inbox, device, process, toProc>>

ReleaseClearsWaiting ==
    /\ mainAt = "rel2" /\ mainAt' = "rel3"
    /\ waiting' = FALSE
    /\ UNCHANGED <<receiver, lastPauseReason, resumeTimers, mainOp, mgmtAt,
                   status, inbox, device, process, toProc>>

ReleaseSends ==
    /\ mainAt = "rel3" /\ Finish
    /\ toProc' = Append(toProc, "release")
    /\ lastPauseReason' = IF mainOp = "resume" THEN "noNetwork" ELSE lastPauseReason
    /\ UNCHANGED <<receiver, waiting, resumeTimers, mgmtAt, status, inbox, device,
                   process>>

MainHandler ==
    \/ RegisterReceiver \/ ConnectivityAction \/ ScreenOff \/ ScreenOn
    \/ \E pause \in BOOLEAN : UserPause(pause)

MainCall ==
    \/ ScreenOnDecides
    \/ MainPause \/ MainUsr1 \/ MainShow \/ MainResume \/ MainNetworkChange
    \/ ReleaseCancelsTimer \/ ReleaseClearsWaiting \/ ReleaseSends

-----------------------------------------------------------------------------
(* The management thread: one line at a time.                               *)

Read(line) ==
    /\ mgmtAt = "read" /\ toMgmt # <<>> /\ Head(toMgmt) = line
    /\ toMgmt' = Tail(toMgmt)

\* processState: >STATE: lines are shown
ReadState ==
    \E line \in StateLines :
        /\ Read(line)
        /\ status' = line
        /\ UNCHANGED <<receiver, waiting, lastPauseReason, resumeTimers, mainAt,
                       mainOp, mgmtAt, inbox, device, proc, toProc>>

\* Mutant: the hold is noted only if it is to be released by the timer.
HoldNotedIfRunning == ShouldBeConnected

HoldNoted == TRUE

\* handleHold: the flag first, ...
ReadHold ==
    /\ Read("HOLD")
    /\ waiting' = HoldNoted
    /\ mgmtAt' = "hold"
    /\ UNCHANGED <<receiver, lastPauseReason, resumeTimers, mainAt, mainOp, status,
                   inbox, device, proc, toProc>>

\* Mutant: a hold that is kept is not shown.
HoldKeptSilently == ~ShouldBeConnected /\ mgmtAt' = "read" /\ UNCHANGED status

HoldKept == ~ShouldBeConnected /\ mgmtAt' = "show" /\ UNCHANGED status

\* ... then the test of shouldBeRunning(), with the retry delay the process chose
HoldTest ==
    /\ mgmtAt = "hold"
    /\ \/ /\ ShouldBeConnected
          /\ mgmtAt' = "post"
          /\ status' \in {status, "CONNECTRETRY"}
       \/ HoldKept
    /\ UNCHANGED <<receiver, waiting, lastPauseReason, resumeTimers, mainAt,
                   mainOp, inbox, device, process, toProc>>

HoldPost ==
    /\ mgmtAt = "post" /\ mgmtAt' = "read"
    /\ resumeTimers' = resumeTimers + 1
    /\ UNCHANGED <<receiver, waiting, lastPauseReason, mainAt, mainOp, status,
                   inbox, device, process, toProc>>

\* updateStatePause(lastPauseReason): end of handleHold, or of signalusr1()
MgmtShow ==
    /\ mgmtAt = "show" /\ mgmtAt' = "read"
    /\ status' = PauseState(lastPauseReason)
    /\ UNCHANGED <<receiver, waiting, lastPauseReason, resumeTimers, mainAt,
                   mainOp, inbox, device, process, toProc>>

\* updateByteCount: only looked at while the screen is off, and nothing happens
\* unless the traffic of the last minute is below the limit
ReadByteCount ==
    /\ Read("BYTECOUNT")
    /\ mgmtAt' \in IF registered /\ screen = PENDING THEN {"read", "low"} ELSE {"read"}
    /\ UNCHANGED <<receiver, waiting, lastPauseReason, resumeTimers, mainAt,
                   mainOp, status, inbox, device, proc, toProc>>

LowTraffic ==
    /\ mgmtAt = "low" /\ mgmtAt' = "reason"
    /\ screen' = DISC
    /\ UNCHANGED <<network, userpause, lastNet, disconnectTimers, registered,
                   waiting, lastPauseReason, resumeTimers, mainAt, mainOp, status,
                   inbox, device, process, toProc>>

\* the same getPauseReason(), pause(reason) and signalusr1() on this thread
MgmtReason ==
    /\ mgmtAt = "reason"
    /\ mgmtAt' = GetPauseReason(network, screen, userpause)
    /\ UNCHANGED <<receiver, waiting, lastPauseReason, resumeTimers, mainAt, mainOp,
                   status, inbox, device, process, toProc>>

MgmtPause ==
    /\ mgmtAt \in PauseReason
    /\ lastPauseReason' = mgmtAt
    /\ resumeTimers' = 0
    /\ mgmtAt' = IF waiting THEN "show" ELSE "usr1"
    /\ UNCHANGED <<receiver, waiting, mainAt, mainOp, status, inbox, device,
                   process, toProc>>

MgmtUsr1 ==
    /\ mgmtAt = "usr1" /\ mgmtAt' = "read"
    /\ toProc' = Append(toProc, "usr1")
    /\ UNCHANGED <<receiver, waiting, lastPauseReason, resumeTimers, mainAt,
                   mainOp, status, inbox, device, process>>

MgmtThread ==
    \/ ReadState \/ ReadHold \/ HoldTest \/ HoldPost \/ MgmtShow
    \/ ReadByteCount \/ LowTraffic \/ MgmtReason \/ MgmtPause
    \/ MgmtUsr1

-----------------------------------------------------------------------------
(* The openvpn process (external), run with --management-hold.              *)

app == <<receiver, waiting, lastPauseReason, resumeTimers, mainAt, mainOp,
         mgmtAt, status, inbox>>

Restart ==
    proc' = "hold" /\ toMgmt' = toMgmt \o <<"RECONNECTING", "HOLD">>

\* a release outside a hold, and a network change, do not move it
ProcCommand ==
    /\ toProc # <<>> /\ toProc' = Tail(toProc)
    /\ \/ Head(toProc) = "usr1" /\ Restart
       \/ /\ Head(toProc) = "release" /\ proc = "hold"
          /\ proc' = "connecting" /\ toMgmt' = Append(toMgmt, "CONNECTING")
       \/ /\ Head(toProc) = "network-change" \/ (Head(toProc) = "release" /\ proc # "hold")
          /\ UNCHANGED process
    /\ UNCHANGED <<app, device>>

ProcConnect ==
    /\ proc = "connecting" /\ proc' = "connected"
    /\ toMgmt' = Append(toMgmt, "CONNECTED")
    /\ UNCHANGED <<app, device, toProc>>

ProcByteCount ==
    /\ proc = "connected" /\ toMgmt = <<>>
    /\ toMgmt' = <<"BYTECOUNT">>
    /\ UNCHANGED <<app, device, proc, toProc>>

Happens(kind) == kind \in Happenings /\ spent < MaxEvents /\ spent' = spent + 1

ProcDrop ==
    /\ proc # "hold" /\ Restart
    /\ Happens("drop")
    /\ UNCHANGED <<app, curNet, screenOn, toProc>>

-----------------------------------------------------------------------------
(* The device and its user.  A broadcast reaches registered receivers only. *)

Broadcast(e) == inbox' = IF registered THEN Append(inbox, e) ELSE inbox

afterInbox == <<receiver, waiting, lastPauseReason, resumeTimers, mainAt, mainOp,
                mgmtAt, status, process, toProc>>

NetworkMoves ==
    /\ Happens("net")
    /\ curNet' \in (Networks \cup {NoNet, HalfUp}) \ {curNet}
    /\ Broadcast("conn")
    /\ UNCHANGED <<afterInbox, screenOn>>

ScreenSwitches ==
    /\ Happens("screen")
    /\ screenOn' = ~screenOn
    /\ Broadcast(IF screenOn THEN "off" ELSE "on")
    /\ UNCHANGED <<afterInbox, curNet>>

\* The notification offers Resume while isUserPaused() and Pause otherwise.
Tap ==
    /\ registered
    /\ DoubleTap \/ ~(In("pause", inbox) \/ In("resume", inbox))
    /\ Happens("tap")
    /\ inbox' = Append(inbox, IF userpause = DISC THEN "resume" ELSE "pause")
    /\ UNCHANGED <<afterInbox, curNet, screenOn>>

Environment == ProcDrop \/ NetworkMoves \/ ScreenSwitches \/ Tap

Next ==
    \/ MainHandler \/ DelayDisconnect \/ ResumeHold \/ MainCall
    \/ MgmtThread
    \/ ProcCommand \/ ProcConnect \/ ProcByteCount
    \/ Environment

Spec == Init /\ [][Next]_vars

(* The looper serves its messages and due runnables, the management thread  *)
(* reads its socket, the process reads its commands and a server answers.   *)
(* The environment owes nothing.                                            *)
Fairness ==
    /\ WF_vars(MainHandler) /\ WF_vars(MainCall)
    /\ SF_vars(DelayDisconnect) /\ SF_vars(ResumeHold)
    /\ WF_vars(MgmtThread)
    /\ WF_vars(ProcCommand) /\ WF_vars(ProcConnect)

FairSpec == Spec /\ Fairness
-----------------------------------------------------------------------------
(* Properties                                                               *)

\* Every variable keeps the type its field, thread position or queue has.
TypeOK ==
    /\ {network, screen} \subseteq ConnectState /\ userpause \in {SHOULD, DISC}
    /\ lastNet \in Networks \cup {NoNet} /\ disconnectTimers \in Nat
    /\ {registered, waiting, screenOn} \subseteq BOOLEAN
    /\ lastPauseReason \in PauseReason /\ resumeTimers \in Nat
    /\ mainAt \in MainAt /\ mainOp \in MainOp /\ mgmtAt \in MgmtAt
    /\ status \in PausedStates \cup StateLines \cup {"VPN_GENERATE_CONFIG", "CONNECTRETRY"}
    /\ inbox \in Seq(Events)
    /\ curNet \in Networks \cup {NoNet, HalfUp} /\ spent \in 0..MaxEvents
    /\ proc \in {"hold", "connecting", "connected"}
    /\ toProc \in Seq(Commands) /\ toMgmt \in Seq(Lines)

\* Nothing is under way in the app, in the process or between them.
Settled ==
    /\ mainAt = "idle" /\ mgmtAt = "read"
    /\ inbox = <<>> /\ toProc = <<>> /\ toMgmt = <<>>
    /\ disconnectTimers = 0 /\ resumeTimers = 0

\* The handshake of the hold never loses a hold: while the process is held,
\* the app has its HOLD line still to read, or knows that it waits, or has
\* already decided to release it.
HoldIsKnown ==
    proc = "hold" => \/ waiting
                     \/ In("HOLD", toMgmt) \/ In("release", toProc)
                     \/ mainAt = "rel3"

\* No lost wake-up: a process known to wait, although nothing speaks against
\* running, has a runnable posted that will release it, whatever the order in
\* which the two threads saw the hold and the events.
ReleaseIsArmed ==
    waiting /\ ShouldBeConnected /\ mainAt = "idle" /\ mgmtAt = "read"
        => resumeTimers > 0

\* Once everything has settled, a VPN that should be connected is not held.
NotHeldWhenWanted == Settled /\ ShouldBeConnected => proc # "hold"

\* A pause asked for by the user keeps the process held (PauseHolds in HoldHistory is
\* this without the late HOLD lines).
UserPauseHolds == Settled /\ userpause = DISC => proc = "hold"

\* DISCONNECTED by the screen means that the VPN is really paused.
ScreenPauseHolds == Settled /\ screen = DISC => proc = "hold"

\* With the screen on (and its broadcast handled), it is no reason to pause.
ScreenOnCounts == Settled /\ registered /\ screenOn => screen = SHOULD

\* A lost network is noticed, after the grace period, as a reason to pause.
NetworkLossDetected ==
    Settled /\ registered /\ NetChangePref /\ curNet = NoNet => network = DISC

\* A held process is shown as paused, not as connecting.
HoldIsShown == Settled /\ proc = "hold" => status \in PausedStates

\* The reason shown for a pause by the user is the user.
UserPauseShown == Settled /\ userpause = DISC /\ proc = "hold" => status = "USERPAUSE"

\* The main looper never decides to release a hold the user asked for.
NoReleaseWhilePausedByUser ==
    [][mainAt # "rel1" /\ mainAt' = "rel1" => userpause # DISC]_vars

\* Neither the network nor the user speaks against running.
Wanted == network = SHOULD /\ userpause = SHOULD

\* A call that will release is under way, or a release on the socket.
ReleaseIsDue ==
    \/ mainAt = "call" /\ mainOp \in {"resume", "networkChange"}
    \/ mainAt \in {"rel1", "rel2", "rel3"} \/ In("release", toProc)

Promise == INSTANCE HoldProtocol
               WITH held <- (proc = "hold"), wanted <- Wanted, due <- ReleaseIsDue

\* Two threads, timers and a socket keep what HoldProtocol promises: the process
\* leaves its hold only by a release decided while it was wanted.
KeepsPromise == Promise!Spec

\* Whatever happens, everything settles again.
SettlesAgain == []<>Settled

\* In the end a VPN that should be connected is connected.
EventuallyConnected == <>[]ShouldBeConnected => <>[](proc = "connected")
=============================================================================
