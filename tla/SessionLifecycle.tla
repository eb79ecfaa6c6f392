-------------------------- MODULE SessionLifecycle --------------------------
(***************************************************************************)
(* Starting, replacing and stopping VPN sessions in one OpenVPNService.    *)
(*                                                                         *)
(* Every start runs startOpenVPN() on a thread of its own, which stops the *)
(* previous session and then creates a management thread, a process thread *)
(* and the openvpn process.  A process thread ends with endVpnService(),   *)
(* which clears fields of the service that a later session may own by      *)
(* then.  One action is what a thread does between two accesses to state   *)
(* other threads change.  A service instance that was destroyed is not     *)
(* started again in this module.                                           *)
(***************************************************************************)
EXTENDS Naturals, Sequences, FiniteSets

CONSTANTS
    Sessions,     \* one element per start of the VPN
    None,         \* null
    Prompt,       \* an old session ends within the sleeps of stopOldOpenVPNProcess
    Overlap,      \* what may fall into a start, an end or a dialog still under way:
                  \*   "start", "stop", "exit" (of a process, by itself)
    Faults,       \* what may fail in a start: "config", "management", "exec"
    Talkers,      \* the sessions whose process logs its state to the management socket
    MaxStops      \* bound on Disconnect taps and revocations

ASSUME ConstantsAssumption ==
    /\ None \notin Sessions /\ IsFiniteSet(Sessions) /\ Talkers \subseteq Sessions
    /\ Prompt \in BOOLEAN /\ Overlap \subseteq {"start", "stop", "exit"} /\ MaxStops \in Nat
    /\ Faults \subseteq {"config", "management", "exec"}

VARIABLES
    mManagement, mOpenVPNThread, mProcessThread, mStarting,  \* OpenVPNService
    receiver,        \* session whose management mDeviceStateReceiver drives
    lock,            \* holder of mProcessLock across a sleep
    stopRequested, serviceUp,
    lastProfile,     \* preference LAST_CONNECTED_PROFILE
    status,          \* VpnStatus.mLaststate
    late,            \* history: status comes from a line shown after its process thread ended
    active,          \* OpenVpnManagementThread.active
    socket,          \* mSocket of each management thread
    shuttingDown,    \* mShuttingDown
    unread,          \* the >STATE: line in each socket, at most one at a time
    line,            \* the line each management thread has checked and not yet shown
    delivering,      \* session for which onStartCommand() has yet to finish
    starter,         \* where each startOpenVPN() thread is
    posted,          \* registrations posted to the main looper
    pthread,         \* where each OpenVPNThread is
    noExitStatus,    \* mNoProcessExitStatus
    interrupted,     \* interrupt flag of each process thread
    proc,            \* the openvpn processes
    end,             \* where each thread is in endVpnService()
    dialog,          \* the dialog of DisconnectVPN is open
    wanted,          \* the start not yet superseded, disconnected or revoked
    stops            \* Disconnect taps and revocations so far

service == <<mManagement, mOpenVPNThread, mProcessThread, mStarting, receiver,
             lock, stopRequested, serviceUp>>
shown   == <<status, late>>
mgmt    == <<active, socket, shuttingDown, unread, line>>
threads == <<delivering, starter, posted, pthread, noExitStatus, interrupted, end>>
user    == <<dialog, wanted, stops>>
vars    == <<service, lastProfile, shown, mgmt, threads, proc, user>>

Process(k) == <<"process", k>>
Starter(k) == <<"starter", k>>
Main       == <<"main", None>>
Threads    == {Main} \cup {Process(k) : k \in Sessions} \cup {Starter(k) : k \in Sessions}

StarterAt == {"none", "tapped", "config", "mark", "stopOld", "wait", "force", "hold",
              "clear", "open", "thread", "spawn", "post", "done"}
PthreadAt == {"none", "exec", "reading", "waitFor", "died", "ended"}
EndAt     == {"no", "lock", "receiver", "profile", "decide", "done"}
SocketAt  == {"none", "starting", "accepting", "open", "closed", "gone"}
ProcAt    == {"none", "alive", "stopping", "dead"}
Lines     == {"CONNECTED", "EXITING"}
Statuses  == Lines \cup {"NOPROCESS", "VPN_GENERATE_CONFIG", "DISCONNECTING"}

\* VpnStatus.isVPNActive()
IsVPNActive == status \in {"VPN_GENERATE_CONFIG", "CONNECTED", "DISCONNECTING"}

StarterBusy(k) == starter[k] \notin {"none", "done"}
AtRest(t) == end[t] \in {"no", "done"}
MainFree == AtRest(Main) /\ delivering = None
Ended(k) == proc[k] = "dead" /\ pthread[k] = "ended" /\ AtRest(Process(k))

\* No thread of the app has anything left to do and no process is going away.
Through ==
    /\ posted = {} /\ delivering = None
    /\ \A t \in Threads : AtRest(t)
    /\ \A k \in Sessions :
          /\ ~StarterBusy(k)
          /\ \/ socket[k] \in {"none", "gone"}
             \/ socket[k] = "accepting" /\ proc[k] # "alive"
             \/ socket[k] = "open" /\ proc[k] = "alive"
          /\ \/ pthread[k] \in {"none", "ended"} /\ proc[k] # "stopping"
             \/ pthread[k] = "reading" /\ proc[k] = "alive"

MayHappen(kind) == kind \in Overlap \/ (Through /\ ~dialog)

Init ==
    /\ mManagement = None /\ mOpenVPNThread = None /\ mProcessThread = None
    /\ mStarting = FALSE /\ receiver = None /\ lock = None
    /\ stopRequested = FALSE /\ serviceUp = TRUE
    /\ lastProfile = None /\ status = "NOPROCESS" /\ late = FALSE
    /\ active = <<>>
    /\ socket = [k \in Sessions |-> "none"]
    /\ shuttingDown = [k \in Sessions |-> FALSE]
    /\ unread = [k \in Sessions |-> "none"]
    /\ line = [k \in Sessions |-> "none"]
    /\ delivering = None
    /\ starter = [k \in Sessions |-> "none"]
    /\ posted = {}
    /\ pthread = [k \in Sessions |-> "none"]
    /\ noExitStatus = [k \in Sessions |-> FALSE]
    /\ interrupted = [k \in Sessions |-> FALSE]
    /\ proc = [k \in Sessions |-> "none"]
    /\ end = [t \in Threads |-> "no"]
    /\ dialog = FALSE /\ wanted = None /\ stops = 0

-----------------------------------------------------------------------------
(* stopOpenVPN(): SIGINT through, and close of, the socket of every active  *)
(* management thread; the result is that of the last one, which fails when  *)
(* there is no process at the other end (any more).                         *)

\* Mutant: only the oldest management thread is asked.
ClosedOldest == {k \in Sessions : socket[k] = "open" /\ active # <<>> /\ active[1] = k}

Closed == {k \in Sessions : socket[k] = "open" /\ \E i \in DOMAIN active : active[i] = k}

Signalled == {k \in Closed : proc[k] # "dead"}

StopResult == active # <<>> /\ active[Len(active)] \in Signalled

\* stopVPN(): stopOpenVPN(), after which STATE lines of m are ignored if it succeeded
StopVPN(m) ==
    /\ socket' = [k \in Sessions |-> IF k \in Closed THEN "closed" ELSE socket[k]]
    /\ proc' = [k \in Sessions |-> IF k \in Signalled /\ proc[k] = "alive"
                                   THEN "stopping" ELSE proc[k]]
    /\ shuttingDown' = [shuttingDown EXCEPT ![m] = @ \/ StopResult]
    /\ UNCHANGED <<active, unread, line>>

-----------------------------------------------------------------------------
(* endVpnService(), run by a process thread whose process died, by a        *)
(* starter that failed, or by the main thread when the VPN is revoked.      *)

EndAs(t) == end' = [end EXCEPT ![t] = "lock"]

EndLock(t) ==
    /\ end[t] = "lock" /\ lock = None
    /\ mProcessThread' = None
    /\ end' = [end EXCEPT ![t] = "receiver"]
    /\ UNCHANGED <<mManagement, mOpenVPNThread, mStarting, receiver, lock,
                   stopRequested, serviceUp, lastProfile, shown, mgmt, starter,
                   posted, pthread, noExitStatus, interrupted, proc, delivering, user>>

EndReceiver(t) ==
    /\ end[t] = "receiver"
    /\ receiver' = None
    /\ end' = [end EXCEPT ![t] = "profile"]
    /\ UNCHANGED <<mManagement, mOpenVPNThread, mProcessThread, mStarting, lock,
                   stopRequested, serviceUp, lastProfile, shown, mgmt, starter,
                   posted, pthread, noExitStatus, interrupted, proc, delivering, user>>

\* Mutant: the profile to connect to stays.
EndProfileKeeps(t) ==
    /\ end[t] = "profile"
    /\ mOpenVPNThread' = None
    /\ end' = [end EXCEPT ![t] = "decide"]
    /\ UNCHANGED <<mManagement, mProcessThread, mStarting, receiver, lock,
                   stopRequested, serviceUp, lastProfile, shown, mgmt, starter, posted,
                   pthread, noExitStatus, interrupted, proc, delivering, user>>

EndProfile(t) ==
    /\ end[t] = "profile"
    /\ lastProfile' = None /\ mOpenVPNThread' = None
    /\ end' = [end EXCEPT ![t] = "decide"]
    /\ UNCHANGED <<mManagement, mProcessThread, mStarting, receiver, lock,
                   stopRequested, serviceUp, shown, mgmt, starter, posted, pthread,
                   noExitStatus, interrupted, proc, delivering, user>>

\* Mutants: the service always stops itself; it never does.
StopsAlways == TRUE
StopsNever == FALSE

StopsSelf == ~mStarting

EndDecide(t) ==
    /\ end[t] = "decide"
    /\ stopRequested' = (stopRequested \/ StopsSelf)
    /\ end' = [end EXCEPT ![t] = "done"]
    /\ UNCHANGED <<mManagement, mOpenVPNThread, mProcessThread, mStarting, receiver,
                   lock, serviceUp, lastProfile, shown, mgmt, starter, posted,
                   pthread, noExitStatus, interrupted, proc, delivering, user>>

EndVpnService(t) == EndLock(t) \/ EndReceiver(t) \/ EndProfile(t) \/ EndDecide(t)

-----------------------------------------------------------------------------
(* startOpenVPN() of start k                                                *)

Goto(k, at) == starter' = [starter EXCEPT ![k] = at]

\* DashBoard starts the VPN while it is not active; LaunchVPN (run by other parties)
\* and the system (always-on VPN) also while it is.  startService() takes back an
\* earlier stopSelf() that has not led to onDestroy() yet.
RequestStart(k) ==
    /\ starter[k] = "none" /\ serviceUp
    /\ MayHappen("start")
    /\ Goto(k, "tapped")
    /\ wanted' = k /\ stopRequested' = FALSE
    /\ UNCHANGED <<mManagement, mOpenVPNThread, mProcessThread, mStarting, receiver,
                   lock, serviceUp, stops, dialog, lastProfile, shown, mgmt, posted, pthread,
                   noExitStatus, interrupted, end, proc, delivering>>

\* onStartCommand(), on the main thread, starts the thread of startOpenVPN() ...
OnStartCommand(k) ==
    /\ starter[k] = "tapped" /\ MainFree /\ serviceUp
    /\ Goto(k, "config") /\ delivering' = k
    /\ UNCHANGED <<service, lastProfile, shown, mgmt, posted, pthread,
                   noExitStatus, interrupted, end, proc, user>>

\* ... and then stores the profile to connect to if the service restarts.
SetConnectedProfile ==
    /\ delivering # None /\ delivering' = None
    /\ lastProfile' = delivering
    /\ UNCHANGED <<service, shown, mgmt, starter, posted, pthread, noExitStatus,
                   interrupted, end, proc, user>>

\* The configuration is written, or that fails and the service ends.
GenerateConfig(k) ==
    /\ starter[k] = "config"
    /\ status' = "VPN_GENERATE_CONFIG" /\ late' = FALSE
    /\ \/ Goto(k, "mark") /\ UNCHANGED end
       \/ "config" \in Faults /\ Goto(k, "done") /\ EndAs(Starter(k))
    /\ UNCHANGED <<service, lastProfile, mgmt, posted, pthread, noExitStatus,
                   interrupted, proc, delivering, user>>

MarkStarting(k) ==
    /\ starter[k] = "mark" /\ Goto(k, "stopOld")
    /\ mStarting' = TRUE
    /\ UNCHANGED <<mManagement, mOpenVPNThread, mProcessThread, receiver, lock,
                   stopRequested, serviceUp, lastProfile, shown, mgmt, posted,
                   pthread, noExitStatus, interrupted, end, proc, delivering, user>>

\* Mutant: the thread of the old session is not told that it is replaced.
ReplacedNever(j) == FALSE

\* setReplaceConnection()
Replaced(j) == j = mOpenVPNThread

\* Mutant: the old session is left alone.
StopOldNever(k) ==
    /\ starter[k] = "stopOld" /\ Goto(k, "clear")
    /\ UNCHANGED <<service, lastProfile, shown, mgmt, posted, pthread, noExitStatus,
                   interrupted, end, proc, delivering, user>>

\* stopOldOpenVPNProcess() up to its sleep
StopOld(k) ==
    /\ starter[k] = "stopOld"
    /\ \/ /\ mManagement = None
          /\ Goto(k, "force") /\ UNCHANGED <<noExitStatus, mgmt, proc>>
       \/ /\ mManagement # None
          /\ noExitStatus' = [j \in Sessions |-> noExitStatus[j] \/ Replaced(j)]
          /\ StopVPN(mManagement)
          /\ Goto(k, IF StopResult THEN "wait" ELSE "force")
    /\ UNCHANGED <<service, lastProfile, shown, posted, pthread, interrupted, end,
                   delivering, user>>

\* Thread.sleep(1000) after the old session was asked to exit
Wait(k) ==
    /\ starter[k] = "wait" /\ Goto(k, "force")
    /\ Prompt => \A j \in Sessions : proc[j] \in {"stopping", "dead"} => Ended(j)
    /\ UNCHANGED <<service, lastProfile, shown, mgmt, posted, pthread,
                   noExitStatus, interrupted, end, proc, delivering, user>>

\* forceStopOpenVpnProcess(): interrupt the old process thread, if any, and
\* sleep with mProcessLock held
ForceStop(k) ==
    /\ starter[k] = "force" /\ lock = None
    /\ \/ /\ mProcessThread = None
          /\ Goto(k, "clear") /\ UNCHANGED <<lock, interrupted>>
       \/ /\ mProcessThread # None
          /\ interrupted' = [interrupted EXCEPT ![mProcessThread] = TRUE]
          /\ lock' = k /\ Goto(k, "hold")
    /\ UNCHANGED <<mManagement, mOpenVPNThread, mProcessThread, mStarting, receiver,
                   stopRequested, serviceUp, lastProfile, shown, mgmt, posted,
                   pthread, noExitStatus, end, proc, delivering, user>>

\* Mutant: the old process thread is joined with mProcessLock held.
ForceStopJoins(k) == starter[k] = "hold" /\ \A j \in Sessions : j = mProcessThread => Ended(j)

ForceStopSlept(k) == starter[k] = "hold"

ForceStopped(k) ==
    /\ ForceStopSlept(k) /\ Goto(k, "clear")
    /\ lock' = None
    /\ UNCHANGED <<mManagement, mOpenVPNThread, mProcessThread, mStarting, receiver,
                   stopRequested, serviceUp, lastProfile, shown, mgmt, posted,
                   pthread, noExitStatus, interrupted, end, proc, delivering, user>>

ClearStarting(k) ==
    /\ starter[k] = "clear" /\ Goto(k, "open")
    /\ mStarting' = FALSE
    /\ UNCHANGED <<mManagement, mOpenVPNThread, mProcessThread, receiver, lock,
                   stopRequested, serviceUp, lastProfile, shown, mgmt, posted,
                   pthread, noExitStatus, interrupted, end, proc, delivering, user>>

\* The management interface is opened and its thread started, or that fails.
OpenManagement(k) ==
    /\ starter[k] = "open"
    /\ \/ /\ Goto(k, "thread") /\ mManagement' = k
          /\ socket' = [socket EXCEPT ![k] = "starting"] /\ UNCHANGED end
       \/ /\ "management" \in Faults /\ Goto(k, "done") /\ EndAs(Starter(k))
          /\ UNCHANGED <<mManagement, socket>>
    /\ UNCHANGED <<mOpenVPNThread, mProcessThread, mStarting, receiver, lock,
                   stopRequested, serviceUp, lastProfile, shown, active,
                   shuttingDown, unread, line, posted, pthread, noExitStatus, interrupted, proc,
                   delivering, user>>

CreateThread(k) ==
    /\ starter[k] = "thread" /\ Goto(k, "spawn")
    /\ mOpenVPNThread' = k
    /\ UNCHANGED <<mManagement, mProcessThread, mStarting, receiver, lock,
                   stopRequested, serviceUp, lastProfile, shown, mgmt, posted,
                   pthread, noExitStatus, interrupted, end, proc, delivering, user>>

StartThread(k) ==
    /\ starter[k] = "spawn" /\ lock = None /\ Goto(k, "post")
    /\ mProcessThread' = k
    /\ pthread' = [pthread EXCEPT ![k] = "exec"]
    /\ UNCHANGED <<mManagement, mOpenVPNThread, mStarting, receiver, lock,
                   stopRequested, serviceUp, lastProfile, shown, mgmt, posted,
                   noExitStatus, interrupted, end, proc, delivering, user>>

PostRegister(k) ==
    /\ starter[k] = "post" /\ Goto(k, "done")
    /\ posted' = posted \cup {k}
    /\ UNCHANGED <<service, lastProfile, shown, mgmt, pthread, noExitStatus,
                   interrupted, end, proc, delivering, user>>

StartOpenVPN(k) ==
    \/ OnStartCommand(k) \/ GenerateConfig(k) \/ MarkStarting(k) \/ StopOld(k)
    \/ Wait(k) \/ ForceStop(k) \/ ForceStopped(k) \/ ClearStarting(k)
    \/ OpenManagement(k) \/ CreateThread(k) \/ StartThread(k) \/ PostRegister(k)

\* the posted runnable: whatever mManagement is by now gets the receiver
RegisterReceiver(k) ==
    /\ k \in posted /\ posted' = posted \ {k} /\ MainFree
    /\ receiver' = mManagement
    /\ UNCHANGED <<mManagement, mOpenVPNThread, mProcessThread, mStarting, lock,
                   stopRequested, serviceUp, lastProfile, shown, mgmt, starter,
                   pthread, noExitStatus, interrupted, end, proc, delivering, user>>

-----------------------------------------------------------------------------
(* Management thread of session k                                           *)

ActiveAdd(k) ==
    /\ socket[k] = "starting"
    /\ socket' = [socket EXCEPT ![k] = "accepting"]
    /\ active' = Append(active, k)
    /\ UNCHANGED <<service, lastProfile, shown, shuttingDown, unread, line, threads, proc, user>>

Accept(k) ==
    /\ socket[k] = "accepting" /\ proc[k] = "alive"
    /\ socket' = [socket EXCEPT ![k] = "open"]
    /\ UNCHANGED <<service, lastProfile, shown, active, shuttingDown, unread, line, threads,
                   proc, user>>

\* read() and processCommand() of a line, up to the test of mShuttingDown.  The
\* process may be dead, and the socket closed since its last bytes were read.
ReadState(k) ==
    /\ socket[k] \in {"open", "closed"} /\ unread[k] # "none" /\ line[k] = "none"
    /\ unread' = [unread EXCEPT ![k] = "none"]
    /\ line' = [line EXCEPT ![k] = IF shuttingDown[k] THEN "none" ELSE unread[k]]
    /\ UNCHANGED <<service, lastProfile, shown, active, socket, shuttingDown, threads, proc,
                   user>>

\* processState()
ShowState(k) ==
    /\ line[k] # "none" /\ line' = [line EXCEPT ![k] = "none"]
    /\ status' = line[k] /\ late' = (pthread[k] = "ended")
    /\ UNCHANGED <<service, lastProfile, active, socket, shuttingDown, unread, threads, proc,
                   user>>

\* active.remove(), of element i; a thread is there once.
Without(q, i) == [j \in 1..(Len(q) - 1) |-> q[IF j < i THEN j ELSE j + 1]]

\* The read loop ends: by return at the end of the stream, which leaves the
\* thread in active, or by an IOException, which a closed socket throws whatever
\* is left in it.
MgmtEnds(k) ==
    /\ line[k] = "none"
    /\ \/ socket[k] = "closed"
       \/ socket[k] = "open" /\ proc[k] = "dead" /\ unread[k] = "none"
    /\ socket' = [socket EXCEPT ![k] = "gone"]
    /\ unread' = [unread EXCEPT ![k] = "none"]
    /\ \/ UNCHANGED active
       \/ \E i \in DOMAIN active : active[i] = k /\ active' = Without(active, i)
    /\ UNCHANGED <<service, lastProfile, shown, shuttingDown, line, threads, proc, user>>

MgmtThread(k) == ActiveAdd(k) \/ Accept(k) \/ ReadState(k) \/ ShowState(k) \/ MgmtEnds(k)

-----------------------------------------------------------------------------
(* Process thread of session k                                              *)

Exec(k) ==
    /\ pthread[k] = "exec"
    /\ \/ /\ pthread' = [pthread EXCEPT ![k] = "reading"]
          /\ proc' = [proc EXCEPT ![k] = "alive"]
       \/ /\ "exec" \in Faults
          /\ pthread' = [pthread EXCEPT ![k] = "died"]
          /\ UNCHANGED proc
    /\ UNCHANGED <<service, lastProfile, shown, mgmt, starter, posted, noExitStatus,
                   interrupted, end, delivering, user>>

\* end of the process output
ReadEnds(k) ==
    /\ pthread[k] = "reading" /\ proc[k] = "dead"
    /\ pthread' = [pthread EXCEPT ![k] = "waitFor"]
    /\ UNCHANGED <<service, lastProfile, shown, mgmt, starter, posted, noExitStatus,
                   interrupted, end, proc, delivering, user>>

\* a line of output read with the interrupt flag set: destroy()
ReadInterrupted(k) ==
    /\ pthread[k] = "reading" /\ proc[k] # "dead" /\ interrupted[k]
    /\ pthread' = [pthread EXCEPT ![k] = "waitFor"]
    /\ interrupted' = [interrupted EXCEPT ![k] = FALSE]
    /\ proc' = [proc EXCEPT ![k] = "stopping"]
    /\ UNCHANGED <<service, lastProfile, shown, mgmt, starter, posted, noExitStatus,
                   end, delivering, user>>

\* waitFor() returns, or throws because the thread is interrupted
WaitFor(k) ==
    /\ pthread[k] = "waitFor" /\ (proc[k] = "dead" \/ interrupted[k])
    /\ pthread' = [pthread EXCEPT ![k] = "died"]
    /\ UNCHANGED <<service, lastProfile, shown, mgmt, starter, posted, noExitStatus,
                   interrupted, end, proc, delivering, user>>

\* Mutant: NOPROCESS is not shown.
DiedSilently(k) == status

DiedStatus(k) == IF noExitStatus[k] THEN status ELSE "NOPROCESS"

ProcessDied(k) ==
    /\ pthread[k] = "died"
    /\ pthread' = [pthread EXCEPT ![k] = "ended"]
    /\ status' = DiedStatus(k) /\ late' = (late /\ noExitStatus[k])
    /\ EndAs(Process(k))
    /\ UNCHANGED <<service, lastProfile, mgmt, starter, posted, noExitStatus,
                   interrupted, proc, delivering, user>>

ProcessThread(k) == Exec(k) \/ ReadEnds(k) \/ WaitFor(k) \/ ProcessDied(k)

(* The openvpn process (external): it tells its state once it is connected, *)
(* may exit by itself, and does so when it was signalled.                   *)
ProcSays(k) ==
    /\ k \in Talkers /\ socket[k] = "open" /\ unread[k] = "none"
    /\ \/ proc[k] = "alive" /\ unread' = [unread EXCEPT ![k] = "CONNECTED"]
       \/ proc[k] = "stopping" /\ unread' = [unread EXCEPT ![k] = "EXITING"]
    /\ UNCHANGED <<service, lastProfile, shown, active, socket, shuttingDown, line, threads,
                   proc, user>>

ProcExits(k) ==
    /\ proc' = [proc EXCEPT ![k] = "dead"]
    /\ UNCHANGED <<service, lastProfile, shown, mgmt, threads, user>>

ProcStops(k)  == proc[k] = "stopping" /\ ProcExits(k)
ProcGivesUp(k) == proc[k] = "alive" /\ MayHappen("exit") /\ ProcExits(k)

-----------------------------------------------------------------------------
(* The user and the system, on the main thread                              *)

StopSession ==
    /\ lastProfile' = None /\ wanted' = None
    /\ IF mManagement = None THEN UNCHANGED <<mgmt, proc>> ELSE StopVPN(mManagement)

\* DashBoard opens DisconnectVPN, which binds to the service, on an active VPN only ...
OpenDialog ==
    /\ MayHappen("stop") /\ stops < MaxStops /\ stops' = stops + 1
    /\ IsVPNActive /\ ~dialog /\ serviceUp
    /\ dialog' = TRUE
    /\ UNCHANGED <<service, lastProfile, shown, mgmt, threads, proc, wanted>>

\* ... and the user confirms it some time later: stopVPN() of DisconnectVPN.
ConfirmDialog ==
    /\ "stop" \in Overlap \/ Through
    /\ MainFree /\ dialog /\ dialog' = FALSE
    /\ status' = "DISCONNECTING"
    /\ StopSession
    /\ UNCHANGED <<service, late, threads, stops>>

\* ... or changes their mind.
CancelDialog ==
    /\ dialog /\ dialog' = FALSE
    /\ UNCHANGED <<service, lastProfile, shown, mgmt, threads, proc, wanted, stops>>

\* the intent DISCONNECT_VPN, without the dialog
DisconnectIntent ==
    /\ MayHappen("stop") /\ stops < MaxStops /\ stops' = stops + 1
    /\ MainFree /\ serviceUp
    /\ StopSession
    /\ UNCHANGED <<service, shown, threads, dialog>>

\* onRevoke(); a revocation before the first session has no management to stop
OnRevoke ==
    /\ MayHappen("stop")
    /\ MainFree /\ serviceUp /\ stops < MaxStops /\ stops' = stops + 1
    /\ wanted' = None /\ mManagement # None
    /\ StopVPN(mManagement)
    /\ EndAs(Main)
    /\ UNCHANGED <<service, lastProfile, shown, starter, posted, pthread,
                   noExitStatus, interrupted, delivering, dialog>>

\* onDestroy(), after stopSelf(), once no activity is bound to the service; it
\* queues behind the starts delivered before
OnDestroy ==
    /\ MainFree /\ serviceUp /\ stopRequested /\ lock = None
    /\ ~dialog /\ \A k \in Sessions : starter[k] # "tapped"
    /\ serviceUp' = FALSE
    /\ IF mProcessThread # None THEN StopVPN(mManagement) ELSE UNCHANGED <<mgmt, proc>>
    /\ receiver' = None
    /\ UNCHANGED <<mManagement, mOpenVPNThread, mProcessThread, mStarting, lock,
                   stopRequested, lastProfile, shown, threads, user>>

Next ==
    \/ \E k \in Sessions :
          \/ RequestStart(k) \/ StartOpenVPN(k) \/ RegisterReceiver(k)
          \/ MgmtThread(k) \/ ProcessThread(k) \/ ReadInterrupted(k)
          \/ ProcSays(k) \/ ProcStops(k) \/ ProcGivesUp(k)
    \/ \E t \in Threads : EndVpnService(t)
    \/ SetConnectedProfile
    \/ OpenDialog \/ ConfirmDialog \/ CancelDialog \/ DisconnectIntent \/ OnRevoke \/ OnDestroy

Spec == Init /\ [][Next]_vars

(* Every thread runs, the main looper serves what is posted to it, and a    *)
(* signalled process exits, but no process need ever log a line.  Users,    *)
(* servers and the system owe nothing, not even that the service is unbound *)
(* and destroyed.                                                           *)
Fairness ==
    /\ \A k \in Sessions :
          /\ WF_vars(StartOpenVPN(k)) /\ WF_vars(RegisterReceiver(k))
          /\ WF_vars(MgmtThread(k)) /\ WF_vars(ProcessThread(k)) /\ WF_vars(ProcStops(k))
    /\ \A t \in Threads : WF_vars(EndVpnService(t))
    /\ WF_vars(SetConnectedProfile)

FairSpec == Spec /\ Fairness

-----------------------------------------------------------------------------
(* Properties                                                               *)

\* Every field, thread position, socket and process keeps its type.
TypeOK ==
    /\ {mManagement, mOpenVPNThread, mProcessThread, receiver, lock, lastProfile,
        delivering, wanted} \subseteq Sessions \cup {None}
    /\ {mStarting, stopRequested, serviceUp, dialog, late} \subseteq BOOLEAN
    /\ status \in Statuses
    /\ active \in Seq(Sessions)
    /\ socket \in [Sessions -> SocketAt]
    /\ {unread, line} \subseteq [Sessions -> {"none"} \cup Lines]
    /\ {shuttingDown, noExitStatus, interrupted} \subseteq [Sessions -> BOOLEAN]
    /\ starter \in [Sessions -> StarterAt]
    /\ posted \subseteq Sessions
    /\ pthread \in [Sessions -> PthreadAt] /\ proc \in [Sessions -> ProcAt]
    /\ end \in [Threads -> EndAt] /\ stops \in 0..MaxStops

\* ... and a stopSelf() has led to onDestroy().
Quiet == Through /\ (stopRequested => ~serviceUp)

Running == {k \in Sessions : proc[k] = "alive"}

\* At most one openvpn process is left running.
OneProcess == Quiet => Cardinality(Running) <= 1

\* A running VPN belongs to the service: stop, replace, pause and resume reach it.
RunningIsOwned ==
    Quiet /\ serviceUp => \A k \in Running :
        mManagement = k /\ mOpenVPNThread = k /\ mProcessThread = k /\ receiver = k

\* No process outlives the service.
NoOrphan == Quiet /\ ~serviceUp => Running = {}

\* While the VPN the user asked for runs, a restarted service finds its profile.
ProfileKept == Quiet /\ serviceUp /\ wanted \in Running => lastProfile = wanted

\* A service restarted by the system does not bring back a VPN that was stopped.
NoRevival == Quiet /\ wanted = None => lastProfile = None

\* Disconnect and revocation stop a VPN that runs, whatever session it is of.  One that
\* is only being started may come up nevertheless.
StopIsKept == Quiet /\ wanted = None => Running = {}

\* A VPN that runs is not shown as gone.
RunningIsShown == Quiet /\ Running # {} => status # "NOPROCESS"

\* A VPN that ended, or never came to run, is not shown as active: the user interface
\* would offer to disconnect it and refuse to start another ...
GoneIsNeverActive == Quiet /\ Running = {} => ~IsVPNActive

\* ... unless its management thread came to show a line after processDied(): nothing
\* takes back what that line says.
GoneIsShown == late \/ GoneIsNeverActive

\* A stop that stopVPN() reported as sent ends the process it was sent to.
SentStopsEnd == \A k \in Sessions : proc[k] = "stopping" ~> Ended(k)

\* Everything comes to rest.
ComesToRest == <>[]Through
=============================================================================
