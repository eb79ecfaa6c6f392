------------------------------- MODULE Launch -------------------------------
(***************************************************************************)
(* From a tap on a server to a session of the service, and back.           *)
(*                                                                         *)
(* DashBoard converts the server to a profile in a background task, adds   *)
(* it to ProfileManager and starts LaunchVPN, an activity without a        *)
(* display of its own.  LaunchVPN looks the profile up, asks the user for  *)
(* the permission the system wants and starts the service, which looks the *)
(* profile up again.  All that happens is told to VpnStatus, and DashBoard *)
(* follows it, as long as it is in front, with a panel that moves up over  *)
(* a cover which keeps touches away.  A tap on the panel brings up         *)
(* DisconnectVPN, which asks the user and then ends the VPN.               *)
(*                                                                         *)
(* A profile is its number.  A session is what SessionLifecycle makes of   *)
(* it; here it only has the stages the user can see, and its states are    *)
(* shown in order.  What the panel says, the loading of the list, which    *)
(* has the same cover, and the way to DisconnectVPN from the notification  *)
(* are left out.                                                           *)
(***************************************************************************)
EXTENDS Naturals, Sequences, FiniteSets

CONSTANTS
    Quick,      \* a tap or the end of the boot may come while a start or an end goes on
    Faults,     \* "config": the profile is refused; "dialog": there is no dialog
                \*   for the permission; "convert", "password": the app crashes
    MaxTaps,    \* bound on the taps on servers,
    MaxKills,   \*   and on the ends of the app
    None        \* null

ASSUME ConstantsAssumption ==
    /\ Quick \in BOOLEAN
    /\ Faults \subseteq {"config", "dialog", "convert", "password"}
    /\ {MaxTaps, MaxKills} \subseteq Nat /\ None \notin Nat

VARIABLES
    dash,        \* DashBoard: "gone", "paused", "resumed"
    panel,       \* connectManagementLayout: one of Positions
    cover,       \* clickPreventingLayout is visible
    asking,      \* DisconnectVPN is in front of all
    late,        \* history: nothing was under way when it was last confirmed
    runnables,   \* states on their way to the main looper
    status,      \* VpnStatus.mLaststate
    converting,  \* the profiles being converted, in the order of execute()
    launches,    \* activities LaunchVPN: [id, own, at], own: on top of DashBoard
    sessions,    \* of the service: [id, at]
    profiles,    \* ProfileManager.instance.profiles
    lastProfile, \* preference LAST_CONNECTED_PROFILE
    restart,     \* the system is going to restart the service
    taps, kills  \* how many there were

dialog  == <<asking, late>>
view    == <<dash, panel, cover, dialog>>
app     == <<converting, launches, sessions>>
manager == <<profiles, lastProfile>>
bounds  == <<taps, kills>>
vars    == <<view, runnables, status, app, manager, restart, bounds>>

\* isVPNActive()
Active(s) == s \notin {"NOPROCESS", "EXITING", "AUTH_FAILED", "USER_VPN_PERMISSION_CANCELLED"}

Init ==
    /\ dash = "gone" /\ panel = "hide" /\ cover = FALSE /\ runnables = <<>>
    /\ asking = FALSE /\ late = FALSE /\ status = "NOPROCESS"
    /\ converting = <<>> /\ launches = {} /\ sessions = {}
    /\ profiles = {} /\ lastProfile = None /\ restart = FALSE
    /\ taps = 0 /\ kills = 0

\* updateStateString(); DashBoard is a listener from onResume() to onPause() and
\* posts the state to the main looper.
UpdateState(s) ==
    /\ status' = s
    /\ runnables' = IF dash = "resumed" THEN Append(runnables, s) ELSE runnables
------------------------------------------------------------------------------
(* The panel of DashBoard                                                     *)

View == [panel |-> panel, cover |-> cover]

Become(v) == panel' = v.panel /\ cover' = v.cover

\* moveManagementLayoutUp(): the position is checked again only when it has stopped.
Up(v) == IF v.panel = "down" THEN [panel |-> "up", cover |-> TRUE] ELSE v

\* Mutant: the cover is forgotten.
DownCovered(v) ==
    IF v.panel = "up" THEN [panel |-> "falling", cover |-> v.cover] ELSE v

\* moveManagementLayoutDown(); hideClickPreventingLayout() does nothing while a
\* VPN is active.
Down(v) ==
    IF v.panel = "up"
    THEN [panel |-> "falling", cover |-> Active(status)]
    ELSE v

\* updateStateToUIThread()
Follows(v, s) ==
    IF \/ s \in {"NOPROCESS", "USER_VPN_PERMISSION_CANCELLED"}
       \/ s = "EXITING" /\ ~Active(status)
    THEN Down(v) ELSE v

\* The main looper runs what was posted.
RunOnUiThread ==
    /\ runnables # <<>> /\ runnables' = Tail(runnables)
    /\ Become(Follows(View, Head(runnables)))
    /\ UNCHANGED <<dash, dialog, status, app, manager, restart, bounds>>

\* The animations end; only the first one asks whether a VPN is active.
PanelArrives ==
    /\ panel \in {"entering", "falling"}
    /\ Become(IF panel = "entering" /\ Active(status)
              THEN Up([View EXCEPT !.panel = "down"])
              ELSE [View EXCEPT !.panel = "down"])
    /\ UNCHANGED <<dash, dialog, runnables, status, app, manager, restart, bounds>>
------------------------------------------------------------------------------
(* DashBoard                                                                  *)

\* LaunchVPN is in front of DashBoard.
Covered == \E l \in launches : l.own

\* A new instance, whose panel is hidden.
Renewed(d) == dash' = d /\ panel' = "hide" /\ cover' = FALSE /\ runnables' = <<>>

Open ==
    /\ dash = "gone" /\ Renewed("paused")
    /\ UNCHANGED <<dialog, status, app, manager, restart, bounds>>

Rotate ==
    /\ dash # "gone" /\ Renewed("paused")
    /\ UNCHANGED <<dialog, status, app, manager, restart, bounds>>

Finish ==
    /\ dash # "gone" /\ ~Covered /\ ~asking /\ Renewed("gone")
    /\ UNCHANGED <<dialog, status, app, manager, restart, bounds>>

Pause ==
    /\ dash = "resumed" /\ dash' = "paused"
    /\ UNCHANGED <<panel, cover, dialog, runnables, status, app, manager, restart, bounds>>

\* Mutant: onResume() does not learn the last state.
ResumedBlindly ==
    IF View.panel = "hide" THEN [View EXCEPT !.panel = "entering"] ELSE View

\* onResume(): addStateListener() tells the last state; onPostResume(): a panel that
\* is down goes up if a VPN is active; with the focus the first animation starts.
Resumed ==
    LET told == Follows(View, status)
        seen == IF Active(status) THEN Up(told) ELSE told
    IN  IF seen.panel = "hide" THEN [seen EXCEPT !.panel = "entering"] ELSE seen

Resume ==
    /\ dash = "paused" /\ ~Covered /\ ~asking /\ dash' = "resumed"
    /\ Become(Resumed)
    /\ UNCHANGED <<dialog, runnables, status, app, manager, restart, bounds>>

\* Mutant: what is active is not looked at.
ReadyAnyway == dash = "resumed" /\ panel = "down" /\ ~cover

\* isAppReadyToConnect() and isVPNActive()
Ready == dash = "resumed" /\ panel = "down" /\ ~cover /\ ~Active(status)

\* LaunchVPN is about to be created and is going to find its profile.
Fresh(l) == l.at = "created" /\ l.id \in profiles

\* What a tap or an end leads to at once, within the time of a few messages.
Hurries ==
    \/ converting # <<>> \/ \E l \in launches : Fresh(l)
    \/ \E s \in sessions : s.at \notin {"generated", "running"}

\* startOrStopVPN(true)
Tap ==
    /\ Ready /\ taps < MaxTaps /\ taps' = taps + 1
    /\ Quick \/ ~Hurries
    /\ converting' = Append(converting, taps + 1)
    /\ Become(Up(View))
    /\ UNCHANGED <<dash, dialog, runnables, status, launches, sessions, manager, restart,
                   kills>>

\* startOrStopVPN(false): what is active is looked at here only.
Disconnect ==
    /\ dash = "resumed" /\ panel = "up" /\ Active(status)
    /\ dash' = "paused" /\ asking' = TRUE
    /\ UNCHANGED <<panel, cover, late, runnables, status, app, manager, restart, bounds>>

Launch(id, own) == [id |-> id, own |-> own, at |-> "created"]

\* finishConvert()
FinishConvert ==
    /\ converting # <<>> /\ converting' = Tail(converting)
    /\ profiles' = profiles \cup {Head(converting)}
    /\ launches' = launches \cup {Launch(Head(converting), TRUE)}
    /\ UNCHANGED <<view, runnables, status, sessions, lastProfile, restart, bounds>>

\* OnBootReceiver converts a favourite at once; it does not ask whether a VPN is active.
OnBoot ==
    /\ Quick \/ taps = 0
    /\ kills = 0 /\ taps < MaxTaps /\ taps' = taps + 1
    /\ profiles' = profiles \cup {taps + 1}
    /\ launches' = launches \cup {Launch(taps + 1, FALSE)}
    /\ UNCHANGED <<view, runnables, status, converting, sessions, lastProfile, restart, kills>>
------------------------------------------------------------------------------
(* DisconnectVPN                                                              *)

\* There is something that is going to change the status.
UnderWay == sessions # {} \/ \E l \in launches : l.at = "permission"

\* stopVPN(), when the user confirms or, without a dialog, when the service is
\* connected; a process that is not connected does not hear it.
ConfirmDisconnect ==
    /\ asking /\ dash # "resumed" /\ asking' = FALSE /\ late' = ~UnderWay
    /\ UpdateState("Disconnecting") /\ lastProfile' = None
    /\ sessions' = {IF s.at = "running" THEN [s EXCEPT !.at = "stopped"] ELSE s : s \in sessions}
    /\ UNCHANGED <<dash, panel, cover, converting, launches, profiles, restart, bounds>>

\* The user says no, or leaves it: it is not kept in the history.
CancelDisconnect ==
    /\ asking /\ dash # "resumed" /\ asking' = FALSE
    /\ UNCHANGED <<dash, panel, cover, late, runnables, status, app, manager, restart, bounds>>
------------------------------------------------------------------------------
(* ProfileManager.  The list of profiles is never saved, so that reading it   *)
(* leaves none.                                                               *)

\* get(): a profile that is not there makes it read the list.
LooksUp(id) == profiles' = IF id \in profiles THEN profiles ELSE {}
------------------------------------------------------------------------------
(* LaunchVPN, on the main looper and in front of DashBoard                    *)

Leaves(l) == launches' = launches \ {l}
Goes(l, at) == launches' = (launches \ {l}) \cup {[l EXCEPT !.at = at]}

\* startOpenVpn() and finish()
StartsService(l) ==
    /\ Leaves(l) /\ sessions' = sessions \cup {[id |-> l.id, at |-> "intent"]}

\* startVpnFromIntent() does not find the profile.
NotFound(l) ==
    /\ l.at = "created" /\ dash # "resumed" /\ l.id \notin profiles
    /\ LooksUp(l.id) /\ Leaves(l)
    /\ UNCHANGED <<view, runnables, status, converting, sessions, lastProfile, restart, bounds>>

\* launchVPN(): the profile is refused with a dialog, ...
Refused(l) ==
    /\ Fresh(l) /\ dash # "resumed" /\ "config" \in Faults
    /\ Goes(l, "error")
    /\ UNCHANGED <<view, runnables, status, converting, sessions, manager, restart, bounds>>

\* ... the system has the user's permission, ...
Permitted(l) ==
    /\ Fresh(l) /\ dash # "resumed"
    /\ StartsService(l)
    /\ UNCHANGED <<view, runnables, status, converting, manager, restart, bounds>>

\* ... or asks for it, which may fail.
Asks(l) ==
    /\ Fresh(l) /\ dash # "resumed"
    /\ UpdateState("USER_VPN_PERMISSION")
    /\ \E at \in {"permission"} \cup (IF "dialog" \in Faults THEN {"error"} ELSE {}) : Goes(l, at)
    /\ UNCHANGED <<view, converting, sessions, manager, restart, bounds>>

\* onActivityResult(RESULT_OK)
Granted(l) ==
    /\ l.at = "permission" /\ dash # "resumed"
    /\ StartsService(l)
    /\ UNCHANGED <<view, runnables, status, converting, manager, restart, bounds>>

\* Mutant: nobody is told.
DeniedSilently(l) ==
    /\ l.at = "permission" /\ dash # "resumed" /\ Leaves(l)
    /\ UNCHANGED <<view, runnables, status, converting, sessions, manager, restart, bounds>>

\* onActivityResult(RESULT_CANCELED)
Denied(l) ==
    /\ l.at = "permission" /\ dash # "resumed"
    /\ UpdateState("USER_VPN_PERMISSION_CANCELLED") /\ Leaves(l)
    /\ UNCHANGED <<view, converting, sessions, manager, restart, bounds>>

\* The user closes the dialog with the error, or goes back from where there is none.
Dismissed(l) ==
    /\ l.at = "error" /\ dash # "resumed" /\ Leaves(l)
    /\ UNCHANGED <<view, runnables, status, converting, sessions, manager, restart, bounds>>
------------------------------------------------------------------------------
(* The end of the app                                                         *)

\* All that is in memory is lost.  LaunchVPN may be created again, with its intent,
\* and a service that had its intent is restarted.
Dies ==
    /\ Renewed("gone") /\ status' = "NOPROCESS" /\ converting' = <<>>
    /\ asking' \in {FALSE, asking} /\ UNCHANGED late
    /\ launches' \in {{}, {[l EXCEPT !.at = "created"] : l \in launches}}
    /\ sessions' = {} /\ profiles' = {}
    /\ restart' = (restart \/ \E s \in sessions : s.at # "intent")

Kill ==
    /\ kills < MaxKills /\ kills' = kills + 1
    /\ Dies /\ UNCHANGED <<lastProfile, taps>>

\* doImport(): the toast about a configuration that cannot be read is made on the
\* background thread, which ends the app.
ConversionFails ==
    /\ "convert" \in Faults /\ converting # <<>>
    /\ Dies /\ UNCHANGED <<lastProfile, bounds>>

\* askForPW() shows two dialogs with one view, which ends the app.
AskForPW(l) ==
    /\ "password" \in Faults /\ dash # "resumed"
    /\ Fresh(l) \/ l.at = "permission"
    /\ Dies /\ UNCHANGED <<lastProfile, bounds>>
------------------------------------------------------------------------------
(* The service, as far as it is seen from here                                *)

Gets(s, at) == sessions' = (sessions \ {s}) \cup {[s EXCEPT !.at = at]}

\* onStartCommand(); the system then has no reason to restart the service. ...
OnStartCommand(s) ==
    /\ s.at = "intent" /\ s.id \in profiles
    /\ Gets(s, "starting") /\ lastProfile' = s.id /\ restart' = FALSE
    /\ UNCHANGED <<view, runnables, status, converting, launches, profiles, bounds>>

\* ... fails without the profile, which ends the app.
OnStartCommandFails(s) ==
    /\ s.at = "intent" /\ s.id \notin profiles
    /\ Dies /\ UNCHANGED <<lastProfile, bounds>>

\* startOpenVPN()
StartOpenVPN(s) ==
    /\ s.at = "starting" /\ Gets(s, "generated")
    /\ UpdateState("VPN_GENERATE_CONFIG")
    /\ UNCHANGED <<view, converting, launches, manager, restart, bounds>>

\* The process runs; the one before is gone, which is not shown.
Runs(s) ==
    /\ s.at = "generated"
    /\ sessions' = {[s EXCEPT !.at = "running"]}
                       \cup {t \in sessions : t.at \in {"intent", "starting", "generated"} /\ t # s}
    /\ UNCHANGED <<view, runnables, status, converting, launches, manager, restart, bounds>>

\* CONNECTED, or what comes before it.
Connects(s) ==
    /\ s.at = "running" /\ status # "CONNECTED" /\ UpdateState("CONNECTED")
    /\ UNCHANGED <<view, app, manager, restart, bounds>>

AuthFails(s) ==
    /\ s.at = "running" /\ Gets(s, "stopped") /\ UpdateState("AUTH_FAILED")
    /\ UNCHANGED <<view, converting, launches, manager, restart, bounds>>

\* The process announces its end, ...
Exits(s) ==
    /\ s.at \in {"running", "stopped"} /\ Gets(s, "exited") /\ UpdateState("EXITING")
    /\ UNCHANGED <<view, converting, launches, manager, restart, bounds>>

\* ... or does not, and is gone; endVpnService() forgets the profile.
EndVpnService(s) ==
    /\ s.at \in {"running", "stopped", "exited"} /\ sessions' = sessions \ {s}
    /\ UpdateState("NOPROCESS") /\ lastProfile' = None
    /\ UNCHANGED <<view, converting, launches, profiles, restart, bounds>>

\* The system restarts the service without an intent; getAlwaysOnVPN() never finds
\* a profile, so that without the last one the service stops.
Restarted ==
    /\ restart /\ restart' = FALSE /\ \A s \in sessions : s.at # "intent"
    /\ IF lastProfile = None THEN UNCHANGED profiles ELSE LooksUp(lastProfile)
    /\ sessions' = sessions \cup (IF lastProfile \in profiles
                                  THEN {[id |-> lastProfile, at |-> "starting"]} ELSE {})
    /\ UNCHANGED <<view, runnables, status, converting, launches, lastProfile, bounds>>
------------------------------------------------------------------------------
User ==
    \/ Open \/ Rotate \/ Finish \/ Pause \/ Tap \/ OnBoot
    \/ Disconnect \/ ConfirmDisconnect \/ CancelDisconnect
    \/ \E l \in launches : Granted(l) \/ Denied(l) \/ Dismissed(l)

Main ==
    \/ PanelArrives \/ Resume \/ FinishConvert \/ Restarted
    \/ \E l \in launches : NotFound(l) \/ Refused(l) \/ Permitted(l) \/ Asks(l)
    \/ \E s \in sessions : OnStartCommand(s) \/ OnStartCommandFails(s)

\* Threads of the service and its process.
Service ==
    \E s \in sessions :
        StartOpenVPN(s) \/ Runs(s) \/ Connects(s) \/ AuthFails(s) \/ Exits(s)
            \/ EndVpnService(s)

Crash == Kill \/ ConversionFails \/ \E l \in launches : AskForPW(l)

\* The main looper serves what was posted first; a message that was there before it
\* sees the same.
Next ==
    \/ RunOnUiThread \/ Service \/ Crash
    \/ runnables = <<>> /\ (User \/ Main)

Spec == Init /\ [][Next]_vars
------------------------------------------------------------------------------
(* Properties                                                                 *)

Positions == {"hide", "entering", "down", "up", "falling"}
States == {"NOPROCESS", "USER_VPN_PERMISSION", "USER_VPN_PERMISSION_CANCELLED",
           "VPN_GENERATE_CONFIG", "CONNECTED", "AUTH_FAILED", "Disconnecting", "EXITING"}
Stages == {"intent", "starting", "generated", "running", "stopped", "exited"}

TypeOK ==
    /\ dash \in {"gone", "paused", "resumed"} /\ panel \in Positions
    /\ {cover, asking, late, restart} \subseteq BOOLEAN
    /\ runnables \in Seq(States) /\ status \in States
    /\ converting \in Seq(1..taps)
    /\ launches \subseteq [id : 1..taps, own : BOOLEAN, at : {"created", "permission", "error"}]
    /\ sessions \subseteq [id : 1..taps, at : Stages]
    /\ profiles \subseteq 1..taps /\ lastProfile \in 1..taps \cup {None}
    /\ taps \in 0..MaxTaps /\ kills \in 0..MaxKills

\* Starts that are under way, and the sessions that are up.
Starts ==
    Cardinality({l \in launches : l.at = "permission" \/ Fresh(l)}) + Len(converting)
              + Cardinality({s \in sessions : s.at \in {"intent", "starting", "generated"}})
Ups == {s \in sessions : s.at = "running"}

\* Nothing is under way, and DashBoard is in front and stays there.
Settled ==
    /\ dash = "resumed" /\ panel \notin {"entering", "falling"} /\ runnables = <<>>
    /\ Starts = 0 /\ ~Covered

\* One tap on a server makes one start: while it is under way, or a session is up,
\* there is no second one, which SessionLifecycle could not cope with.
OneStart == Starts + Cardinality(Ups) <= 1

\* A VPN that is shown as active is asked for, starting or up; otherwise no tap
\* would ever be accepted again.  The exception is a disconnection that was confirmed
\* when all was over: DisconnectVPN does not look again, and it stays.
ActiveIsUnderWay == Active(status) => UnderWay \/ (status = "Disconnecting" /\ late)

\* A panel that stays up is there for an active VPN or a session about to end:
\* onResume() and updateStateToUIThread() see to it.  While it is up no tap on a
\* server is accepted.
PanelIsForActive == Settled /\ sessions = {} /\ panel = "up" => Active(status)

\* A cover that stays is there for a panel, see moveManagementLayoutDown(): without
\* the one the user could not end the other.
CoverIsForPanel == Settled /\ cover => panel = "up"

(* What does not hold; the README tells of the runs that show it. *)

\* An active VPN can be disconnected: its panel is up.
ActiveIsShown == Settled /\ Active(status) => panel = "up"

\* A restarted service starts the last profile again: getLastConnectedProfile() is
\* there "to connect if the service restarts".
RestartReconnects == [][Restarted /\ lastProfile # None => sessions' # sessions]_vars
=============================================================================
