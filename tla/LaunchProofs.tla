---------------------------- MODULE LaunchProofs ----------------------------
(***************************************************************************)
(* What is proved of Launch, for every number of taps, boots and crashes.  *)
(*                                                                         *)
(* The panel: if one is up in front of the user, a VPN is active, or what  *)
(* makes the panel go down is already posted, or a conversion, LaunchVPN   *)
(* or the service is at work and will tell (PanelHasReason).               *)
(*                                                                         *)
(* One start: without a second tap in the time of a few messages at most   *)
(* one conversion, launch or session is there at a time (OneAtATime), and  *)
(* the state that the user sees says so (BusyIsShown), which is why        *)
(* isVPNActive() is enough to keep the next tap away.                      *)
(***************************************************************************)
EXTENDS Launch, FiniteSetTheorems, SequenceTheorems, TLAPS

USE DEF dialog, view, app, manager, bounds

------------------------------------------------------------------------------
(* What the steps of the panel do                                             *)

\* A state that lets a panel fall.
Fells(s) ==
    \/ s \in {"NOPROCESS", "USER_VPN_PERMISSION_CANCELLED"}
    \/ s = "EXITING" /\ ~Active(status)

LEMMA FollowsIs ==
    ASSUME NEW s
    PROVE  /\ Follows(View, s).panel = IF panel = "up" /\ Fells(s) THEN "falling" ELSE panel
           /\ Follows(View, s).cover = IF panel = "up" /\ Fells(s) THEN Active(status) ELSE cover
  <1>1. Follows(View, s) = IF panel = "up" /\ Fells(s)
                           THEN [panel |-> "falling", cover |-> Active(status)] ELSE View
    BY DEF Follows, Fells, Down, View
  <1> QED
    BY <1>1 DEF View

LEMMA RunOnUiThreadDoes ==
    ASSUME RunOnUiThread
    PROVE  LET s == Head(runnables) IN
           /\ panel' = IF panel = "up" /\ Fells(s) THEN "falling" ELSE panel
           /\ cover' = IF panel = "up" /\ Fells(s) THEN Active(status) ELSE cover
  BY FollowsIs DEF RunOnUiThread, Become

LEMMA PanelArrivesDoes ==
    ASSUME PanelArrives
    PROVE  /\ panel' = IF panel = "entering" /\ Active(status) THEN "up" ELSE "down"
           /\ cover' = IF panel = "entering" /\ Active(status) THEN TRUE ELSE cover
  BY DEF PanelArrives, Become, Up, View

LEMMA ResumeDoes ==
    ASSUME Resume
    PROVE  /\ panel' = IF panel = "up" /\ Fells(status) THEN "falling"
                       ELSE IF panel = "down" /\ Active(status) THEN "up"
                       ELSE IF panel = "hide" THEN "entering" ELSE panel
           /\ cover' = IF panel = "up" /\ Fells(status) THEN Active(status)
                       ELSE IF panel = "down" /\ Active(status) THEN TRUE ELSE cover
  <1> DEFINE told == Follows(View, status)
             seen == IF Active(status) THEN Up(told) ELSE told
  <1>1. /\ told.panel = IF panel = "up" /\ Fells(status) THEN "falling" ELSE panel
        /\ told.cover = IF panel = "up" /\ Fells(status) THEN Active(status) ELSE cover
    BY FollowsIs
  <1>2. told = [panel |-> told.panel, cover |-> told.cover]
    BY DEF Follows, Down, View
  <1>3. Resumed = IF seen.panel = "hide" THEN [seen EXCEPT !.panel = "entering"] ELSE seen
    BY DEF Resumed
  <1>4. panel' = Resumed.panel /\ cover' = Resumed.cover
    BY DEF Resume, Become
  <1> HIDE DEF told
  <1>5. seen = IF Active(status) /\ told.panel = "down" THEN [panel |-> "up", cover |-> TRUE]
               ELSE told
    BY DEF Up
  <1>6. /\ seen.panel = IF Active(status) /\ told.panel = "down" THEN "up" ELSE told.panel
        /\ seen.cover = IF Active(status) /\ told.panel = "down" THEN TRUE ELSE told.cover
        /\ seen = [panel |-> seen.panel, cover |-> seen.cover]
    <2> HIDE DEF seen
    <2>1. CASE Active(status) /\ told.panel = "down"
      <3>1. seen = [panel |-> "up", cover |-> TRUE]
        BY <1>5, <2>1
      <3> QED
        BY <2>1, <3>1
    <2>2. CASE ~(Active(status) /\ told.panel = "down")
      <3>1. seen = told
        BY <1>5, <2>2
      <3> QED
        BY <1>2, <2>2, <3>1
    <2> QED
      BY <2>1, <2>2
  <1> HIDE DEF seen
  <1>7. /\ Resumed.panel = IF seen.panel = "hide" THEN "entering" ELSE seen.panel
        /\ Resumed.cover = seen.cover
    BY <1>3, <1>6
  <1> QED
    BY <1>1, <1>4, <1>6, <1>7

LEMMA TapDoes ==
    ASSUME Tap
    PROVE  panel = "down" /\ panel' = "up" /\ cover' = TRUE
  BY DEF Tap, Ready, Become, Up, View
------------------------------------------------------------------------------
(* Types                                                                      *)

ViewTyped ==
    /\ dash \in {"gone", "paused", "resumed"} /\ panel \in Positions
    /\ cover \in BOOLEAN /\ runnables \in Seq(States) /\ status \in States

DialogTyped == asking \in BOOLEAN /\ late \in BOOLEAN

LaunchRecords(n)  == [id : 1..n, own : BOOLEAN, at : {"created", "permission", "error"}]
SessionRecords(n) == [id : 1..n, at : Stages]

IdsTyped ==
    /\ restart \in BOOLEAN
    /\ converting \in Seq(1..taps)
    /\ launches \subseteq LaunchRecords(taps) /\ sessions \subseteq SessionRecords(taps)
    /\ profiles \subseteq 1..taps /\ lastProfile \in 1..taps \cup {None}
    /\ taps \in Nat /\ taps <= MaxTaps /\ kills \in Nat /\ kills <= MaxKills

LEMMA TypesAre ==
    TypeOK <=> ViewTyped /\ DialogTyped /\ IdsTyped
  <1>1. taps \in 0..MaxTaps <=> taps \in Nat /\ taps <= MaxTaps
    BY ConstantsAssumption
  <1>2. kills \in 0..MaxKills <=> kills \in Nat /\ kills <= MaxKills
    BY ConstantsAssumption
  <1> QED
    BY <1>1, <1>2, Zenon DEF TypeOK, ViewTyped, DialogTyped, IdsTyped, LaunchRecords, SessionRecords

\* What may be posted is what updateStateString() is called with.
LEMMA UpdateStateTyped ==
    ASSUME ViewTyped, NEW s \in States, UpdateState(s)
    PROVE  status' \in States /\ runnables' \in Seq(States)
  BY DEF ViewTyped, UpdateState

LEMMA DiesTyped ==
    ASSUME Dies
    PROVE  ViewTyped'
  <1>1. /\ dash' = "gone" /\ panel' = "hide" /\ cover' = FALSE
        /\ runnables' = <<>> /\ status' = "NOPROCESS"
    BY DEF Dies, Renewed
  <1>2. "hide" \in Positions /\ "NOPROCESS" \in States /\ <<>> \in Seq(States)
    BY DEF Positions, States
  <1> QED
    BY <1>1, <1>2 DEF ViewTyped

LEMMA ViewTypedKept ==
    ASSUME ViewTyped, Next
    PROVE  ViewTyped'
  <1> USE DEF ViewTyped
  <1>0. {"falling", "up", "down", "entering", "hide"} \subseteq Positions
    BY DEF Positions
  <1>1. CASE RunOnUiThread
    <2>1. dash' = dash /\ status' = status /\ runnables' \in Seq(States)
      BY <1>1 DEF RunOnUiThread
    <2>2. panel' \in Positions /\ cover' \in BOOLEAN
      BY <1>0, <1>1, RunOnUiThreadDoes DEF Active
    <2> QED
      BY <2>1, <2>2
  <1>2. CASE PanelArrives
    <2>1. dash' = dash /\ status' = status /\ runnables' = runnables
      BY <1>2 DEF PanelArrives
    <2>2. panel' \in Positions /\ cover' \in BOOLEAN
      BY <1>0, <1>2, PanelArrivesDoes
    <2> QED
      BY <2>1, <2>2
  <1>3. CASE Resume
    <2>1. dash' = "resumed" /\ status' = status /\ runnables' = runnables
      BY <1>3 DEF Resume
    <2>2. panel' \in Positions /\ cover' \in BOOLEAN
      BY <1>0, <1>3, ResumeDoes DEF Active
    <2> QED
      BY <2>1, <2>2
  <1>4. CASE Tap
    <2>1. dash' = dash /\ status' = status /\ runnables' = runnables
      BY <1>4 DEF Tap
    <2> QED
      BY <1>0, <1>4, <2>1, TapDoes
  <1>5. CASE Open \/ Rotate \/ Finish \/ Pause
    <2>1. /\ dash' \in {"gone", "paused"} /\ status' = status
          /\ \/ panel' = "hide" /\ cover' = FALSE /\ runnables' = <<>>
             \/ UNCHANGED <<panel, cover, runnables>>
      BY <1>5 DEF Open, Rotate, Finish, Pause, Renewed
    <2>0. <<>> \in Seq(States)
      OBVIOUS
    <2>2. runnables' \in Seq(States)
      BY <2>0, <2>1
    <2>3. panel' \in Positions /\ cover' \in BOOLEAN
      BY <1>0, <2>1
    <2> QED
      BY <2>1, <2>2, <2>3
  <1>6. CASE Disconnect \/ CancelDisconnect
    BY <1>6 DEF Disconnect, CancelDisconnect
  <1>14. CASE ConfirmDisconnect
    <2>1. "Disconnecting" \in States /\ UpdateState("Disconnecting")
      BY <1>14 DEF ConfirmDisconnect, States
    <2>2. status' \in States /\ runnables' \in Seq(States)
      BY <2>1, UpdateStateTyped
    <2> QED
      BY <1>14, <2>2 DEF ConfirmDisconnect
  <1>7. CASE FinishConvert \/ OnBoot \/ Restarted
    BY <1>7 DEF FinishConvert, OnBoot, Restarted
  <1>8. ASSUME NEW l \in launches,
               NotFound(l) \/ Refused(l) \/ Permitted(l) \/ Granted(l) \/ Dismissed(l)
        PROVE  ViewTyped'
    BY <1>8 DEF NotFound, Refused, Permitted, Granted, Dismissed
  <1>9. ASSUME NEW l \in launches, Asks(l) \/ Denied(l)
        PROVE  ViewTyped'
    <2>1. dash' = dash /\ panel' = panel /\ cover' = cover
      BY <1>9 DEF Asks, Denied
    <2>2. \E s \in States : UpdateState(s)
      BY <1>9 DEF Asks, Denied, States
    <2> QED
      BY <2>1, <2>2, UpdateStateTyped
  <1>10. CASE Crash
    BY <1>10, DiesTyped DEF Crash, Kill, ConversionFails, AskForPW
  <1>11. ASSUME NEW s \in sessions, OnStartCommand(s) \/ Runs(s)
         PROVE  ViewTyped'
    BY <1>11 DEF OnStartCommand, Runs
  <1>12. ASSUME NEW s \in sessions, OnStartCommandFails(s)
         PROVE  ViewTyped'
    BY <1>12, DiesTyped DEF OnStartCommandFails
  <1>13. ASSUME NEW s \in sessions,
                StartOpenVPN(s) \/ Connects(s) \/ AuthFails(s) \/ Exits(s) \/ EndVpnService(s)
         PROVE  ViewTyped'
    <2>1. dash' = dash /\ panel' = panel /\ cover' = cover
      BY <1>13 DEF StartOpenVPN, Connects, AuthFails, Exits, EndVpnService
    <2>2. \E t \in States : UpdateState(t)
      BY <1>13 DEF StartOpenVPN, Connects, AuthFails, Exits, EndVpnService, States
    <2> QED
      BY <2>1, <2>2, UpdateStateTyped
  <1> HIDE DEF ViewTyped
  <1> QED
    BY <1>1, <1>2, <1>3, <1>4, <1>5, <1>6, <1>7, <1>8, <1>9, <1>10, <1>11, <1>12, <1>13,
       <1>14 DEF Next, User, Main, Service

LEMMA DialogTypedKept ==
    ASSUME DialogTyped, Next
    PROVE  DialogTyped'
  <1> USE DEF DialogTyped
  <1>1. CASE UNCHANGED dialog
    BY <1>1
  <1>2. CASE Disconnect \/ ConfirmDisconnect \/ CancelDisconnect
    BY <1>2 DEF Disconnect, ConfirmDisconnect, CancelDisconnect
  <1>3. CASE Crash \/ \E s \in sessions : OnStartCommandFails(s)
    BY <1>3 DEF Crash, Kill, ConversionFails, AskForPW, OnStartCommandFails, Dies
  <1>4. ASSUME RunOnUiThread \/ PanelArrives \/ Resume \/ Open \/ Rotate \/ Finish \/ Pause \/ Tap
               \/ FinishConvert \/ OnBoot \/ Restarted
        PROVE  UNCHANGED dialog
    BY <1>4 DEF RunOnUiThread, PanelArrives, Resume, Open, Rotate, Finish, Pause, Tap,
                FinishConvert, OnBoot, Restarted
  <1>5. ASSUME NEW l \in launches,
               \/ NotFound(l) \/ Refused(l) \/ Dismissed(l) \/ Asks(l)
               \/ Denied(l) \/ Permitted(l) \/ Granted(l)
        PROVE  UNCHANGED dialog
    BY <1>5 DEF NotFound, Refused, Dismissed, Asks, Denied, Permitted, Granted
  <1>6. ASSUME NEW s \in sessions,
               \/ OnStartCommand(s) \/ StartOpenVPN(s) \/ Runs(s) \/ Connects(s)
               \/ AuthFails(s) \/ Exits(s) \/ EndVpnService(s)
        PROVE  UNCHANGED dialog
    BY <1>6 DEF OnStartCommand, StartOpenVPN, Runs, Connects, AuthFails, Exits, EndVpnService
  <1> HIDE DEF DialogTyped
  <1> QED
    BY <1>1, <1>2, <1>3, <1>4, <1>5, <1>6 DEF Next, User, Main, Service

\* A launch or a session goes on to another stage.
LEMMA RecordsStay ==
    ASSUME NEW n \in Nat
    PROVE  /\ \A l \in LaunchRecords(n) : \A at \in {"created", "permission", "error"} :
                 /\ [l EXCEPT !.at = at] \in LaunchRecords(n)
                 /\ [l EXCEPT !.at = at].id = l.id /\ [l EXCEPT !.at = at].own = l.own
                 /\ [l EXCEPT !.at = at].at = at
           /\ \A s \in SessionRecords(n) : \A at \in Stages :
                 /\ [s EXCEPT !.at = at] \in SessionRecords(n)
                 /\ [s EXCEPT !.at = at].id = s.id /\ [s EXCEPT !.at = at].at = at
  BY DEF LaunchRecords, SessionRecords

\* With one tap more, what was known stays known.
LEMMA MoreIds ==
    ASSUME IdsTyped
    PROVE  /\ converting \in Seq(1..(taps + 1)) /\ taps + 1 \in 1..(taps + 1)
           /\ launches \subseteq LaunchRecords(taps + 1)
           /\ sessions \subseteq SessionRecords(taps + 1)
           /\ profiles \subseteq 1..(taps + 1) /\ lastProfile \in 1..(taps + 1) \cup {None}
  <1> USE DEF IdsTyped
  <1>1. \A i \in 1..taps : i \in 1..(taps + 1)
    OBVIOUS
  <1>2. converting \in Seq(1..(taps + 1))
    BY <1>1
  <1>3. launches \subseteq LaunchRecords(taps + 1)
    BY <1>1 DEF LaunchRecords
  <1>4. sessions \subseteq SessionRecords(taps + 1)
    BY <1>1 DEF SessionRecords
  <1> QED
    BY <1>1, <1>2, <1>3, <1>4

\* The end of the app forgets more than it remembers.
LEMMA DiesIdsTyped ==
    ASSUME IdsTyped, Dies, UNCHANGED <<lastProfile, taps>>, kills' \in Nat, kills' <= MaxKills
    PROVE  IdsTyped'
  <1> USE DEF IdsTyped
  <1>1. converting' \in Seq(1..taps) /\ sessions' = {} /\ profiles' = {}
        /\ restart' \in BOOLEAN
    BY DEF Dies
  <1>2. launches' \subseteq LaunchRecords(taps)
    <2>1. \A l \in launches : [l EXCEPT !.at = "created"] \in LaunchRecords(taps)
      BY RecordsStay
    <2> QED
      BY <2>1 DEF Dies
  <1> QED
    BY <1>1, <1>2

\* What a step of LaunchVPN does to launches, and of the service to sessions.
LEMMA IdsTypedKept ==
    ASSUME IdsTyped, Next
    PROVE  IdsTyped'
  <1> USE DEF IdsTyped
  <1>1. CASE RunOnUiThread \/ PanelArrives \/ Resume \/ Open \/ Rotate \/ Finish \/ Pause
             \/ Disconnect \/ CancelDisconnect
    BY <1>1 DEF RunOnUiThread, PanelArrives, Resume, Open, Rotate, Finish, Pause, Disconnect,
                CancelDisconnect
  <1>2. CASE Tap
    <2>1. /\ taps' = taps + 1 /\ taps < MaxTaps /\ converting' = Append(converting, taps + 1)
          /\ launches' = launches /\ sessions' = sessions /\ profiles' = profiles
          /\ lastProfile' = lastProfile /\ restart' = restart /\ kills' = kills
      BY <1>2 DEF Tap
    <2>2. taps + 1 <= MaxTaps
      BY <2>1, ConstantsAssumption
    <2>3. converting' \in Seq(1..(taps + 1))
      BY <2>1, MoreIds
    <2> QED
      BY <2>1, <2>2, <2>3, MoreIds
  <1>3. CASE OnBoot
    <2>1. /\ taps' = taps + 1 /\ taps < MaxTaps /\ converting' = converting
          /\ launches' = launches \cup {Launch(taps + 1, FALSE)} /\ sessions' = sessions
          /\ profiles' = profiles \cup {taps + 1}
          /\ lastProfile' = lastProfile /\ restart' = restart /\ kills' = kills
      BY <1>3 DEF OnBoot
    <2>2. taps + 1 <= MaxTaps
      BY <2>1, ConstantsAssumption
    <2>3. Launch(taps + 1, FALSE) \in LaunchRecords(taps + 1)
      BY DEF Launch, LaunchRecords
    <2>4. launches' \subseteq LaunchRecords(taps')
      BY <2>1, <2>3, MoreIds
    <2>5. profiles' \subseteq 1..taps'
      BY <2>1, MoreIds
    <2>6. converting' \in Seq(1..taps') /\ sessions' \subseteq SessionRecords(taps')
          /\ lastProfile' \in 1..taps' \cup {None}
      BY <2>1, MoreIds
    <2>7. taps' \in Nat /\ taps' <= MaxTaps
      BY <2>1, <2>2
    <2> QED
      BY <2>1, <2>4, <2>5, <2>6, <2>7
  <1>4. CASE FinishConvert
    <2>1. /\ converting # <<>> /\ converting' = Tail(converting)
          /\ launches' = launches \cup {Launch(Head(converting), TRUE)} /\ sessions' = sessions
          /\ profiles' = profiles \cup {Head(converting)} /\ taps' = taps
          /\ lastProfile' = lastProfile /\ restart' = restart /\ kills' = kills
      BY <1>4 DEF FinishConvert
    <2>2. Head(converting) \in 1..taps /\ Tail(converting) \in Seq(1..taps)
      BY <2>1
    <2>3. Launch(Head(converting), TRUE) \in LaunchRecords(taps)
      BY <2>2 DEF Launch, LaunchRecords
    <2> QED
      BY <2>1, <2>2, <2>3
  <1>5. CASE ConfirmDisconnect
    <2>1. \A s \in sessions : [s EXCEPT !.at = "stopped"] \in SessionRecords(taps)
      BY RecordsStay DEF Stages
    <2>2. sessions' \subseteq SessionRecords(taps)
      BY <1>5, <2>1 DEF ConfirmDisconnect
    <2> QED
      BY <1>5, <2>2 DEF ConfirmDisconnect
  <1>6. ASSUME NEW l \in launches, NotFound(l) \/ Denied(l) \/ Dismissed(l)
        PROVE  IdsTyped'
    BY <1>6 DEF NotFound, Denied, Dismissed, LooksUp, Leaves
  <1>7. ASSUME NEW l \in launches, Refused(l) \/ Asks(l)
        PROVE  IdsTyped'
    <2>1. PICK at \in {"permission", "error"} : Goes(l, at)
      BY <1>7 DEF Refused, Asks
    <2>2. [l EXCEPT !.at = at] \in LaunchRecords(taps)
      BY RecordsStay
    <2>3. launches' \subseteq LaunchRecords(taps)
      BY <2>1, <2>2 DEF Goes
    <2> QED
      BY <1>7, <2>3 DEF Refused, Asks
  <1>8. ASSUME NEW l \in launches, Permitted(l) \/ Granted(l)
        PROVE  IdsTyped'
    <2>1. [id |-> l.id, at |-> "intent"] \in SessionRecords(taps)
      BY DEF LaunchRecords, SessionRecords, Stages
    <2> QED
      BY <1>8, <2>1 DEF Permitted, Granted, StartsService, Leaves
  <1>9. CASE Crash
    <2>1. Dies /\ UNCHANGED <<lastProfile, taps>> /\ kills' \in {kills, kills + 1}
          /\ (kills' = kills \/ kills < MaxKills)
      BY <1>9 DEF Crash, Kill, ConversionFails, AskForPW
    <2>2. kills' \in Nat /\ kills' <= MaxKills
      BY <2>1, ConstantsAssumption
    <2> QED
      BY <2>1, <2>2, DiesIdsTyped
  <1>10. ASSUME NEW s \in sessions, OnStartCommandFails(s)
         PROVE  IdsTyped'
    BY <1>10, DiesIdsTyped DEF OnStartCommandFails
  <1>11. ASSUME NEW s \in sessions, NEW at \in Stages, Gets(s, at)
         PROVE  sessions' \subseteq SessionRecords(taps)
    <2>1. [s EXCEPT !.at = at] \in SessionRecords(taps)
      BY RecordsStay
    <2> QED
      BY <1>11, <2>1 DEF Gets
  <1>12. ASSUME NEW s \in sessions,
                OnStartCommand(s) \/ StartOpenVPN(s) \/ AuthFails(s) \/ Exits(s)
         PROVE  IdsTyped'
    <2>1. \E at \in Stages : Gets(s, at)
      BY <1>12 DEF OnStartCommand, StartOpenVPN, AuthFails, Exits, Stages
    <2>2. sessions' \subseteq SessionRecords(taps)
      BY <1>11, <2>1
    <2>3. s.id \in 1..taps
      BY DEF SessionRecords
    <2> QED
      BY <1>12, <2>2, <2>3 DEF OnStartCommand, StartOpenVPN, AuthFails, Exits
  <1>13. ASSUME NEW s \in sessions, Runs(s)
         PROVE  IdsTyped'
    <2>1. [s EXCEPT !.at = "running"] \in SessionRecords(taps)
      BY RecordsStay DEF Stages
    <2> QED
      BY <1>13, <2>1 DEF Runs
  <1>14. ASSUME NEW s \in sessions, Connects(s) \/ EndVpnService(s)
         PROVE  IdsTyped'
    BY <1>14 DEF Connects, EndVpnService
  <1>15. CASE Restarted
    <2>1. lastProfile \in profiles =>
              [id |-> lastProfile, at |-> "starting"] \in SessionRecords(taps)
      BY DEF SessionRecords, Stages
    <2>2. sessions' \subseteq SessionRecords(taps)
      BY <1>15, <2>1 DEF Restarted
    <2>3. profiles' \subseteq 1..taps /\ restart' = FALSE
      BY <1>15 DEF Restarted, LooksUp
    <2> QED
      BY <1>15, <2>2, <2>3 DEF Restarted
  <1> HIDE DEF IdsTyped
  <1> QED
    BY <1>1, <1>2, <1>3, <1>4, <1>5, <1>6, <1>7, <1>8, <1>9, <1>10, <1>12, <1>13, <1>14, <1>15
       DEF Next, User, Main, Service
------------------------------------------------------------------------------
(* The sets are finite, so that counting them means something                 *)

Finite == IsFiniteSet(launches) /\ IsFiniteSet(sessions)

LEMMA ImageIsFinite ==
    ASSUME NEW S, IsFiniteSet(S), NEW f
    PROVE  IsFiniteSet({f[x] : x \in S})
  <1> DEFINE g == [x \in S |-> f[x]]
             T == {f[x] : x \in S}
  <1>1. g \in Surjection(S, T)
    BY DEF Surjection
  <1> QED
    BY <1>1, FS_Surjection

LEMMA DiesFinite ==
    ASSUME Finite, Dies
    PROVE  Finite'
  <1>1. sessions' = {} /\ launches' \in {{}, {[l EXCEPT !.at = "created"] : l \in launches}}
    BY DEF Dies
  <1>2. IsFiniteSet({[l EXCEPT !.at = "created"] : l \in launches})
    <2> DEFINE f == [l \in launches |-> [l EXCEPT !.at = "created"]]
    <2>1. {f[l] : l \in launches} = {[l EXCEPT !.at = "created"] : l \in launches}
      OBVIOUS
    <2> HIDE DEF f
    <2>2. IsFiniteSet({f[l] : l \in launches})
      BY ImageIsFinite DEF Finite
    <2> QED
      BY <2>1, <2>2
  <1> QED
    BY <1>1, <1>2, FS_EmptySet DEF Finite

LEMMA FiniteKept ==
    ASSUME Finite, Next
    PROVE  Finite'
  <1>1. \A l : IsFiniteSet(launches \ {l})
    BY FS_RemoveElement DEF Finite
  <1>2. \A s : IsFiniteSet(sessions \ {s}) /\ IsFiniteSet(sessions \cup {s})
    BY FS_RemoveElement, FS_AddElement DEF Finite
  <1>3. \A l : IsFiniteSet(launches \cup {l})
    BY FS_AddElement DEF Finite
  <1>4. ASSUME NEW l \in launches, NEW at, Goes(l, at)
        PROVE  IsFiniteSet(launches')
    BY <1>1, <1>4, FS_AddElement DEF Goes
  <1>5. ASSUME NEW s \in sessions, NEW at, Gets(s, at)
        PROVE  IsFiniteSet(sessions')
    BY <1>2, <1>5, FS_AddElement DEF Gets
  <1>6. CASE UNCHANGED <<launches, sessions>>
    BY <1>6 DEF Finite
  <1>7. CASE ConfirmDisconnect
    <2> DEFINE f == [s \in sessions |->
                         IF s.at = "running" THEN [s EXCEPT !.at = "stopped"] ELSE s]
    <2>1. sessions' = {f[s] : s \in sessions} /\ launches' = launches
      BY <1>7 DEF ConfirmDisconnect
    <2> HIDE DEF f
    <2>2. IsFiniteSet({f[s] : s \in sessions})
      BY ImageIsFinite DEF Finite
    <2> QED
      BY <2>1, <2>2 DEF Finite
  <1>8. CASE FinishConvert \/ OnBoot
    BY <1>3, <1>8 DEF FinishConvert, OnBoot, Finite
  <1>9. ASSUME NEW l \in launches,
               \/ NotFound(l) \/ Denied(l) \/ Dismissed(l) \/ Refused(l)
               \/ Asks(l) \/ Permitted(l) \/ Granted(l)
        PROVE  Finite'
    <2>1. CASE NotFound(l) \/ Denied(l) \/ Dismissed(l)
      BY <1>1, <2>1 DEF NotFound, Denied, Dismissed, Leaves, Finite
    <2>2. CASE Refused(l) \/ Asks(l)
      <3>1. sessions' = sessions /\ \E at : Goes(l, at)
        BY <2>2 DEF Refused, Asks
      <3> QED
        BY <1>4, <3>1 DEF Finite
    <2>3. CASE Permitted(l) \/ Granted(l)
      BY <1>1, <1>2, <2>3 DEF Permitted, Granted, StartsService, Leaves, Finite
    <2> QED
      BY <1>9, <2>1, <2>2, <2>3
  <1>10. CASE Crash \/ \E s \in sessions : OnStartCommandFails(s)
    BY <1>10, DiesFinite DEF Crash, Kill, ConversionFails, AskForPW, OnStartCommandFails
  <1>11. ASSUME NEW s \in sessions,
                OnStartCommand(s) \/ StartOpenVPN(s) \/ AuthFails(s) \/ Exits(s)
         PROVE  Finite'
    <2>1. launches' = launches /\ \E at : Gets(s, at)
      BY <1>11 DEF OnStartCommand, StartOpenVPN, AuthFails, Exits
    <2> QED
      BY <1>5, <2>1 DEF Finite
  <1>12. ASSUME NEW s \in sessions, Runs(s) \/ EndVpnService(s)
         PROVE  Finite'
    <2>1. CASE Runs(s)
      <3> DEFINE others == {t \in sessions :
                               t.at \in {"intent", "starting", "generated"} /\ t # s}
      <3>1. IsFiniteSet(others)
        BY FS_Subset DEF Finite
      <3>2. sessions' = others \cup {[s EXCEPT !.at = "running"]} /\ launches' = launches
        BY <2>1 DEF Runs
      <3> HIDE DEF others
      <3> QED
        BY <3>1, <3>2, FS_AddElement DEF Finite
    <2>2. CASE EndVpnService(s)
      BY <1>2, <2>2 DEF EndVpnService, Finite
    <2> QED
      BY <1>12, <2>1, <2>2
  <1>13. CASE Restarted
    <2>1. launches' = launches /\ (sessions' = sessions \/ \E s : sessions' = sessions \cup {s})
      BY <1>13 DEF Restarted
    <2> QED
      BY <1>2, <2>1 DEF Finite
  <1> QED
    <2>1. RunOnUiThread \/ PanelArrives \/ Resume \/ Open \/ Rotate \/ Finish \/ Pause \/ Tap
          \/ Disconnect \/ CancelDisconnect
          \/ (\E s \in sessions : Connects(s)) => UNCHANGED <<launches, sessions>>
      BY DEF RunOnUiThread, PanelArrives, Resume, Open, Rotate, Finish, Pause, Tap, Disconnect,
             CancelDisconnect, Connects
    <2> QED
      BY <1>6, <1>7, <1>8, <1>9, <1>10, <1>11, <1>12, <1>13, <2>1 DEF Next, User, Main, Service
------------------------------------------------------------------------------
(* The panel                                                                  *)

\* A VPN that could not log in still has its session, which is going to say NOPROCESS.
FailureIsNotLast == status = "AUTH_FAILED" => sessions # {}

\* What makes the panel go down is on its way to the main looper.
DownIsPosted ==
    \E i \in 1..Len(runnables) :
        runnables[i] \in {"NOPROCESS", "USER_VPN_PERMISSION_CANCELLED"}

\* A panel that is up in front of the user has a VPN that is active, something that is
\* going to tell, or goes down as soon as the main looper is there.
PanelHasReason ==
    dash = "resumed" /\ panel = "up" /\ ~Active(status) =>
        converting # <<>> \/ sessions # {} \/ Covered \/ DownIsPosted

LEMMA FailureIsNotLastKept ==
    ASSUME FailureIsNotLast, Next
    PROVE  FailureIsNotLast'
  <1> USE DEF FailureIsNotLast
  <1>1. CASE UNCHANGED <<status, sessions>>
    BY <1>1
  <1>2. CASE ConfirmDisconnect
    BY <1>2 DEF ConfirmDisconnect, UpdateState
  <1>3. ASSUME NEW l \in launches, Permitted(l) \/ Granted(l) \/ Asks(l) \/ Denied(l)
        PROVE  FailureIsNotLast'
    BY <1>3 DEF Permitted, Granted, StartsService, Asks, Denied, UpdateState
  <1>4. CASE Dies
    BY <1>4 DEF Dies
  <1>5. ASSUME NEW s \in sessions,
               \/ OnStartCommand(s) \/ StartOpenVPN(s) \/ Runs(s) \/ Connects(s)
               \/ AuthFails(s) \/ Exits(s)
        PROVE  FailureIsNotLast'
    BY <1>5 DEF OnStartCommand, StartOpenVPN, Runs, Connects, AuthFails, Exits, Gets, UpdateState
  <1>6. ASSUME NEW s \in sessions, EndVpnService(s)
        PROVE  FailureIsNotLast'
    BY <1>6 DEF EndVpnService, UpdateState
  <1>7. CASE Restarted
    BY <1>7 DEF Restarted
  <1>8. CASE Crash \/ \E s \in sessions : OnStartCommandFails(s)
    BY <1>4, <1>8 DEF Crash, Kill, ConversionFails, AskForPW, OnStartCommandFails
  <1>9. CASE \/ RunOnUiThread \/ PanelArrives \/ Resume \/ Open \/ Rotate \/ Finish \/ Pause
             \/ Tap \/ FinishConvert \/ OnBoot \/ Disconnect \/ CancelDisconnect
             \/ \E l \in launches : NotFound(l) \/ Refused(l) \/ Dismissed(l)
    <2>1. UNCHANGED <<status, sessions>>
      BY <1>9 DEF RunOnUiThread, PanelArrives, Resume, Open, Rotate, Finish, Pause, Tap,
                  FinishConvert, OnBoot, Disconnect, CancelDisconnect, NotFound, Refused, Dismissed
    <2> QED
      BY <1>1, <2>1
  <1> HIDE DEF FailureIsNotLast
  <1> QED
    BY <1>2, <1>3, <1>5, <1>6, <1>7, <1>8, <1>9 DEF Next, User, Main, Service

\* A message behind the first one is still there when the first one was taken.
LEMMA PostedBehindTheFirst ==
    ASSUME runnables \in Seq(States), runnables # <<>>, runnables' = Tail(runnables),
           DownIsPosted, ~Fells(Head(runnables))
    PROVE  DownIsPosted'
  <1>1. PICK i \in 1..Len(runnables) :
            runnables[i] \in {"NOPROCESS", "USER_VPN_PERMISSION_CANCELLED"}
    BY DEF DownIsPosted
  <1>2. i # 1
    BY <1>1 DEF Fells
  <1>3. i - 1 \in 1..Len(runnables') /\ runnables'[i - 1] = runnables[i]
    BY <1>2
  <1> QED
    BY <1>1, <1>3 DEF DownIsPosted

LEMMA PanelHasReasonKept ==
    ASSUME PanelHasReason, FailureIsNotLast, runnables \in Seq(States), status \in States, Next
    PROVE  PanelHasReason'
  <1> USE DEF PanelHasReason
  <1>1. CASE dash' # "resumed"
    BY <1>1
  <1>2. CASE RunOnUiThread
    <2>1. UNCHANGED <<dash, status, converting, sessions, launches>>
      BY <1>2 DEF RunOnUiThread
    <2>2. panel' = "up" => panel = "up" /\ ~Fells(Head(runnables))
      BY <1>2, RunOnUiThreadDoes
    <2>3. CASE DownIsPosted /\ panel' = "up"
      BY <1>2, <2>2, <2>3, PostedBehindTheFirst DEF RunOnUiThread
    <2> QED
      BY <2>1, <2>2, <2>3 DEF Active, Covered
  <1>3. CASE PanelArrives
    <2>1. status' = status
      BY <1>3 DEF PanelArrives
    <2> QED
      BY <1>3, <2>1, PanelArrivesDoes DEF Active
  <1>4. CASE Resume
    <2>1. UNCHANGED <<status, sessions>>
      BY <1>4 DEF Resume
    <2>2. panel' = "up" /\ ~Active(status) => ~Fells(status)
      BY <1>4, ResumeDoes DEF Active
    <2>3. ~Active(status) /\ ~Fells(status) => status = "AUTH_FAILED"
      BY DEF Active, Fells
    <2> QED
      BY <2>1, <2>2, <2>3 DEF FailureIsNotLast, Active
  <1>5. CASE Tap
    <2>1. converting' = Append(converting, taps + 1)
      BY <1>5 DEF Tap
    <2> QED
      BY <2>1
  <1>6. CASE FinishConvert
    <2>1. Launch(Head(converting), TRUE) \in launches' /\ Launch(Head(converting), TRUE).own
      BY <1>6 DEF FinishConvert, Launch
    <2>2. Covered'
      BY <2>1 DEF Covered
    <2> QED
      BY <2>2
  <1>7. CASE OnBoot
    <2>1. /\ UNCHANGED <<dash, panel, status, converting, sessions, runnables>>
          /\ launches \subseteq launches'
      BY <1>7 DEF OnBoot
    <2> QED
      BY <2>1 DEF Covered, DownIsPosted, Active
  <1>8. ASSUME NEW s \in sessions,
               \/ OnStartCommand(s) \/ StartOpenVPN(s) \/ Runs(s) \/ Connects(s)
               \/ AuthFails(s) \/ Exits(s)
        PROVE  sessions' # {}
    BY <1>8 DEF OnStartCommand, StartOpenVPN, Runs, Connects, AuthFails, Exits, Gets
  <1>9. ASSUME NEW s \in sessions, EndVpnService(s), dash' = "resumed"
        PROVE  DownIsPosted'
    <2>1. runnables' = Append(runnables, "NOPROCESS")
      BY <1>9 DEF EndVpnService, UpdateState
    <2>2. Len(runnables') \in 1..Len(runnables') /\ runnables'[Len(runnables')] = "NOPROCESS"
      BY <2>1 DEF States
    <2> QED
      BY <2>2 DEF DownIsPosted
  <1>10. CASE Restarted
    <2>1. /\ UNCHANGED <<dash, panel, status, converting, launches, runnables>>
          /\ sessions \subseteq sessions'
      BY <1>10 DEF Restarted
    <2> QED
      BY <2>1 DEF Covered, DownIsPosted, Active
  <1>11. CASE \/ Open \/ Rotate \/ Finish \/ Pause \/ Crash
              \/ Disconnect \/ ConfirmDisconnect \/ CancelDisconnect
              \/ \E l \in launches :
                    \/ NotFound(l) \/ Refused(l) \/ Dismissed(l) \/ Asks(l)
                    \/ Denied(l) \/ Permitted(l) \/ Granted(l)
              \/ \E s \in sessions : OnStartCommandFails(s)
    <2>1. dash' # "resumed"
      BY <1>11 DEF Open, Rotate, Finish, Pause, Disconnect, ConfirmDisconnect,
                   CancelDisconnect, Crash, Kill, ConversionFails, AskForPW, Dies, Renewed, NotFound, Refused, Dismissed, Asks, Denied, Permitted, Granted,
                   OnStartCommandFails
    <2> QED
      BY <1>1, <2>1
  <1>12. ASSUME NEW s \in sessions,
                \/ OnStartCommand(s) \/ StartOpenVPN(s) \/ Runs(s) \/ Connects(s)
                \/ AuthFails(s) \/ Exits(s) \/ EndVpnService(s)
         PROVE  PanelHasReason'
    BY <1>8, <1>9, <1>12
  <1> HIDE DEF PanelHasReason
  <1> QED
    BY <1>2, <1>3, <1>4, <1>5, <1>6, <1>7, <1>10, <1>11, <1>12 DEF Next, User, Main, Service

LEMMA StartsNone ==
    ASSUME Finite, converting \in Seq(1..taps), Starts = 0
    PROVE  /\ converting = <<>> /\ \A l \in launches : ~(l.at = "permission" \/ Fresh(l))
           /\ \A s \in sessions : s.at \notin {"intent", "starting", "generated"}
  <1> DEFINE ls == {l \in launches : l.at = "permission" \/ Fresh(l)}
             ss == {s \in sessions : s.at \in {"intent", "starting", "generated"}}
  <1>1. IsFiniteSet(ls) /\ IsFiniteSet(ss)
    BY FS_Subset DEF Finite
  <1>2. Starts = Cardinality(ls) + Len(converting) + Cardinality(ss)
    BY DEF Starts
  <1> HIDE DEF ls, ss
  <1>3. Cardinality(ls) \in Nat /\ Cardinality(ss) \in Nat /\ Len(converting) \in Nat
    BY <1>1, FS_CardinalityType
  <1>4. Cardinality(ls) = 0 /\ Cardinality(ss) = 0 /\ Len(converting) = 0
    BY <1>2, <1>3
  <1>5. ls = {} /\ ss = {} /\ converting = <<>>
    BY <1>1, <1>4, FS_EmptySet
  <1> QED
    BY <1>5 DEF ls, ss

\* What holds however quick the user is, and whatever fails.
Inv == TypeOK /\ Finite /\ FailureIsNotLast /\ PanelHasReason

LEMMA InvInit ==
    Init => Inv
  <1> SUFFICES ASSUME Init
               PROVE  Inv
    OBVIOUS
  <1>1. ViewTyped
    <2>1. "hide" \in Positions /\ "NOPROCESS" \in States /\ <<>> \in Seq(States)
      BY DEF Positions, States
    <2> QED
      BY <2>1 DEF Init, ViewTyped
  <1>2. IdsTyped
    <2>1. {MaxTaps, MaxKills} \subseteq Nat
      BY ConstantsAssumption
    <2>2. 0 <= MaxTaps /\ 0 <= MaxKills
      BY <2>1
    <2>3. converting \in Seq(1..taps)
      BY DEF Init
    <2> QED
      BY <2>2, <2>3 DEF Init, IdsTyped
  <1>3. DialogTyped
    BY DEF Init, DialogTyped
  <1>4. Finite /\ FailureIsNotLast /\ PanelHasReason
    BY FS_EmptySet DEF Init, Finite, FailureIsNotLast, PanelHasReason
  <1> QED
    BY <1>1, <1>2, <1>3, <1>4, TypesAre DEF Inv

LEMMA InvKept ==
    ASSUME Inv, [Next]_vars
    PROVE  Inv'
  <1>1. CASE Next
    <2>1. ViewTyped /\ DialogTyped /\ IdsTyped
      BY TypesAre DEF Inv
    <2>2. ViewTyped' /\ DialogTyped' /\ IdsTyped'
      BY <1>1, <2>1, ViewTypedKept, DialogTypedKept, IdsTypedKept
    <2>3. TypeOK'
      <3>1. taps' \in 0..MaxTaps /\ kills' \in 0..MaxKills
        BY <2>2, ConstantsAssumption DEF IdsTyped
      <3> QED
        BY <2>2, <3>1, Zenon DEF TypeOK, ViewTyped, DialogTyped, IdsTyped, LaunchRecords, SessionRecords
    <2>4. Finite' /\ FailureIsNotLast' /\ PanelHasReason'
      BY <1>1, <2>1, FiniteKept, FailureIsNotLastKept, PanelHasReasonKept DEF Inv, ViewTyped
    <2> QED
      BY <2>3, <2>4 DEF Inv
  <1>2. CASE UNCHANGED vars
    BY <1>2 DEF vars, Inv, TypeOK, Finite, FailureIsNotLast, PanelHasReason, DownIsPosted,
                Covered, Active
  <1> QED
    BY <1>1, <1>2

\* Every variable keeps its type, and the sets of launches and sessions stay finite,
\* for every number of taps and of ends of the app.
THEOREM TypeCorrect == Spec => []TypeOK
  <1>1. Spec => []Inv
    BY InvInit, InvKept, PTL DEF Spec
  <1>2. Inv => TypeOK
    BY DEF Inv
  <1> QED
    BY <1>1, <1>2, PTL

\* A panel that stays up is there for an active VPN or a session about to end, whatever
\* the user, the system and the faults do: DashBoard.onResume() tells it the last state,
\* and updateStateToUIThread() every state after that.
THEOREM PanelIsExplained == Spec => []PanelIsForActive
  <1>1. Spec => []Inv
    BY InvInit, InvKept, PTL DEF Spec
  <1>2. ASSUME Inv
        PROVE  PanelIsForActive
    <2>1. SUFFICES ASSUME Settled, sessions = {}, panel = "up", ~Active(status)
                   PROVE  FALSE
      BY DEF PanelIsForActive
    <2>2. converting = <<>>
      BY <1>2, <2>1, StartsNone, TypesAre DEF Inv, Settled, IdsTyped
    <2>3. DownIsPosted
      BY <1>2, <2>1, <2>2 DEF Inv, PanelHasReason, Settled
    <2> QED
      BY <2>1, <2>3 DEF DownIsPosted, Settled
  <1> QED
    BY <1>1, <1>2, PTL
------------------------------------------------------------------------------
(* An active VPN is under way                                                 *)

LEMMA ActiveIsUnderWayKept ==
    ASSUME ActiveIsUnderWay, launches \subseteq LaunchRecords(taps), Next, "dialog" \notin Faults
    PROVE  ActiveIsUnderWay'
  <1> USE DEF ActiveIsUnderWay, UnderWay
  <1>1. CASE UNCHANGED <<status, late>> /\ sessions \subseteq sessions' /\ launches \subseteq launches'
    BY <1>1 DEF Active
  <1>2. CASE sessions' # {}
    BY <1>2
  <1>3. CASE ~Active(status)'
    BY <1>3
  <1>4. CASE ConfirmDisconnect
    <2>1. /\ status' = "Disconnecting" /\ late' = ~UnderWay /\ launches' = launches
          /\ \A s \in sessions : sessions' # {}
      BY <1>4 DEF ConfirmDisconnect, UpdateState
    <2> QED
      BY <2>1
  <1>5. ASSUME NEW l \in launches, NotFound(l) \/ Refused(l) \/ Dismissed(l)
        PROVE  ActiveIsUnderWay'
    <2>1. l.at # "permission" /\ launches \ {l} \subseteq launches' /\ UNCHANGED <<status, late, sessions>>
      BY <1>5 DEF NotFound, Refused, Dismissed, Leaves, Goes, Fresh
    <2> QED
      BY <2>1 DEF Active
  <1>6. ASSUME NEW l \in launches, Permitted(l) \/ Granted(l)
        PROVE  ActiveIsUnderWay'
    BY <1>2, <1>6 DEF Permitted, Granted, StartsService
  <1>7. ASSUME NEW l \in launches, Asks(l)
        PROVE  ActiveIsUnderWay'
    <2>1. Goes(l, "permission")
      BY <1>7 DEF Asks
    <2>2. [l EXCEPT !.at = "permission"].at = "permission"
      BY DEF LaunchRecords
    <2> QED
      BY <2>1, <2>2 DEF Goes
  <1>8. ASSUME NEW l \in launches, Denied(l)
        PROVE  ActiveIsUnderWay'
    BY <1>3, <1>8 DEF Denied, UpdateState, Active
  <1>9. CASE Crash \/ \E s \in sessions : OnStartCommandFails(s)
    BY <1>3, <1>9 DEF Crash, Kill, ConversionFails, AskForPW, OnStartCommandFails, Dies, Active
  <1>10. ASSUME NEW s \in sessions,
                \/ OnStartCommand(s) \/ StartOpenVPN(s) \/ Runs(s) \/ Connects(s)
                \/ AuthFails(s) \/ Exits(s)
         PROVE  ActiveIsUnderWay'
    BY <1>2, <1>10 DEF OnStartCommand, StartOpenVPN, Runs, Connects, AuthFails, Exits, Gets
  <1>11. ASSUME NEW s \in sessions, EndVpnService(s)
         PROVE  ActiveIsUnderWay'
    BY <1>3, <1>11 DEF EndVpnService, UpdateState, Active
  <1>12. CASE \/ RunOnUiThread \/ PanelArrives \/ Resume \/ Open \/ Rotate \/ Finish \/ Pause
              \/ Tap \/ FinishConvert \/ OnBoot \/ Restarted \/ Disconnect \/ CancelDisconnect
    BY <1>1, <1>12 DEF RunOnUiThread, PanelArrives, Resume, Open, Rotate, Finish, Pause, Tap,
                       FinishConvert, OnBoot, Restarted, Disconnect, CancelDisconnect
  <1> HIDE DEF ActiveIsUnderWay, UnderWay
  <1> QED
    BY <1>4, <1>5, <1>6, <1>7, <1>8, <1>9, <1>10, <1>11, <1>12 DEF Next, User, Main, Service

\* While a VPN is shown as active, no tap on a server is accepted.  Where the system has
\* its dialog for the permission, there is a session then, which is going to end, or that
\* dialog, unless the user confirmed DisconnectVPN when nothing was under way: the only
\* state that nobody is going to change is the "Disconnecting" of that moment.
THEOREM ActiveEnds ==
    "dialog" \notin Faults => (Spec => []ActiveIsUnderWay)
  <1> SUFFICES ASSUME "dialog" \notin Faults
               PROVE  Spec => []ActiveIsUnderWay
    OBVIOUS
  <1> DEFINE I == Inv /\ ActiveIsUnderWay
  <1>1. Init => I
    <2>1. Init => ActiveIsUnderWay
      BY DEF Init, ActiveIsUnderWay, Active
    <2> QED
      BY <2>1, InvInit
  <1>2. I /\ [Next]_vars => I'
    <2>1. Inv /\ [Next]_vars => Inv'
      BY InvKept
    <2>2. I /\ Next => ActiveIsUnderWay'
      BY ActiveIsUnderWayKept, TypesAre DEF Inv, IdsTyped
    <2>3. I /\ UNCHANGED vars => ActiveIsUnderWay'
      BY DEF vars, ActiveIsUnderWay, UnderWay, Active
    <2> QED
      BY <2>1, <2>2, <2>3
  <1>3. I => ActiveIsUnderWay
    OBVIOUS
  <1> QED
    BY <1>1, <1>2, <1>3, PTL DEF Spec
------------------------------------------------------------------------------
(* One start at a time, when no tap and no end of the boot comes while        *)
(* another start or an end goes on                                            *)

\* A launch that may still start the service.
Busy(l) == l.at = "permission" \/ Fresh(l)

\* A conversion, a launch and a session are never there at once, nor two of a kind.
OneAtATime ==
    /\ Len(converting) <= 1
    /\ converting # <<>> => sessions = {}
    /\ converting # <<>> => \A l \in launches : ~Busy(l)
    /\ \A l \in launches : Busy(l) => sessions = {}
    /\ \A l, k \in launches : Busy(l) /\ Busy(k) => l = k
    /\ \A s, t \in sessions : s = t

\* What a tap could disturb is shown as active, which keeps the tap away.
BusyIsShown ==
    /\ \A l \in launches : l.at = "permission" => Active(status)
    /\ \A s \in sessions : s.at \in {"generated", "running"} => Active(status)

\* A restarted service finds no profile: they went with the app.
RestartIsVain == restart => lastProfile \notin profiles

\* The profile that is being converted is a new one.
ConvertedIsNew ==
    converting # <<>> => /\ Head(converting) # lastProfile
                         /\ \A l \in launches : l.id # Head(converting)

Alone == OneAtATime /\ BusyIsShown /\ RestartIsVain /\ ConvertedIsNew

LEMMA DiesAlone ==
    ASSUME Dies, launches \subseteq LaunchRecords(taps), UNCHANGED lastProfile
    PROVE  Alone'
  <1>1. converting' = <<>> /\ sessions' = {} /\ profiles' = {} /\ Len(converting') = 0
    BY DEF Dies
  <1>2. \A l \in launches' : l.at = "created"
    BY DEF Dies, LaunchRecords
  <1> QED
    BY <1>1, <1>2
       DEF Alone, OneAtATime, BusyIsShown, RestartIsVain, ConvertedIsNew, Busy, Fresh

\* A step that only takes launches and profiles away.
LEMMA LessStaysAlone ==
    ASSUME Alone, UNCHANGED <<converting, sessions, status, lastProfile>>,
           restart' => restart, profiles' \subseteq profiles,
           \A l \in launches' : l \in launches \/ (l.at = "error" /\ \E k \in launches : l.id = k.id)
    PROVE  Alone'
  <1>1. \A l \in launches' : Busy(l)' => l \in launches /\ Busy(l)
    BY DEF Busy, Fresh
  <1>2. OneAtATime'
    BY <1>1 DEF Alone, OneAtATime
  <1>3. BusyIsShown'
    BY DEF Alone, BusyIsShown, Active
  <1>4. RestartIsVain' /\ ConvertedIsNew'
    BY DEF Alone, RestartIsVain, ConvertedIsNew
  <1> QED
    BY <1>2, <1>3, <1>4 DEF Alone

\* A launch that starts the service is the only one, and leaves nobody but its session.
LEMMA StartsServiceAlone ==
    ASSUME Alone, NEW l \in launches, Busy(l), StartsService(l),
           UNCHANGED <<converting, status, profiles, lastProfile, restart>>
    PROVE  Alone'
  <1>1. /\ converting = <<>> /\ converting' = <<>> /\ Len(converting') = 0
        /\ sessions' = {[id |-> l.id, at |-> "intent"]} /\ launches' = launches \ {l}
    BY DEF Alone, OneAtATime, StartsService, Leaves
  <1>2. \A k \in launches' : k \in launches /\ ~Busy(k) /\ ~Busy(k)'
    BY <1>1 DEF Alone, OneAtATime, Busy, Fresh
  <1>3. OneAtATime'
    BY <1>1, <1>2 DEF OneAtATime
  <1>4. BusyIsShown'
    BY <1>1, <1>2 DEF BusyIsShown, Busy
  <1>5. RestartIsVain' /\ ConvertedIsNew'
    BY <1>1 DEF Alone, RestartIsVain, ConvertedIsNew
  <1> QED
    BY <1>3, <1>4, <1>5 DEF Alone

\* The session, the only one, goes on.
LEMMA SessionAlone ==
    ASSUME Alone, NEW s \in sessions, sessions' = {} \/ \E t : sessions' = {t},
           UNCHANGED <<converting, launches>>, profiles' = profiles,
           \A t \in sessions' : t.at \in {"generated", "running"} => Active(status)',
           restart' => lastProfile' \notin profiles
    PROVE  Alone'
  <1>1. converting' = <<>> /\ Len(converting') = 0
    BY DEF Alone, OneAtATime
  <1>2. \A l \in launches' : ~Busy(l)'
    BY DEF Alone, OneAtATime, Busy, Fresh
  <1>3. OneAtATime'
    BY <1>1, <1>2 DEF OneAtATime
  <1>4. BusyIsShown'
    BY <1>2 DEF BusyIsShown, Busy
  <1>5. RestartIsVain' /\ ConvertedIsNew'
    BY <1>1 DEF RestartIsVain, ConvertedIsNew
  <1> QED
    BY <1>3, <1>4, <1>5 DEF Alone
LEMMA AloneKept ==
    ASSUME Alone, IdsTyped, Next, ~Quick
    PROVE  Alone'
  <1>1. \A s \in sessions : sessions = {s}
    BY DEF Alone, OneAtATime
  <1>2. None \notin profiles
    <2>1. profiles \subseteq Nat
      BY DEF IdsTyped
    <2> QED
      BY <2>1, ConstantsAssumption
  <1>3. CASE \/ RunOnUiThread \/ PanelArrives \/ Resume \/ Open \/ Rotate \/ Finish \/ Pause
             \/ Disconnect \/ CancelDisconnect
             \/ \E l \in launches : NotFound(l) \/ Dismissed(l)
    <2>1. /\ UNCHANGED <<converting, sessions, status, lastProfile, restart>>
          /\ profiles' \subseteq profiles /\ launches' \subseteq launches
      BY <1>3 DEF RunOnUiThread, PanelArrives, Resume, Open, Rotate, Finish, Pause, Disconnect,
                  CancelDisconnect, NotFound, Dismissed, LooksUp, Leaves
    <2> QED
      BY <2>1, LessStaysAlone
  <1>4. CASE Tap
    <2>1. /\ ~Active(status) /\ converting = <<>> /\ \A l \in launches : ~Fresh(l)
          /\ \A s \in sessions : s.at \in {"generated", "running"}
      BY <1>4 DEF Tap, Ready, Hurries
    <2>2. sessions = {} /\ \A l \in launches : ~Busy(l)
      BY <2>1 DEF Alone, BusyIsShown, Busy
    <2>3. /\ converting' = <<taps + 1>>
          /\ UNCHANGED <<status, sessions, launches, profiles, lastProfile, restart>>
      BY <1>4, <2>1 DEF Tap
    <2>4. Len(converting') = 1 /\ Head(converting') = taps + 1
      BY <2>3
    <2>5. lastProfile # taps + 1 /\ \A l \in launches : l.id # taps + 1
      BY ConstantsAssumption DEF IdsTyped, LaunchRecords
    <2>6. OneAtATime'
      BY <2>2, <2>3, <2>4 DEF OneAtATime, Busy, Fresh
    <2>7. BusyIsShown' /\ RestartIsVain' /\ ConvertedIsNew'
      BY <2>2, <2>3, <2>4, <2>5
         DEF Alone, BusyIsShown, RestartIsVain, ConvertedIsNew, Active, Busy
    <2> QED
      BY <2>6, <2>7 DEF Alone
  <1>5. CASE ConfirmDisconnect
    <2>1. /\ status' = "Disconnecting" /\ lastProfile' = None
          /\ sessions' = {IF s.at = "running" THEN [s EXCEPT !.at = "stopped"] ELSE s : s \in sessions}
          /\ UNCHANGED <<converting, launches, profiles, restart>>
      BY <1>5 DEF ConfirmDisconnect, UpdateState
    <2>2. Active(status)'
      BY <2>1 DEF Active
    <2>3. OneAtATime'
      BY <2>1 DEF Alone, OneAtATime, Busy, Fresh
    <2>4. BusyIsShown'
      BY <2>2 DEF BusyIsShown
    <2>5. RestartIsVain'
      BY <1>2, <2>1 DEF RestartIsVain
    <2>6. ConvertedIsNew'
      <3>1. converting # <<>> => Head(converting) \in 1..taps
        BY DEF IdsTyped
      <3>2. converting # <<>> => Head(converting) # None
        BY <3>1, ConstantsAssumption
      <3> QED
        BY <2>1, <3>2 DEF Alone, ConvertedIsNew
    <2> QED
      BY <2>3, <2>4, <2>5, <2>6 DEF Alone
  <1>6. CASE FinishConvert
    <2> DEFINE p == Head(converting)
    <2>1. /\ converting # <<>> /\ converting' = Tail(converting)
          /\ launches' = launches \cup {Launch(p, TRUE)} /\ profiles' = profiles \cup {p}
          /\ UNCHANGED <<status, sessions, lastProfile, restart>>
      BY <1>6 DEF FinishConvert
    <2>2. converting' = <<>> /\ Len(converting') <= 1
      <3>1. converting \in Seq(1..taps) /\ Len(converting) <= 1
        BY DEF Alone, OneAtATime, IdsTyped
      <3>2. Len(converting) = 1
        BY <2>1, <3>1, EmptySeq
      <3>3. Tail(converting) \in Seq(1..taps) /\ Len(Tail(converting)) = 0
        BY <2>1, <3>1, <3>2, HeadTailProperties
      <3>4. Tail(converting) = <<>>
        BY <3>3, EmptySeq
      <3> QED
        BY <2>1, <3>3, <3>4
    <2>3. sessions = {} /\ p # lastProfile /\ \A l \in launches : ~Busy(l) /\ l.id # p
      BY <2>1 DEF Alone, OneAtATime, ConvertedIsNew
    <2> HIDE DEF p
    <2>4. \A l \in launches' : (l \in launches /\ ~Busy(l)') \/ l = Launch(p, TRUE)
      BY <2>1, <2>3 DEF Busy, Fresh
    <2>5. Launch(p, TRUE).at = "created"
      BY DEF Launch
    <2>6. OneAtATime'
      <3>1. \A l, k \in launches' : Busy(l)' /\ Busy(k)' => l = k
        BY <2>4
      <3> QED
        BY <2>1, <2>2, <2>3, <3>1 DEF OneAtATime
    <2>7. BusyIsShown'
      BY <2>1, <2>3, <2>4, <2>5 DEF BusyIsShown, Busy
    <2>8. RestartIsVain' /\ ConvertedIsNew'
      BY <2>1, <2>2, <2>3 DEF Alone, RestartIsVain, ConvertedIsNew
    <2> QED
      BY <2>6, <2>7, <2>8 DEF Alone
  <1>7. CASE OnBoot
    <2>1. /\ taps = 0 /\ launches' = launches \cup {Launch(taps + 1, FALSE)}
          /\ profiles' = profiles \cup {taps + 1}
          /\ UNCHANGED <<status, converting, sessions, lastProfile, restart>>
      BY <1>7 DEF OnBoot
    <2>2. \A n \in 1..taps : FALSE
      BY <2>1
    <2>3. launches = {} /\ sessions = {} /\ profiles = {} /\ lastProfile = None
      BY <2>2 DEF IdsTyped, LaunchRecords, SessionRecords
    <2>4. converting = <<>> /\ Len(converting) = 0
      BY <2>2 DEF IdsTyped
    <2>5. Launch(taps + 1, FALSE).at = "created" /\ None # taps + 1
      BY ConstantsAssumption DEF Launch, IdsTyped
    <2> QED
      BY <2>1, <2>3, <2>4, <2>5
         DEF Alone, OneAtATime, BusyIsShown, RestartIsVain, ConvertedIsNew
  <1>8. ASSUME NEW l \in launches, Refused(l)
        PROVE  Alone'
    <2>1. /\ UNCHANGED <<converting, sessions, status, lastProfile, restart, profiles>>
          /\ launches' = (launches \ {l}) \cup {[l EXCEPT !.at = "error"]}
      BY <1>8 DEF Refused, Goes
    <2>2. [l EXCEPT !.at = "error"].at = "error" /\ [l EXCEPT !.at = "error"].id = l.id
      BY DEF IdsTyped, LaunchRecords
    <2> QED
      BY <2>1, <2>2, LessStaysAlone
  <1>9. ASSUME NEW l \in launches, Permitted(l) \/ Granted(l)
        PROVE  Alone'
    <2>1. /\ Busy(l) /\ StartsService(l)
          /\ UNCHANGED <<converting, status, profiles, lastProfile, restart>>
      BY <1>9 DEF Permitted, Granted, Busy
    <2> QED
      BY <2>1, StartsServiceAlone
  <1>10. ASSUME NEW l \in launches, Asks(l)
         PROVE  Alone'
    <2>1. PICK at \in {"permission", "error"} : Goes(l, at)
      BY <1>10 DEF Asks
    <2> DEFINE m == [l EXCEPT !.at = at]
    <2>2. /\ m.id = l.id /\ launches' = (launches \ {l}) \cup {m}
          /\ status' = "USER_VPN_PERMISSION"
          /\ UNCHANGED <<converting, sessions, profiles, lastProfile, restart>>
      BY <1>10, <2>1 DEF Asks, Goes, UpdateState, IdsTyped, LaunchRecords
    <2> HIDE DEF m
    <2>3. converting = <<>> /\ sessions = {} /\ \A k \in launches \ {l} : ~Busy(k)
      BY <1>10 DEF Asks, Alone, OneAtATime, Busy
    <2>4. \A k \in launches' : Busy(k)' => k = m
      BY <2>2, <2>3 DEF Busy, Fresh
    <2>5. OneAtATime'
      BY <2>2, <2>3, <2>4 DEF Alone, OneAtATime
    <2>6. BusyIsShown' /\ RestartIsVain' /\ ConvertedIsNew'
      BY <2>2, <2>3 DEF Alone, BusyIsShown, RestartIsVain, ConvertedIsNew, Active
    <2> QED
      BY <2>5, <2>6 DEF Alone
  <1>11. ASSUME NEW l \in launches, Denied(l)
         PROVE  Alone'
    <2>1. /\ launches' = launches \ {l}
          /\ UNCHANGED <<converting, sessions, profiles, lastProfile, restart>>
      BY <1>11 DEF Denied, Leaves
    <2>2. converting = <<>> /\ sessions = {} /\ \A k \in launches' : ~Busy(k) /\ ~Busy(k)'
      BY <1>11, <2>1 DEF Denied, Alone, OneAtATime, Busy, Fresh
    <2>3. OneAtATime'
      BY <2>1, <2>2 DEF Alone, OneAtATime
    <2>4. BusyIsShown' /\ RestartIsVain' /\ ConvertedIsNew'
      BY <2>1, <2>2 DEF Alone, BusyIsShown, RestartIsVain, ConvertedIsNew, Busy
    <2> QED
      BY <2>3, <2>4 DEF Alone
  <1>12. CASE Crash \/ \E s \in sessions : OnStartCommandFails(s)
    BY <1>12, DiesAlone DEF Crash, Kill, ConversionFails, AskForPW, OnStartCommandFails, IdsTyped
  <1>13. ASSUME NEW s \in sessions,
                OnStartCommand(s) \/ StartOpenVPN(s) \/ AuthFails(s) \/ Exits(s)
         PROVE  Alone'
    <2>1. PICK at \in Stages : /\ sessions' = {[s EXCEPT !.at = at]}
                               /\ at # "running"
                               /\ (at = "generated" => Active(status)')
      <3>1. PICK at \in {"starting", "generated", "stopped", "exited"} :
                Gets(s, at) /\ (at = "generated" => status' = "VPN_GENERATE_CONFIG")
        BY <1>13 DEF OnStartCommand, StartOpenVPN, AuthFails, Exits, UpdateState
      <3> QED
        BY <1>1, <3>1 DEF Gets, Active, Stages
    <2>2. [s EXCEPT !.at = at].at = at
      BY DEF IdsTyped, SessionRecords
    <2>3. /\ UNCHANGED <<converting, launches>> /\ profiles' = profiles
          /\ (restart' => restart /\ lastProfile' = lastProfile)
      BY <1>13 DEF OnStartCommand, StartOpenVPN, AuthFails, Exits
    <2>4. restart' => lastProfile' \notin profiles
      BY <2>3 DEF Alone, RestartIsVain
    <2> QED
      BY <2>1, <2>2, <2>3, <2>4, SessionAlone
  <1>14. ASSUME NEW s \in sessions, Runs(s)
         PROVE  Alone'
    <2>1. /\ sessions' = {[s EXCEPT !.at = "running"]}
          /\ UNCHANGED <<converting, launches, status, lastProfile, restart>> /\ profiles' = profiles
      BY <1>1, <1>14 DEF Runs
    <2>2. Active(status)'
      BY <1>14, <2>1 DEF Runs, Alone, BusyIsShown, Active
    <2> QED
      BY <2>1, <2>2, SessionAlone DEF Alone, RestartIsVain
  <1>15. ASSUME NEW s \in sessions, Connects(s)
         PROVE  Alone'
    <2>1. /\ sessions' = {s} /\ status' = "CONNECTED"
          /\ UNCHANGED <<converting, launches, lastProfile, restart>> /\ profiles' = profiles
      BY <1>1, <1>15 DEF Connects, UpdateState
    <2>2. Active(status)'
      BY <2>1 DEF Active
    <2> QED
      BY <2>1, <2>2, SessionAlone DEF Alone, RestartIsVain
  <1>16. ASSUME NEW s \in sessions, EndVpnService(s)
         PROVE  Alone'
    <2>1. /\ sessions' = {} /\ lastProfile' = None /\ UNCHANGED <<converting, launches>>
          /\ profiles' = profiles
      BY <1>1, <1>16 DEF EndVpnService
    <2> QED
      BY <1>2, <2>1, SessionAlone
  <1>17. CASE Restarted
    <2>1. /\ UNCHANGED <<converting, sessions, status, lastProfile, launches>>
          /\ restart' = FALSE /\ profiles' \subseteq profiles
      BY <1>17 DEF Restarted, LooksUp, Alone, RestartIsVain
    <2> QED
      BY <2>1, LessStaysAlone
  <1> QED
    BY <1>3, <1>4, <1>5, <1>6, <1>7, <1>8, <1>9, <1>10, <1>11, <1>12, <1>13, <1>14, <1>15,
       <1>16, <1>17 DEF Next, User, Main, Service
------------------------------------------------------------------------------
(* The cover                                                                  *)

\* What is posted as the end of a session is still true when it is served, and a refusal
\* is never posted: DashBoard is not in front then.
PostedIsTrue ==
    \A i \in 1..Len(runnables) :
        /\ runnables[i] # "USER_VPN_PERMISSION_CANCELLED"
        /\ runnables[i] = "NOPROCESS" => sessions = {} /\ status = "NOPROCESS"

CoverIsUp == cover => panel = "up"

LEMMA PostedIsTrueKept ==
    ASSUME Alone, PostedIsTrue, runnables \in Seq(States), Next
    PROVE  PostedIsTrue'
  <1>1. CASE runnables' = <<>>
    BY <1>1 DEF PostedIsTrue
  <1>2. CASE RunOnUiThread
    <2>1. runnables # <<>> /\ runnables' = Tail(runnables) /\ UNCHANGED <<sessions, status>>
      BY <1>2 DEF RunOnUiThread
    <2>2. ASSUME NEW i \in 1..Len(runnables')
          PROVE  i + 1 \in 1..Len(runnables) /\ runnables'[i] = runnables[i + 1]
      BY <2>1, HeadTailProperties
    <2> QED
      BY <2>1, <2>2 DEF PostedIsTrue
  <1>3. ASSUME NEW s \in sessions, NEW t \in States, t # "USER_VPN_PERMISSION_CANCELLED",
               runnables' = runnables \/ runnables' = Append(runnables, t),
               t = "NOPROCESS" => sessions' = {} /\ status' = "NOPROCESS"
        PROVE  PostedIsTrue'
    <2>1. \A i \in 1..Len(runnables) :
              runnables[i] \notin {"NOPROCESS", "USER_VPN_PERMISSION_CANCELLED"}
      BY DEF PostedIsTrue
    <2>2. \A i \in 1..Len(runnables') :
              runnables'[i] = t \/ \E j \in 1..Len(runnables) : runnables'[i] = runnables[j]
      <3>1. CASE runnables' = runnables
        BY <3>1
      <3>2. CASE runnables' = Append(runnables, t)
        <4>1. /\ Len(runnables') = Len(runnables) + 1 /\ Len(runnables) \in Nat
              /\ runnables'[Len(runnables) + 1] = t
              /\ \A i \in 1..Len(runnables) : runnables'[i] = runnables[i]
          BY <3>2
        <4> QED
          BY <4>1
      <3> QED
        BY <1>3, <3>1, <3>2
    <2> QED
      BY <1>3, <2>1, <2>2 DEF PostedIsTrue
  <1>4. ASSUME NEW s \in sessions,
               \/ StartOpenVPN(s) \/ Runs(s) \/ Connects(s) \/ AuthFails(s) \/ Exits(s)
        PROVE  PostedIsTrue'
    <2>1. \E t \in {"VPN_GENERATE_CONFIG", "CONNECTED", "AUTH_FAILED", "EXITING"} :
              runnables' = runnables \/ runnables' = Append(runnables, t)
      BY <1>4 DEF StartOpenVPN, Runs, Connects, AuthFails, Exits, UpdateState
    <2> QED
      BY <1>3, <2>1 DEF States
  <1>5. ASSUME NEW s \in sessions, EndVpnService(s)
        PROVE  PostedIsTrue'
    <2>1. sessions' = {}
      BY <1>5 DEF EndVpnService, Alone, OneAtATime
    <2>2. /\ status' = "NOPROCESS"
          /\ runnables' = runnables \/ runnables' = Append(runnables, "NOPROCESS")
      BY <1>5 DEF EndVpnService, UpdateState
    <2> QED
      BY <1>3, <2>1, <2>2 DEF States
  <1>6. CASE Crash \/ \E s \in sessions : OnStartCommandFails(s)
    <2>1. runnables' = <<>>
      BY <1>6 DEF Crash, Kill, ConversionFails, AskForPW, OnStartCommandFails, Dies, Renewed
    <2> QED
      BY <1>1, <2>1
  <1>7. CASE runnables = <<>> /\ (User \/ Main) /\ ~\E s \in sessions : OnStartCommandFails(s)
    <2>1. CASE UNCHANGED runnables
      BY <1>1, <1>7, <2>1
    <2>2. CASE Open \/ Rotate \/ Finish
      BY <1>1, <2>2 DEF Open, Rotate, Finish, Renewed
    <2>3. ASSUME ConfirmDisconnect \/ \E l \in launches : Asks(l) \/ Denied(l)
          PROVE  UNCHANGED runnables
      BY <2>3 DEF ConfirmDisconnect, Asks, Denied, UpdateState
    <2>4. ASSUME NEW l \in launches,
                 NotFound(l) \/ Refused(l) \/ Permitted(l) \/ Granted(l) \/ Dismissed(l)
          PROVE  UNCHANGED runnables
      BY <2>4 DEF NotFound, Refused, Permitted, Granted, Dismissed
    <2>5. Pause \/ Tap \/ Disconnect \/ CancelDisconnect \/ OnBoot \/ PanelArrives \/ Resume \/ FinishConvert
          \/ Restarted \/ (\E s \in sessions : OnStartCommand(s)) => UNCHANGED runnables
      BY DEF Pause, Tap, Disconnect, CancelDisconnect, OnBoot, PanelArrives, Resume,
             FinishConvert, Restarted, OnStartCommand
    <2> QED
      BY <1>7, <2>1, <2>2, <2>3, <2>4, <2>5 DEF User, Main
  <1> QED
    BY <1>2, <1>4, <1>5, <1>6, <1>7 DEF Next, Service

LEMMA CoverIsUpKept ==
    ASSUME CoverIsUp, PostedIsTrue, runnables \in Seq(States), Next
    PROVE  CoverIsUp'
  <1> USE DEF CoverIsUp
  <1>1. CASE UNCHANGED <<panel, cover>>
    BY <1>1
  <1>2. CASE cover' = FALSE
    BY <1>2
  <1>3. CASE RunOnUiThread
    <2>1. Len(runnables) \in Nat \ {0} /\ Head(runnables) = runnables[1]
      BY <1>3, EmptySeq DEF RunOnUiThread
    <2>2. Fells(Head(runnables)) => ~Active(status)
      BY <2>1 DEF PostedIsTrue, Fells, Active
    <2> QED
      BY <1>3, <2>2, RunOnUiThreadDoes
  <1>4. CASE PanelArrives
    <2>1. panel # "up"
      BY <1>4 DEF PanelArrives
    <2> QED
      BY <1>4, <2>1, PanelArrivesDoes
  <1>5. CASE Resume
    <2>1. Fells(status) => ~Active(status)
      BY DEF Fells, Active
    <2> QED
      BY <1>5, <2>1, ResumeDoes
  <1>6. CASE Tap
    BY <1>6, TapDoes
  <1>7. CASE Open \/ Rotate \/ Finish \/ Crash \/ \E s \in sessions : OnStartCommandFails(s)
    <2>1. cover' = FALSE
      BY <1>7 DEF Open, Rotate, Finish, Crash, Kill, ConversionFails, AskForPW, Dies, Renewed,
                  OnStartCommandFails
    <2> QED
      BY <1>2, <2>1
  <1>8. CASE \/ Pause \/ Disconnect \/ ConfirmDisconnect \/ CancelDisconnect \/ OnBoot \/ FinishConvert \/ Restarted
             \/ \E l \in launches :
                   \/ NotFound(l) \/ Refused(l) \/ Dismissed(l) \/ Asks(l)
                   \/ Denied(l) \/ Permitted(l) \/ Granted(l)
             \/ \E s \in sessions :
                   \/ OnStartCommand(s) \/ StartOpenVPN(s) \/ Runs(s) \/ Connects(s)
                   \/ AuthFails(s) \/ Exits(s) \/ EndVpnService(s)
    <2>1. UNCHANGED <<panel, cover>>
      BY <1>8 DEF Pause, Disconnect, ConfirmDisconnect, CancelDisconnect, OnBoot,
                  FinishConvert, Restarted, NotFound, Refused,
                  Dismissed, Asks, Denied, Permitted, Granted, OnStartCommand, StartOpenVPN,
                  Runs, Connects, AuthFails, Exits, EndVpnService
    <2> QED
      BY <1>1, <2>1
  <1> HIDE DEF CoverIsUp
  <1> QED
    BY <1>3, <1>4, <1>5, <1>6, <1>7, <1>8 DEF Next, User, Main, Service
------------------------------------------------------------------------------
(* What holds when nothing comes in between                                   *)

InvAlone == Inv /\ Alone /\ PostedIsTrue /\ CoverIsUp

LEMMA InvAloneHolds ==
    ASSUME ~Quick
    PROVE  Spec => []InvAlone
  <1>1. Init => InvAlone
    <2> SUFFICES ASSUME Init
                 PROVE  InvAlone
      OBVIOUS
    <2>1. Inv
      BY InvInit
    <2>2. Alone
      BY DEF Init, Alone, OneAtATime, BusyIsShown, RestartIsVain, ConvertedIsNew
    <2>3. PostedIsTrue /\ CoverIsUp
      BY DEF Init, PostedIsTrue, CoverIsUp
    <2> QED
      BY <2>1, <2>2, <2>3 DEF InvAlone
  <1>2. InvAlone /\ [Next]_vars => InvAlone'
    <2> SUFFICES ASSUME InvAlone, [Next]_vars
                 PROVE  InvAlone'
      OBVIOUS
    <2>1. Inv'
      BY InvKept DEF InvAlone
    <2>2. CASE Next
      <3>1. IdsTyped /\ runnables \in Seq(States)
        BY TypesAre DEF InvAlone, Inv, ViewTyped
      <3>2. Alone' /\ PostedIsTrue' /\ CoverIsUp'
        BY <2>2, <3>1, AloneKept, PostedIsTrueKept, CoverIsUpKept DEF InvAlone
      <3> QED
        BY <2>1, <3>2 DEF InvAlone
    <2>3. CASE UNCHANGED vars
      <3>1. Alone'
        BY <2>3 DEF vars, InvAlone, Alone, OneAtATime, BusyIsShown, RestartIsVain,
                    ConvertedIsNew, Busy, Fresh, Active
      <3>2. PostedIsTrue' /\ CoverIsUp'
        BY <2>3 DEF vars, InvAlone, PostedIsTrue, CoverIsUp
      <3> QED
        BY <2>1, <3>1, <3>2 DEF InvAlone
    <2> QED
      BY <2>2, <2>3
  <1> QED
    BY <1>1, <1>2, PTL DEF Spec

\* As long as no tap and no end of the boot comes within the time of a few messages of
\* another start or an end, every tap makes one start, and there is no other start or
\* session beside it, whatever fails and however often the app ends: isVPNActive(), which
\* startOrStopVPN() asks, and what VpnStatus is told say enough.
THEOREM OneTapOneStart ==
    ~Quick => (Spec => []OneStart)
  <1> SUFFICES ASSUME ~Quick
               PROVE  Spec => []OneStart
    OBVIOUS
  <1>1. Spec => []InvAlone
    BY InvAloneHolds
  <1>2. ASSUME InvAlone
        PROVE  OneStart
    <2> DEFINE ls == {l \in launches : l.at = "permission" \/ Fresh(l)}
               ss == {s \in sessions : s.at \in {"intent", "starting", "generated"}}
               us == Ups
    <2>1. Starts + Cardinality(Ups) =
              Cardinality(ls) + Len(converting) + Cardinality(ss) + Cardinality(us)
      BY DEF Starts
    <2>2. \A l \in ls : l \in launches /\ Busy(l)
      BY DEF Busy
    <2>3. /\ converting = <<>> \/ Len(converting) = 1
          /\ converting # <<>> => sessions = {} /\ ls = {}
      <3>1. converting \in Seq(1..taps) /\ Len(converting) <= 1
        BY <1>2, TypesAre DEF InvAlone, Inv, IdsTyped, Alone, OneAtATime
      <3>2. ASSUME converting # <<>>
            PROVE  Len(converting) = 1
        <4>1. Len(converting) \in Nat \ {0}
          BY <3>1, <3>2, EmptySeq
        <4> QED
          BY <3>1, <4>1
      <3>3. converting # <<>> => sessions = {} /\ ls = {}
        BY <1>2, <2>2 DEF InvAlone, Alone, OneAtATime
      <3> QED
        BY <3>2, <3>3
    <2>4. ls = {} \/ (sessions = {} /\ \E l : ls = {l})
      <3>1. \A l, k \in ls : l = k /\ sessions = {}
        BY <1>2, <2>2 DEF InvAlone, Alone, OneAtATime
      <3> HIDE DEF ls
      <3> QED
        BY <3>1
    <2>5. /\ sessions = {} => ss = {} /\ us = {}
          /\ \/ ss = {} /\ us = {}
             \/ ss = {} /\ \E s : us = {s}
             \/ us = {} /\ \E s : ss = {s}
      <3>1. \A s, t \in sessions : s = t
        BY <1>2 DEF InvAlone, Alone, OneAtATime
      <3>2. sessions = {} \/ \E s : sessions = {s}
        <4>1. ASSUME NEW s \in sessions
              PROVE  sessions = {s}
          BY <3>1
        <4> QED
          BY <4>1
      <3> QED
        BY <3>2 DEF Ups
    <2> HIDE DEF ls, ss, us
    <2>6. \A S : S = {} => Cardinality(S) = 0
      BY FS_EmptySet
    <2>7. \A x : Cardinality({x}) = 1
      BY FS_Singleton
    <2>8. converting = <<>> => Len(converting) = 0
      OBVIOUS
    <2>9. CASE converting # <<>>
      <3>1. Len(converting) = 1 /\ ls = {} /\ ss = {} /\ us = {}
        BY <2>3, <2>5, <2>9
      <3>2. Cardinality(ls) = 0 /\ Cardinality(ss) = 0 /\ Cardinality(us) = 0
        BY <2>6, <3>1
      <3> QED
        BY <2>1, <3>1, <3>2 DEF OneStart
    <2>10. CASE converting = <<>> /\ ls # {}
      <3>1. ss = {} /\ us = {} /\ \E l : ls = {l}
        BY <2>4, <2>5, <2>10
      <3>2. Cardinality(ls) = 1 /\ Cardinality(ss) = 0 /\ Cardinality(us) = 0
        BY <2>6, <2>7, <3>1
      <3> QED
        BY <2>1, <2>8, <2>10, <3>2 DEF OneStart
    <2>11. CASE converting = <<>> /\ ls = {}
      <3>1. \/ Cardinality(ss) = 0 /\ Cardinality(us) = 0
            \/ Cardinality(ss) = 0 /\ Cardinality(us) = 1
            \/ Cardinality(ss) = 1 /\ Cardinality(us) = 0
        BY <2>5, <2>6, <2>7
      <3>2. Cardinality(ls) = 0
        BY <2>6, <2>11
      <3> QED
        BY <2>1, <2>8, <2>11, <3>1, <3>2 DEF OneStart
    <2> QED
      BY <2>9, <2>10, <2>11
  <1> QED
    BY <1>1, <1>2, PTL

\* Under the same condition the cover that keeps touches away is there only for a panel,
\* with its button that ends the VPN: hideClickPreventingLayout(), which does nothing
\* while a VPN is active, is never called too early for good.
THEOREM CoverIsExplained ==
    ~Quick => (Spec => []CoverIsForPanel)
  <1> SUFFICES ASSUME ~Quick
               PROVE  Spec => []CoverIsForPanel
    OBVIOUS
  <1>1. Spec => []InvAlone
    BY InvAloneHolds
  <1>2. InvAlone => CoverIsForPanel
    BY DEF InvAlone, CoverIsUp, CoverIsForPanel
  <1> QED
    BY <1>1, <1>2, PTL
=============================================================================
