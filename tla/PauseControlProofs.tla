-------------------------- MODULE PauseControlProofs --------------------------
(***************************************************************************)
(* Proofs about PauseControl and HoldHistory, for every set of networks,    *)
(* every preference and every number of events.                             *)
(***************************************************************************)
EXTENDS HoldHistory, SequenceTheorems, TLAPS

-----------------------------------------------------------------------------
(* Queues                                                                   *)

\* Putting an element behind a queue keeps what is in it, and is in it.
LEMMA InAppend ==
    ASSUME NEW S, NEW q \in Seq(S), NEW e \in S, NEW x, In(x, q) \/ x = e
    PROVE  In(x, Append(q, e))
  BY DEF In

\* Serving a queue loses nothing but its head.
LEMMA InTail ==
    ASSUME NEW S, NEW q \in Seq(S), q # <<>>, NEW x, In(x, q), Head(q) # x
    PROVE  In(x, Tail(q))
  <1>1. PICK i \in 1..Len(q) : q[i] = x
    BY DEF In
  <1>2. i # 1
    BY <1>1
  <1>3. i - 1 \in 1..Len(Tail(q)) /\ Tail(q)[i - 1] = q[i]
    BY <1>2
  <1> QED
    BY <1>1, <1>3 DEF In

\* The lines a restarted process sends are lines, and announce its hold.
LEMMA RestartLines ==
    ASSUME NEW q \in Seq(Lines)
    PROVE  /\ q \o <<"RECONNECTING", "HOLD">> \in Seq(Lines)
           /\ In("HOLD", q \o <<"RECONNECTING", "HOLD">>)
  <1> DEFINE r == <<"RECONNECTING", "HOLD">>
  <1>1. r \in Seq(Lines)
    BY DEF Lines, StateLines
  <1>2. Len(q \o r) = Len(q) + 2 /\ (q \o r)[Len(q) + 2] = r[2]
    BY <1>1
  <1> QED
    BY <1>1, <1>2 DEF In

-----------------------------------------------------------------------------
(* Types                                                                    *)

USE DEF SHOULD, PENDING, DISC, ConnectState

LEMMA InitType == Init => TypeOK
  <1> SUFFICES ASSUME Init PROVE TypeOK
    OBVIOUS
  <1>1. inbox \in Seq(Events)
    BY DEF Init, Events
  <1>2. toMgmt \in Seq(Lines)
    BY DEF Init, Lines
  <1>3. toProc \in Seq(Commands)
    BY DEF Init
  <1>4. lastNet \in Networks \cup {NoNet} /\ curNet \in Networks \cup {NoNet, HalfUp}
    BY DEF Init
  <1>5. disconnectTimers \in Nat /\ resumeTimers \in Nat /\ spent \in 0..MaxEvents
    BY ConstantsAssumption DEF Init
  <1> QED
    BY <1>1, <1>2, <1>3, <1>4, <1>5
       DEF Init, TypeOK, PauseReason, MainAt, MainOp, MgmtAt

LEMMA ReasonType ==
    ASSUME NEW n, NEW s, NEW u
    PROVE  GetPauseReason(n, s, u) \in PauseReason
  BY DEF GetPauseReason, PauseReason

LEMMA MainHandlerType == TypeOK /\ MainHandler => TypeOK'
  <1> SUFFICES ASSUME TypeOK, MainHandler PROVE TypeOK'
    OBVIOUS
  <1>1. ASSUME NetworkStateChange
        PROVE  /\ {network', screen'} \subseteq ConnectState /\ lastNet' \in Networks \cup {NoNet}
               /\ disconnectTimers' \in Nat /\ mainAt' \in MainAt /\ mainOp' \in MainOp
    BY <1>1 DEF TypeOK, NetworkStateChange, NetworkConnected, NetworkLost, NetworkComingUp,
                Begin, StayIdle, MainAt, MainOp, Connected
  <1>2. CASE RegisterReceiver
    BY <1>1, <1>2 DEF TypeOK, RegisterReceiver, Take, device, process
  <1>3. CASE ConnectivityAction
    BY <1>1, <1>3 DEF TypeOK, ConnectivityAction, Take, device, process
  <1>4. CASE ScreenOff
    BY <1>4 DEF TypeOK, ScreenOff, Take, StayIdle, device, process
  <1>5. CASE ScreenOn
    BY <1>5 DEF TypeOK, ScreenOn, Take, MainAt, MainOp, device, process
  <1>6. ASSUME NEW pause \in BOOLEAN, UserPause(pause) PROVE TypeOK'
    BY <1>6, ReasonType DEF TypeOK, UserPause, UserPauseState, UserPauseCall, Take, Begin,
                MainAt, MainOp, device, process
  <1> QED
    BY <1>2, <1>3, <1>4, <1>5, <1>6 DEF MainHandler

LEMMA TimerType == TypeOK /\ (DelayDisconnect \/ ResumeHold) => TypeOK'
  <1> SUFFICES ASSUME TypeOK, DelayDisconnect \/ ResumeHold PROVE TypeOK'
    OBVIOUS
  <1>1. CASE DelayDisconnect
    BY <1>1, ReasonType DEF TypeOK, DelayDisconnect, DelayDisconnectIsDue, Begin, StayIdle,
                MainAt, MainOp, device, process
  <1>2. CASE ResumeHold
    BY <1>2 DEF TypeOK, ResumeHold, ResumeHoldRun, StayIdle, MainAt, MainOp, receiver, device,
                process
  <1> QED
    BY <1>1, <1>2

LEMMA PauseStateType == ASSUME NEW r \in PauseReason PROVE PauseState(r) \in PausedStates
  BY DEF PauseState, PauseReason, PausedStates

LEMMA MainCallType == TypeOK /\ MainCall => TypeOK'
  <1> SUFFICES ASSUME TypeOK, MainCall PROVE TypeOK'
    OBVIOUS
  <1> USE DEF receiver, device, process, Finish, MainAt, MainOp
  <1>1. CASE MainPause
    BY <1>1 DEF TypeOK, MainPause
  <1>2. CASE MainUsr1
    BY <1>2 DEF TypeOK, MainUsr1, Commands
  <1>3. CASE MainShow
    BY <1>3, PauseStateType DEF TypeOK, MainShow
  <1>4. CASE MainResume
    BY <1>4 DEF TypeOK, MainResume, PauseReason
  <1>5. CASE MainNetworkChange
    BY <1>5 DEF TypeOK, MainNetworkChange, Commands
  <1>6. CASE ReleaseCancelsTimer
    BY <1>6 DEF TypeOK, ReleaseCancelsTimer
  <1>7. CASE ReleaseClearsWaiting
    BY <1>7 DEF TypeOK, ReleaseClearsWaiting
  <1>8. CASE ReleaseSends
    BY <1>8 DEF TypeOK, ReleaseSends, Commands, PauseReason
  <1>9. CASE ScreenOnDecides
    BY <1>9, ReasonType DEF TypeOK, ScreenOnDecides, ScreenOnCall, Begin
  <1> QED
    BY <1>1, <1>2, <1>3, <1>4, <1>5, <1>6, <1>7, <1>8, <1>9 DEF MainCall

LEMMA MgmtThreadType == TypeOK /\ MgmtThread => TypeOK'
  <1> SUFFICES ASSUME TypeOK, MgmtThread PROVE TypeOK'
    OBVIOUS
  <1> USE DEF receiver, device, process, MgmtAt
  <1>1. CASE ReadState
    BY <1>1 DEF TypeOK, ReadState, Read
  <1>2. CASE ReadHold
    BY <1>2 DEF TypeOK, ReadHold, Read, HoldNoted
  <1>3. CASE HoldTest
    BY <1>3 DEF TypeOK, HoldTest, HoldKept
  <1>4. CASE HoldPost
    BY <1>4 DEF TypeOK, HoldPost
  <1>5. CASE MgmtShow
    BY <1>5, PauseStateType DEF TypeOK, MgmtShow
  <1>6. CASE ReadByteCount
    BY <1>6 DEF TypeOK, ReadByteCount, Read
  <1>7. CASE LowTraffic
    BY <1>7 DEF TypeOK, LowTraffic
  <1>8. CASE MgmtPause
    BY <1>8 DEF TypeOK, MgmtPause
  <1>9. CASE MgmtUsr1
    BY <1>9 DEF TypeOK, MgmtUsr1, Commands
  <1>10. CASE MgmtReason
    BY <1>10, ReasonType DEF TypeOK, MgmtReason
  <1> QED
    BY <1>1, <1>2, <1>3, <1>4, <1>5, <1>6, <1>7, <1>8, <1>9, <1>10 DEF MgmtThread

LEMMA ProcessType == TypeOK /\ (ProcCommand \/ ProcConnect \/ ProcByteCount) => TypeOK'
  <1> SUFFICES ASSUME TypeOK, ProcCommand \/ ProcConnect \/ ProcByteCount PROVE TypeOK'
    OBVIOUS
  <1> USE DEF app, receiver, device, process
  <1>1. CASE ProcCommand
    <2>1. Tail(toProc) \in Seq(Commands)
      BY <1>1 DEF TypeOK, ProcCommand
    <2>2. proc' \in {"hold", "connecting", "connected"} /\ toMgmt' \in Seq(Lines)
      <3>1. CASE Restart
        BY <3>1, RestartLines DEF TypeOK, Restart
      <3>2. CASE proc' = "connecting" /\ toMgmt' = Append(toMgmt, "CONNECTING")
        BY <3>2 DEF TypeOK, Lines, StateLines
      <3>3. CASE UNCHANGED process
        BY <3>3 DEF TypeOK
      <3> QED
        BY <1>1, <3>1, <3>2, <3>3 DEF ProcCommand
    <2> QED
      BY <1>1, <2>1, <2>2 DEF TypeOK, ProcCommand
  <1>2. CASE ProcConnect
    BY <1>2 DEF TypeOK, ProcConnect, Lines, StateLines
  <1>3. CASE ProcByteCount
    <2>1. toMgmt' \in Seq(Lines)
      BY <1>3 DEF ProcByteCount, Lines
    <2> QED
      BY <1>3, <2>1 DEF TypeOK, ProcByteCount
  <1> QED
    BY <1>1, <1>2, <1>3

LEMMA EnvironmentType == TypeOK /\ Environment => TypeOK'
  <1> SUFFICES ASSUME TypeOK, Environment PROVE TypeOK'
    OBVIOUS
  <1> USE DEF receiver, process, Happens
  <1>1. ASSUME spent < MaxEvents, spent' = spent + 1 PROVE spent' \in 0..MaxEvents
    BY <1>1, ConstantsAssumption DEF TypeOK
  <1>2. CASE ProcDrop
    BY <1>1, <1>2, RestartLines DEF TypeOK, ProcDrop, Restart, app
  <1>3. CASE NetworkMoves
    BY <1>1, <1>3 DEF TypeOK, NetworkMoves, Broadcast, Events, afterInbox
  <1>4. CASE ScreenSwitches
    BY <1>1, <1>4 DEF TypeOK, ScreenSwitches, Broadcast, Events, afterInbox
  <1>5. CASE Tap
    BY <1>1, <1>5 DEF TypeOK, Tap, Events, afterInbox
  <1> QED
    BY <1>2, <1>3, <1>4, <1>5 DEF Environment

LEMMA StutterType == TypeOK /\ UNCHANGED vars => TypeOK'
  BY DEF TypeOK, vars, receiver, device, process

LEMMA NextType == TypeOK /\ [Next]_vars => TypeOK'
  BY MainHandlerType, TimerType, MainCallType, MgmtThreadType, ProcessType, EnvironmentType,
     StutterType DEF Next

\* Every variable of the pause control keeps its type: no handler, call, line or
\* timer ever leaves a connectState, a pause reason or a queue outside its type.
THEOREM TypeCorrect == Spec => []TypeOK
  BY InitType, NextType, PTL DEF Spec

-----------------------------------------------------------------------------
(* The handshake of the hold                                                *)

\* What does not touch the handshake, nor end a release, keeps the hold known.
LEMMA HoldFrame ==
    ASSUME HoldIsKnown, UNCHANGED <<proc, waiting, toMgmt, toProc>>,
           mainAt' = mainAt \/ mainAt # "rel3"
    PROVE  HoldIsKnown'
  BY DEF HoldIsKnown, In

\* A command sent, and lines received that are not the hold, keep it known.
LEMMA HoldSend ==
    ASSUME TypeOK, HoldIsKnown, NEW c \in Commands, toProc' = Append(toProc, c),
           UNCHANGED <<proc, waiting, toMgmt>>, mainAt # "rel3" \/ c = "release"
    PROVE  HoldIsKnown'
  <1>1. In("release", toProc) \/ c = "release" => In("release", toProc')
    BY InAppend DEF TypeOK, Commands
  <1> QED
    BY <1>1 DEF HoldIsKnown, In

LEMMA HoldRead ==
    ASSUME TypeOK, HoldIsKnown, NEW line \in Lines, Read(line), line # "HOLD",
           UNCHANGED <<proc, waiting, toProc, mainAt>>
    PROVE  HoldIsKnown'
  <1>1. In("HOLD", toMgmt) => In("HOLD", toMgmt')
    BY InTail DEF TypeOK, Read
  <1> QED
    BY <1>1 DEF HoldIsKnown, In

LEMMA HoldStep == TypeOK /\ HoldIsKnown /\ [Next]_vars => HoldIsKnown'
  <1> SUFFICES ASSUME TypeOK, HoldIsKnown, [Next]_vars PROVE HoldIsKnown'
    OBVIOUS
  <1> USE DEF device, process
  <1>1. CASE MainHandler \/ DelayDisconnect \/ ResumeHold
    <2>1. UNCHANGED <<proc, waiting, toMgmt, toProc>> /\ mainAt = "idle"
      BY <1>1 DEF MainHandler, DelayDisconnect, ResumeHold, RegisterReceiver, ConnectivityAction,
                  ScreenOff, ScreenOn, UserPause, Take, receiver
    <2> QED
      BY <2>1, HoldFrame
  <1>2. CASE ScreenOnDecides \/ MainPause \/ MainShow \/ MainResume \/ ReleaseCancelsTimer
    BY <1>2, HoldFrame DEF ScreenOnDecides, MainPause, MainShow, MainResume, ReleaseCancelsTimer
  <1>3. CASE MainUsr1
    BY <1>3, HoldSend DEF MainUsr1, Commands
  <1>4. CASE MainNetworkChange
    <2>1. CASE waiting
      BY <1>4, <2>1, HoldFrame DEF MainNetworkChange
    <2>2. CASE ~waiting
      BY <1>4, <2>2, HoldSend DEF MainNetworkChange, Commands
    <2> QED
      BY <2>1, <2>2
  <1>5. CASE ReleaseClearsWaiting
    BY <1>5 DEF ReleaseClearsWaiting, HoldIsKnown
  <1>6. CASE ReleaseSends
    BY <1>6, HoldSend DEF ReleaseSends, Commands
  <1>7. CASE ReadState
    BY <1>7, HoldRead DEF ReadState, StateLines, Lines
  <1>8. CASE ReadHold
    BY <1>8 DEF ReadHold, HoldNoted, HoldIsKnown
  <1>9. CASE ReadByteCount
    BY <1>9, HoldRead DEF ReadByteCount, Lines
  <1>10. CASE HoldTest \/ HoldPost \/ MgmtShow \/ LowTraffic \/ MgmtReason \/ MgmtPause
    BY <1>10, HoldFrame DEF HoldTest, HoldPost, MgmtShow, LowTraffic, MgmtReason, MgmtPause
  <1>11. CASE MgmtUsr1
    <2>1. In("release", toProc) => In("release", toProc')
      BY <1>11, InAppend DEF MgmtUsr1, TypeOK, Commands
    <2> QED
      BY <1>11, <2>1 DEF MgmtUsr1, HoldIsKnown, In
  <1>12. CASE ProcCommand
    <2>1. CASE Restart
      BY <2>1, RestartLines DEF Restart, TypeOK, HoldIsKnown
    <2>2. CASE proc' # "hold"
      BY <2>2 DEF HoldIsKnown
    <2>3. CASE Head(toProc) # "release" /\ UNCHANGED process
      <3>1. In("release", toProc) => In("release", toProc')
        BY <1>12, <2>3, InTail DEF ProcCommand, TypeOK
      <3> QED
        BY <1>12, <2>3, <3>1 DEF ProcCommand, app, HoldIsKnown, In
    <2> QED
      BY <1>12, <2>1, <2>2, <2>3 DEF ProcCommand
  <1>13. CASE ProcConnect \/ ProcByteCount
    BY <1>13 DEF ProcConnect, ProcByteCount, HoldIsKnown
  <1>14. CASE ProcDrop
    BY <1>14, RestartLines DEF ProcDrop, Restart, TypeOK, HoldIsKnown
  <1>15. CASE NetworkMoves \/ ScreenSwitches \/ Tap
    BY <1>15, HoldFrame DEF NetworkMoves, ScreenSwitches, Tap, afterInbox
  <1>16. CASE UNCHANGED vars
    BY <1>16, HoldFrame DEF vars
  <1> QED
    BY <1>1, <1>2, <1>3, <1>4, <1>5, <1>6, <1>7, <1>8, <1>9, <1>10, <1>11, <1>12, <1>13, <1>14,
       <1>15, <1>16 DEF Next, MainCall, MgmtThread, Environment

LEMMA InitHold == Init => HoldIsKnown
  BY DEF Init, HoldIsKnown, In

\* The app never loses a hold: whenever the openvpn process waits in its hold,
\* handleHold() is yet to run, or has set mWaitingForRelease, or a release is
\* on its way.
THEOREM HoldKnown == Spec => []HoldIsKnown
  BY TypeCorrect, InitHold, HoldStep, PTL DEF Spec

-----------------------------------------------------------------------------
(* The timer of the hold, with one tap on the notification at a time        *)

\* A tap that is still queued is the only one; a Resume finds a VPN paused by
\* the user.
OneTap(q) ==
    \A i, j \in 1..Len(q) : {q[i], q[j]} \subseteq {"pause", "resume"} => i = j

TapInv ==
    /\ In("resume", inbox) => userpause = DISC
    /\ OneTap(inbox)

\* The main looper is in a call that will release a hold.
Releasing ==
    \/ mainAt \in {"rel1", "rel2"}
    \/ mainAt = "call" /\ mainOp \in {"resume", "networkChange"}
    \/ mainAt = "screen" /\ mainOp = "paused"

\* Between the two threads somebody is always about to post the timer or to
\* release; a pause is called only with a reason to pause.
ArmedInv ==
    /\ waiting /\ ShouldBeConnected /\ resumeTimers = 0
          => mgmtAt \in {"hold", "post"} \/ Releasing
    /\ waiting /\ ShouldBeConnected /\ mgmtAt \in {"low", "reason"} \cup PauseReason
          => Releasing
    /\ mainAt = "call" /\ mainOp \in PauseReason => ~ShouldBeConnected

\* Without "netchangereconnect" the network never waits for its grace period,
\* and whoever is about to resume found no pause by the user.
ResumeInv ==
    /\ network # PENDING
    /\ mainAt = "call" /\ mainOp \in {"resume", "networkChange"} => userpause = SHOULD
    /\ mainAt = "screen" /\ mainOp = "connected" => userpause = SHOULD

\* Serving a queue of events, or putting one behind it.
LEMMA TapTail ==
    ASSUME NEW q \in Seq(Events), q # <<>>, OneTap(q)
    PROVE  /\ OneTap(Tail(q))
           /\ \A e : In(e, Tail(q)) => In(e, q)
           /\ Head(q) \in {"pause", "resume"} => ~In("pause", Tail(q)) /\ ~In("resume", Tail(q))
  <1>1. /\ Len(Tail(q)) = Len(q) - 1 /\ 1 \in 1..Len(q) /\ Head(q) = q[1]
        /\ \A i \in 1..Len(Tail(q)) : i + 1 \in 1..Len(q) /\ i + 1 # 1 /\ Tail(q)[i] = q[i + 1]
    OBVIOUS
  <1>2. OneTap(Tail(q))
    <2> SUFFICES ASSUME NEW i \in 1..Len(Tail(q)), NEW j \in 1..Len(Tail(q)),
                        {Tail(q)[i], Tail(q)[j]} \subseteq {"pause", "resume"}
                 PROVE  i = j
      BY DEF OneTap
    <2>1. i + 1 = j + 1
      BY <1>1 DEF OneTap
    <2> QED
      BY <2>1
  <1>3. \A e : In(e, Tail(q)) => In(e, q)
    BY <1>1 DEF In
  <1>4. ASSUME Head(q) \in {"pause", "resume"}, NEW i \in 1..Len(Tail(q))
        PROVE  Tail(q)[i] \notin {"pause", "resume"}
    BY <1>1, <1>4 DEF OneTap
  <1> QED
    BY <1>2, <1>3, <1>4 DEF In

LEMMA TapAppend ==
    ASSUME NEW q \in Seq(Events), OneTap(q), NEW e \in Events,
           e \in {"pause", "resume"} => ~In("pause", q) /\ ~In("resume", q)
    PROVE  OneTap(Append(q, e)) /\ \A x : In(x, Append(q, e)) => In(x, q) \/ x = e
  <1>1. /\ Len(Append(q, e)) = Len(q) + 1 /\ Append(q, e)[Len(q) + 1] = e
        /\ \A i \in 1..Len(q) + 1 : i \in 1..Len(q) \/ i = Len(q) + 1
        /\ \A i \in 1..Len(q) : Append(q, e)[i] = q[i]
    OBVIOUS
  <1> QED
    BY <1>1 DEF OneTap, In

LEMMA TapStep ==
    ASSUME ~DoubleTap, TypeOK, TapInv, [Next]_vars
    PROVE  TapInv'
  <1> USE DEF receiver, device, process
  <1>1. CASE UNCHANGED <<inbox, userpause>>
    BY <1>1 DEF TapInv, OneTap, In
  <1>2. CASE RegisterReceiver \/ ConnectivityAction \/ ScreenOff \/ ScreenOn
    <2>1. inbox # <<>> /\ inbox' = Tail(inbox) /\ userpause' = userpause
      BY <1>2 DEF RegisterReceiver, ConnectivityAction, ScreenOff, ScreenOn, Take
    <2> QED
      BY <2>1, TapTail DEF TapInv, TypeOK
  <1>3. ASSUME NEW pause \in BOOLEAN, UserPause(pause) PROVE TapInv'
    <2>1. inbox # <<>> /\ inbox' = Tail(inbox) /\ Head(inbox) \in {"pause", "resume"}
      BY <1>3 DEF UserPause, Take
    <2> QED
      BY <2>1, TapTail DEF TapInv, TypeOK
  <1>4. CASE NetworkMoves \/ ScreenSwitches
    <2>1. userpause' = userpause /\ \E e \in {"conn", "on", "off"} : Broadcast(e)
      BY <1>4 DEF NetworkMoves, ScreenSwitches, afterInbox
    <2>2. PICK e \in {"conn", "on", "off"} : Broadcast(e)
      BY <2>1
    <2>3. CASE inbox' = Append(inbox, e)
      BY <2>1, <2>3, TapAppend DEF TapInv, TypeOK, Events
    <2> QED
      BY <1>1, <2>1, <2>2, <2>3 DEF Broadcast
  <1>5. CASE Tap
    <2>1. ~In("pause", inbox) /\ ~In("resume", inbox) /\ userpause' = userpause
      BY <1>5 DEF Tap, afterInbox
    <2>2. inbox' = Append(inbox, IF userpause = DISC THEN "resume" ELSE "pause")
      BY <1>5 DEF Tap
    <2> QED
      BY <2>1, <2>2, TapAppend DEF TapInv, TypeOK, Events
  <1>6. CASE DelayDisconnect \/ ResumeHold
    BY <1>1, <1>6 DEF DelayDisconnect, ResumeHold
  <1>7. CASE MainCall
    BY <1>1, <1>7 DEF MainCall, ScreenOnDecides, MainPause, MainUsr1, MainShow, MainResume, MainNetworkChange,
                      ReleaseCancelsTimer, ReleaseClearsWaiting, ReleaseSends
  <1>8. CASE MgmtThread
    BY <1>1, <1>8 DEF MgmtThread, ReadState, ReadHold, HoldTest, HoldPost, MgmtShow,
                      ReadByteCount, LowTraffic, MgmtReason, MgmtPause, MgmtUsr1
  <1>9. CASE ProcCommand \/ ProcConnect \/ ProcByteCount \/ ProcDrop
    BY <1>1, <1>9 DEF ProcCommand, ProcConnect, ProcByteCount, ProcDrop, app
  <1>10. CASE UNCHANGED vars
    BY <1>1, <1>10 DEF vars
  <1> QED
    BY <1>2, <1>3, <1>4, <1>5, <1>6, <1>7, <1>8, <1>9, <1>10 DEF Next, MainHandler, Environment

LEMMA ArmedStep ==
    ASSUME TypeOK, TapInv, ArmedInv, [Next]_vars
    PROVE  ArmedInv'
  <1> USE DEF receiver, device, process, ArmedInv, Releasing, ShouldBeConnected, Connected, Begin,
              Finish, StayIdle, PauseReason
  <1>1. CASE RegisterReceiver \/ ConnectivityAction
    <2>1. NetworkStateChange /\ mainAt = "idle"
          /\ UNCHANGED <<userpause, waiting, resumeTimers, mgmtAt>>
      BY <1>1 DEF RegisterReceiver, ConnectivityAction, Take
    <2>2. CASE NetworkConnected
      BY <2>1, <2>2 DEF NetworkConnected
    <2>3. CASE NetworkLost \/ NetworkComingUp
      BY <2>1, <2>3 DEF NetworkLost, NetworkComingUp
    <2> QED
      BY <2>1, <2>2, <2>3 DEF NetworkStateChange
  <1>2. CASE ScreenOff
    BY <1>2 DEF ScreenOff, Take
  <1>3. CASE ScreenOn
    BY <1>3 DEF ScreenOn, Take
  <1>3a. CASE ScreenOnDecides
    BY <1>3a DEF ScreenOnDecides, ScreenOnCall
  <1>4. ASSUME NEW pause \in BOOLEAN, UserPause(pause) PROVE ArmedInv'
    <2>1. ~pause => userpause = DISC
      <3>1. ~pause => In("resume", inbox)
        BY <1>4 DEF UserPause, Take, TypeOK, In
      <3> QED
        BY <3>1 DEF TapInv
    <2> QED
      BY <1>4, <2>1 DEF UserPause, UserPauseState, UserPauseCall, Take
  <1>5. CASE DelayDisconnect
    BY <1>5 DEF DelayDisconnect, DelayDisconnectIsDue
  <1>6. CASE ResumeHold
    BY <1>6 DEF ResumeHold, ResumeHoldRun
  <1>7. CASE MainPause \/ MainUsr1 \/ MainShow
    BY <1>7 DEF MainPause, MainUsr1, MainShow
  <1>8. CASE MainResume \/ MainNetworkChange
    BY <1>8 DEF MainResume, MainNetworkChange
  <1>9. CASE ReleaseCancelsTimer \/ ReleaseClearsWaiting \/ ReleaseSends
    BY <1>9 DEF ReleaseCancelsTimer, ReleaseClearsWaiting, ReleaseSends
  <1>10. CASE ReadState \/ ReadHold \/ ReadByteCount
    BY <1>10 DEF ReadState, ReadHold, ReadByteCount, Read
  <1>11. CASE HoldTest
    BY <1>11 DEF HoldTest, HoldKept
  <1>12. CASE HoldPost
    BY <1>12 DEF HoldPost, TypeOK
  <1>13. CASE MgmtShow \/ LowTraffic \/ MgmtReason \/ MgmtPause \/ MgmtUsr1
    BY <1>13, ReasonType DEF MgmtShow, LowTraffic, MgmtReason, MgmtPause, MgmtUsr1
  <1>14. CASE ProcCommand \/ ProcConnect \/ ProcByteCount \/ ProcDrop
    BY <1>14 DEF ProcCommand, ProcConnect, ProcByteCount, ProcDrop, app
  <1>15. CASE NetworkMoves \/ ScreenSwitches \/ Tap
    BY <1>15 DEF NetworkMoves, ScreenSwitches, Tap, afterInbox
  <1>16. CASE UNCHANGED vars
    BY <1>16 DEF vars
  <1> QED
    BY <1>1, <1>2, <1>3, <1>4, <1>5, <1>6, <1>7, <1>8, <1>9, <1>10, <1>11, <1>12, <1>13, <1>14,
       <1>15, <1>16, <1>3a DEF Next, MainHandler, MainCall, MgmtThread, Environment

LEMMA InitArmed == Init => TapInv /\ ArmedInv
  BY DEF Init, TapInv, OneTap, In, ArmedInv, ShouldBeConnected, Connected

LEMMA ArmedAlways ==
    ASSUME ~DoubleTap
    PROVE  Spec => [](TapInv /\ ArmedInv)
  <1>1. TypeOK /\ (TapInv /\ ArmedInv) /\ [Next]_vars => (TapInv /\ ArmedInv)'
    BY TapStep, ArmedStep
  <1> QED
    BY <1>1, TypeCorrect, InitArmed, PTL DEF Spec

\* No lost wake-up between handleHold() on one thread and pause(), resume() and
\* mResumeHoldRunnable on the other: a hold that should be released has a timer.
THEOREM ReleaseArmed ==
    ASSUME ~DoubleTap
    PROVE  Spec => []ReleaseIsArmed
  <1>1. TypeOK /\ TapInv /\ ArmedInv => ReleaseIsArmed
    BY DEF TypeOK, ArmedInv, Releasing, ReleaseIsArmed
  <1> QED
    BY <1>1, TypeCorrect, ArmedAlways, PTL

\* Once the threads, the timers and the socket are at rest, a VPN that nothing
\* speaks against is not left in the hold.
THEOREM NeverHeldWhenWanted ==
    ASSUME ~DoubleTap
    PROVE  Spec => []NotHeldWhenWanted
  <1>1. HoldIsKnown /\ ReleaseIsArmed => NotHeldWhenWanted
    BY DEF HoldIsKnown, ReleaseIsArmed, NotHeldWhenWanted, Settled, In
  <1> QED
    BY <1>1, HoldKnown, ReleaseArmed, PTL

-----------------------------------------------------------------------------
(* Releases and the pause by the user, without "netchangereconnect"         *)

LEMMA ResumeStep ==
    ASSUME ~NetChangePref, TypeOK, ResumeInv, [Next]_vars
    PROVE  ResumeInv' /\ (mainAt # "rel1" /\ mainAt' = "rel1" => userpause # DISC)
  <1> USE DEF receiver, device, process, ResumeInv, ShouldBeConnected, Connected, Begin, Finish,
              StayIdle, PauseReason
  <1>1. CASE RegisterReceiver \/ ConnectivityAction
    <2>1. NetworkStateChange /\ mainAt = "idle" /\ userpause' = userpause
      BY <1>1 DEF RegisterReceiver, ConnectivityAction, Take
    <2> QED
      BY <2>1 DEF NetworkStateChange, NetworkConnected, NetworkLost, NetworkComingUp, TypeOK
  <1>2. CASE ScreenOff \/ ScreenOn
    BY <1>2 DEF ScreenOff, ScreenOn, Take
  <1>3. ASSUME NEW pause \in BOOLEAN, UserPause(pause)
        PROVE  ResumeInv' /\ mainAt' # "rel1"
    BY <1>3 DEF UserPause, UserPauseState, UserPauseCall, GetPauseReason
  <1>4. CASE DelayDisconnect
    BY <1>4 DEF DelayDisconnect, DelayDisconnectIsDue
  <1>5. CASE ResumeHold
    BY <1>5 DEF ResumeHold, ResumeHoldRun
  <1>6. CASE MainCall
    <2>1. CASE ScreenOnDecides
      BY <2>1, ReasonType DEF ScreenOnDecides, ScreenOnCall
    <2> QED
      BY <1>6, <2>1 DEF MainCall, MainPause, MainUsr1, MainShow, MainResume, MainNetworkChange,
                ReleaseCancelsTimer, ReleaseClearsWaiting, ReleaseSends
  <1>7. CASE MgmtThread
    BY <1>7 DEF MgmtThread, ReadState, ReadHold, HoldTest, HoldPost, MgmtShow, ReadByteCount,
                LowTraffic, MgmtReason, MgmtPause, MgmtUsr1
  <1>8. CASE ProcCommand \/ ProcConnect \/ ProcByteCount \/ ProcDrop
    BY <1>8 DEF ProcCommand, ProcConnect, ProcByteCount, ProcDrop, app
  <1>9. CASE NetworkMoves \/ ScreenSwitches \/ Tap
    BY <1>9 DEF NetworkMoves, ScreenSwitches, Tap, afterInbox
  <1>10. CASE UNCHANGED vars
    BY <1>10 DEF vars
  <1> QED
    BY <1>1, <1>2, <1>3, <1>4, <1>5, <1>6, <1>7, <1>8, <1>9, <1>10
       DEF Next, MainHandler, Environment

\* Neither the timer of handleHold() nor a resume() or networkChange() call ever
\* releases a hold the user asked for, if the preference "netchangereconnect"
\* is off (if it is on, networkStateChange() does).
THEOREM UserPauseRespected ==
    ASSUME ~NetChangePref
    PROVE  Spec => NoReleaseWhilePausedByUser
  <1>1. Init => ResumeInv
    BY DEF Init, ResumeInv
  <1>2. TypeOK /\ ResumeInv /\ [Next]_vars => ResumeInv'
    BY ResumeStep
  <1>3. TypeOK /\ ResumeInv /\ [Next]_vars
          => [mainAt # "rel1" /\ mainAt' = "rel1" => userpause # DISC]_vars
    BY ResumeStep
  <1> QED
    BY <1>1, <1>2, <1>3, TypeCorrect, PTL DEF Spec, NoReleaseWhilePausedByUser

\* A release under way found no pause by the user, and a pause by the user that
\* does not wait for a release yet is on its way there: in the call of pause(),
\* as SIGUSR1 to the process, or as the hold the restarted process announced.
PauseInv ==
    /\ mainAt \in {"rel1", "rel2", "rel3"} => userpause = SHOULD
    /\ userpause = DISC /\ ~waiting
          => \/ mainAt = "call" /\ mainOp \in PauseReason
             \/ mainAt = "usr1"
             \/ In("usr1", toProc) \/ In("HOLD", toMgmt)

LEMMA PauseStep ==
    ASSUME ~NetChangePref, TypeOK, ResumeInv, PauseInv, [Next]_vars
    PROVE  PauseInv'
  <1> USE DEF receiver, device, process, Finish
  <1>1. CASE RegisterReceiver \/ ConnectivityAction \/ ScreenOff \/ ScreenOn
    <2>1. mainAt = "idle" /\ mainAt' \in {"idle", "call", "screen"}
          /\ UNCHANGED <<userpause, waiting, toProc, toMgmt>>
      BY <1>1 DEF RegisterReceiver, ConnectivityAction, ScreenOff, ScreenOn, Take,
                  NetworkStateChange, NetworkConnected, NetworkLost, NetworkComingUp, Begin, StayIdle
    <2> QED
      BY <2>1 DEF PauseInv, In
  <1>2. ASSUME NEW pause \in BOOLEAN, UserPause(pause) PROVE PauseInv'
    BY <1>2, ReasonType DEF UserPause, UserPauseState, UserPauseCall, Begin, PauseInv
  <1>3. CASE DelayDisconnect
    BY <1>3 DEF DelayDisconnect, DelayDisconnectIsDue, ResumeInv, StayIdle, PauseInv, In
  <1>4. CASE ResumeHold
    BY <1>4 DEF ResumeHold, ResumeHoldRun, ShouldBeConnected, Connected, StayIdle, PauseInv, In
  <1>4a. CASE ScreenOnDecides
    BY <1>4a DEF ScreenOnDecides, ScreenOnCall, Begin, PauseInv, In
  <1>5. CASE MainPause \/ MainShow \/ MainResume
    BY <1>5 DEF MainPause, MainShow, MainResume, ResumeInv, PauseInv, PauseReason, In
  <1>6. CASE MainNetworkChange
    BY <1>6 DEF MainNetworkChange, ResumeInv, PauseInv, PauseReason
  <1>7. CASE MainUsr1
    <2>1. In("usr1", toProc')
      BY <1>7, InAppend DEF MainUsr1, TypeOK, Commands
    <2> QED
      BY <1>7, <2>1 DEF MainUsr1, PauseInv, In
  <1>8. CASE ReleaseCancelsTimer \/ ReleaseClearsWaiting
    BY <1>8 DEF ReleaseCancelsTimer, ReleaseClearsWaiting, PauseInv
  <1>9. CASE ReleaseSends
    BY <1>9 DEF ReleaseSends, PauseInv
  <1>10. CASE ReadHold
    BY <1>10 DEF ReadHold, HoldNoted, PauseInv
  <1>11. CASE ReadState \/ ReadByteCount
    <2>1. In("HOLD", toMgmt) => In("HOLD", toMgmt')
      BY <1>11, InTail DEF ReadState, ReadByteCount, Read, TypeOK, StateLines
    <2> QED
      BY <1>11, <2>1 DEF ReadState, ReadByteCount, PauseInv, In
  <1>12. CASE HoldTest \/ HoldPost \/ MgmtShow \/ LowTraffic \/ MgmtReason \/ MgmtPause
    BY <1>12 DEF HoldTest, HoldPost, MgmtShow, LowTraffic, MgmtReason, MgmtPause, PauseInv, In
  <1>13. CASE MgmtUsr1
    <2>1. In("usr1", toProc')
      BY <1>13, InAppend DEF MgmtUsr1, TypeOK, Commands
    <2> QED
      BY <1>13, <2>1 DEF MgmtUsr1, PauseInv, In
  <1>14. CASE ProcCommand
    <2>1. CASE Restart
      BY <1>14, <2>1, RestartLines DEF ProcCommand, Restart, app, TypeOK, PauseInv
    <2>2. CASE Head(toProc) # "usr1"
      <3>1. In("usr1", toProc) => In("usr1", toProc')
        BY <1>14, <2>2, InTail DEF ProcCommand, TypeOK
      <3>2. In("HOLD", toMgmt) => In("HOLD", toMgmt')
        <4>1. toMgmt' = toMgmt \/ toMgmt' = Append(toMgmt, "CONNECTING")
          BY <1>14, <2>2 DEF ProcCommand
        <4>2. In("HOLD", toMgmt) => In("HOLD", Append(toMgmt, "CONNECTING"))
          BY InAppend DEF TypeOK, Lines, StateLines
        <4> QED
          BY <4>1, <4>2 DEF In
      <3> QED
        BY <1>14, <3>1, <3>2 DEF ProcCommand, app, PauseInv, In
    <2> QED
      BY <1>14, <2>1, <2>2 DEF ProcCommand
  <1>15. CASE ProcConnect
    <2>1. In("HOLD", toMgmt) => In("HOLD", toMgmt')
      BY <1>15, InAppend DEF ProcConnect, TypeOK, Lines, StateLines
    <2> QED
      BY <1>15, <2>1 DEF ProcConnect, app, PauseInv, In
  <1>16. CASE ProcByteCount
    BY <1>16 DEF ProcByteCount, app, PauseInv, In
  <1>17. CASE ProcDrop
    BY <1>17, RestartLines DEF ProcDrop, Restart, app, TypeOK, PauseInv
  <1>18. CASE NetworkMoves \/ ScreenSwitches \/ Tap
    BY <1>18 DEF NetworkMoves, ScreenSwitches, Tap, afterInbox, PauseInv, In
  <1>19. CASE UNCHANGED vars
    BY <1>19 DEF vars, PauseInv, In
  <1> QED
    BY <1>1, <1>2, <1>3, <1>4, <1>5, <1>6, <1>7, <1>8, <1>9, <1>10, <1>11, <1>12, <1>13, <1>14,
       <1>15, <1>16, <1>17, <1>18, <1>19, <1>4a
       DEF Next, MainHandler, MainCall, MgmtThread, Environment

\* A pause by the user is noted: at rest the app takes it that the process is held.
PauseIsNoted == Settled /\ userpause = DISC => waiting

LEMMA PauseNoted ==
    ASSUME ~NetChangePref
    PROVE  Spec => []PauseIsNoted
  <1>1. Init => ResumeInv /\ PauseInv
    BY DEF Init, ResumeInv, PauseInv
  <1>2. TypeOK /\ (ResumeInv /\ PauseInv) /\ [Next]_vars => (ResumeInv /\ PauseInv)'
    BY ResumeStep, PauseStep
  <1>3. PauseInv => PauseIsNoted
    BY DEF PauseInv, PauseIsNoted, Settled, In
  <1> QED
    BY <1>1, <1>2, <1>3, TypeCorrect, PTL DEF Spec

\* What the flag means, unless a late HOLD line set it: the process waits, and nothing is
\* on its way that will let it go.
FlagInv == waiting /\ ~late => ~HoldIsReleased

\* A step of the app that neither sets the flag nor ends a release keeps that.
LEMMA FlagFrame ==
    ASSUME TypeOK, FlagInv, RememberLate, waiting' = waiting, proc' = proc,
           ~ReadsHold, mainAt' = "rel3" => mainAt = "rel3",
           \/ toProc' = toProc
           \/ \E c \in Commands \ {"release"} : toProc' = Append(toProc, c)
    PROVE  FlagInv'
  <1>1. In("release", toProc') => In("release", toProc)
    <2>1. ASSUME NEW c \in Commands \ {"release"}, toProc' = Append(toProc, c),
                 In("release", toProc')
          PROVE  In("release", toProc)
      <3>1. PICK i \in 1..Len(toProc') : toProc'[i] = "release"
        BY <2>1 DEF In
      <3>2. i \in 1..Len(toProc) /\ toProc[i] = "release"
        BY <2>1, <3>1 DEF TypeOK
      <3> QED
        BY <3>2 DEF In
    <2> QED
      BY <2>1 DEF In
  <1> QED
    BY <1>1 DEF FlagInv, RememberLate, HoldIsReleased

LEMMA FlagStep == TypeOK /\ FlagInv /\ [Next /\ RememberLate]_histVars => FlagInv'
  <1> SUFFICES ASSUME TypeOK, FlagInv, [Next /\ RememberLate]_histVars PROVE FlagInv'
    OBVIOUS
  <1> USE DEF device, process, Finish
  <1>0. CASE UNCHANGED histVars
    BY <1>0 DEF histVars, vars, FlagInv, HoldIsReleased, In
  <1> SUFFICES ASSUME Next, RememberLate PROVE FlagInv'
    BY <1>0
  <1>1. CASE MainHandler \/ DelayDisconnect \/ ResumeHold
    <2>1. UNCHANGED <<proc, waiting, toProc, mgmtAt>> /\ mainAt' # "rel3"
      BY <1>1 DEF MainHandler, DelayDisconnect, ResumeHold, ResumeHoldRun, RegisterReceiver,
                  ConnectivityAction, NetworkStateChange, NetworkConnected, NetworkLost,
                  NetworkComingUp, ScreenOff, ScreenOn, UserPause, Take, Begin, StayIdle
    <2> QED
      BY <2>1, FlagFrame DEF ReadsHold
  <1>2. CASE ScreenOnDecides \/ MainPause \/ MainShow \/ MainResume \/ ReleaseCancelsTimer
    BY <1>2, FlagFrame DEF ScreenOnDecides, ScreenOnCall, Begin, MainPause, MainShow, MainResume,
                           ReleaseCancelsTimer, ReadsHold
  <1>3. CASE MainUsr1
    BY <1>3, FlagFrame DEF MainUsr1, Commands, ReadsHold
  <1>4. CASE MainNetworkChange
    BY <1>4, FlagFrame DEF MainNetworkChange, Commands, ReadsHold
  <1>5. CASE ReleaseClearsWaiting
    BY <1>5 DEF ReleaseClearsWaiting, FlagInv
  <1>6. CASE ReleaseSends
    BY <1>6 DEF ReleaseSends, ReadsHold, RememberLate, FlagInv, HoldIsReleased
  <1>7. CASE ReadState \/ ReadByteCount
    BY <1>7, FlagFrame DEF ReadState, ReadByteCount, ReadsHold
  <1>8. CASE ReadHold
    BY <1>8 DEF ReadHold, Read, ReadsHold, RememberLate, FlagInv, HoldIsReleased, In
  <1>9. CASE HoldTest \/ HoldPost \/ MgmtShow \/ LowTraffic \/ MgmtReason \/ MgmtPause
    BY <1>9, FlagFrame DEF HoldTest, HoldKept, HoldPost, MgmtShow, LowTraffic, MgmtReason, MgmtPause,
                           ReadsHold
  <1>10. CASE MgmtUsr1
    BY <1>10, FlagFrame DEF MgmtUsr1, Commands, ReadsHold
  <1>11. CASE ProcCommand
    <2> SUFFICES ASSUME waiting, ~late, ~HoldIsReleased PROVE ~HoldIsReleased'
      BY <1>11 DEF ProcCommand, app, ReadsHold, RememberLate, FlagInv
    <2>1. proc' = "hold"
      BY <1>11 DEF ProcCommand, Restart, HoldIsReleased, In, TypeOK
    <2>2. ~In("release", toProc')
      <3>1. \A i \in 1..Len(toProc') : i + 1 \in 1..Len(toProc) /\ toProc'[i] = toProc[i + 1]
        BY <1>11 DEF ProcCommand, TypeOK
      <3> QED
        BY <3>1 DEF HoldIsReleased, In
    <2> QED
      BY <1>11, <2>1, <2>2 DEF ProcCommand, app, HoldIsReleased
  <1>12. CASE ProcConnect \/ ProcDrop
    <2>1. proc # "hold" /\ waiting' = waiting /\ mgmtAt' = mgmtAt
      BY <1>12 DEF ProcConnect, ProcDrop, app
    <2> QED
      BY <2>1 DEF ReadsHold, RememberLate, FlagInv, HoldIsReleased
  <1>13. CASE ProcByteCount
    BY <1>13, FlagFrame DEF ProcByteCount, app, ReadsHold
  <1>14. CASE NetworkMoves \/ ScreenSwitches \/ Tap
    BY <1>14, FlagFrame DEF NetworkMoves, ScreenSwitches, Tap, afterInbox, ReadsHold
  <1> QED
    BY <1>1, <1>2, <1>3, <1>4, <1>5, <1>6, <1>7, <1>8, <1>9, <1>10, <1>11, <1>12, <1>13, <1>14
       DEF Next, MainCall, MgmtThread, Environment

\* A pause by the user keeps the process held, in whatever order its tap, the restart of
\* the process, the HOLD line and a release come, unless the flag that signalusr1() goes by
\* was set by a HOLD line read when its hold had been released; the preference
\* "netchangereconnect" is off.
THEOREM PauseKeepsHold ==
    ASSUME ~NetChangePref
    PROVE  HistSpec => []PauseHolds
  <1>1. HistSpec => Spec
    <2>1. Init /\ late = FALSE => Init
      OBVIOUS
    <2>2. [Next /\ RememberLate]_histVars => [Next]_vars
      BY DEF histVars
    <2> QED
      BY <2>1, <2>2, PTL DEF HistSpec, Spec
  <1>2. Init /\ late = FALSE => FlagInv
    BY DEF Init, FlagInv
  <1>3. PauseIsNoted /\ FlagInv => PauseHolds
    BY DEF PauseIsNoted, FlagInv, HoldIsReleased, PauseHolds
  <1> QED
    BY <1>1, <1>2, <1>3, FlagStep, PauseNoted, TypeCorrect, PTL DEF HistSpec

-----------------------------------------------------------------------------
(* The refinement of HoldProtocol, without "netchangereconnect"             *)

\* Between the two tests of shouldBeConnected() in ACTION_SCREEN_ON the looper
\* does nothing else: what it found stays, but for the screen.
WantInv == mainAt = "screen" /\ mainOp = "connected" => Wanted

\* A reason comes or goes, and a release may be decided when none is left.
LEMMA StepWants ==
    ASSUME proc' = proc, ReleaseIsDue => ReleaseIsDue',
           Wanted' \/ (ReleaseIsDue' => ReleaseIsDue)
    PROVE  Promise!Next
  <1>1. CASE Wanted'
    <2>1. Wanted' = TRUE /\ ReleaseIsDue' \in {ReleaseIsDue, TRUE}
      BY <1>1 DEF Wanted, ReleaseIsDue, In
    <2> QED
      BY <2>1, Zenon DEF Promise!Next, Promise!Want
  <1>2. CASE ~Wanted'
    <2>1. Wanted' = FALSE /\ ReleaseIsDue' = ReleaseIsDue
      BY <1>2 DEF Wanted, ReleaseIsDue, In
    <2> QED
      BY <2>1, Zenon DEF Promise!Next, Promise!Refuse
  <1> QED
    BY <1>1, <1>2

\* Nothing changes but that a release is decided, or given up.
LEMMA StepDecides ==
    ASSUME proc' = proc, UNCHANGED <<network, userpause>>,
           ReleaseIsDue' => ReleaseIsDue \/ Wanted
    PROVE  [Promise!Next]_(Promise!vars)
  <1>1. Wanted' = Wanted
    BY DEF Wanted
  <1>2. CASE ReleaseIsDue' = ReleaseIsDue
    BY <1>1, <1>2, Zenon DEF Promise!vars
  <1>3. CASE ReleaseIsDue /\ ~ReleaseIsDue'
    <2>1. ReleaseIsDue' = FALSE
      BY <1>3 DEF ReleaseIsDue, In
    <2> QED
      BY <1>1, <1>3, <2>1, Zenon DEF Promise!Next, Promise!GiveUp
  <1>4. CASE ~ReleaseIsDue /\ ReleaseIsDue'
    BY <1>1, <1>4, StepWants, Zenon
  <1>5. ~ReleaseIsDue' /\ ~ReleaseIsDue => ReleaseIsDue' = ReleaseIsDue
    BY DEF ReleaseIsDue, In
  <1>6. ReleaseIsDue' /\ ReleaseIsDue => ReleaseIsDue' = ReleaseIsDue
    BY DEF ReleaseIsDue, In
  <1> QED
    BY <1>2, <1>3, <1>4, <1>5, <1>6, Zenon

\* The process is in its hold, for the first time or still.
LEMMA StepHolds ==
    ASSUME proc' = "hold", UNCHANGED <<network, userpause>>,
           ReleaseIsDue' <=> ReleaseIsDue
    PROVE  [Promise!Next]_(Promise!vars)
  <1>1. Wanted' = Wanted /\ ReleaseIsDue' = ReleaseIsDue
    BY DEF Wanted, ReleaseIsDue, In
  <1>2. CASE proc = "hold"
    BY <1>1, <1>2, StepDecides
  <1>3. CASE proc # "hold"
    <2>1. (proc = "hold")' = TRUE /\ ~(proc = "hold")
      BY <1>3
    <2> QED
      BY <1>1, <2>1, Zenon DEF Promise!Next, Promise!Hold
  <1> QED
    BY <1>2, <1>3

\* The main looper's handlers: a call that releases begins only when wanted.
LEMMA HandlerRefines ==
    ASSUME ~NetChangePref, TypeOK, ResumeInv, MainHandler \/ DelayDisconnect \/ ResumeHold
    PROVE  Promise!Next /\ WantInv'
  <1> USE DEF Begin, StayIdle, Take, receiver, device, process
  <1>1. proc' = proc /\ toProc' = toProc /\ mainAt = "idle"
    BY DEF MainHandler, RegisterReceiver, ConnectivityAction, ScreenOff, ScreenOn, UserPause,
           DelayDisconnect, ResumeHold
  <1>2. ReleaseIsDue => ReleaseIsDue'
    BY <1>1 DEF ReleaseIsDue, In
  <1>3. /\ \/ Wanted'
           \/ mainAt' \in {"idle", "screen"}
           \/ mainAt' = "call" /\ mainOp' \in PauseReason
        /\ WantInv'
    <2>1. CASE RegisterReceiver \/ ConnectivityAction
      <3>1. NetworkStateChange /\ userpause' = userpause
        BY <2>1 DEF RegisterReceiver, ConnectivityAction
      <3> QED
        BY <1>1, <3>1 DEF NetworkStateChange, NetworkConnected, NetworkLost, NetworkComingUp,
                          ResumeInv, Connected, Wanted, WantInv
    <2>2. CASE ScreenOff \/ ScreenOn
      BY <2>2 DEF ScreenOff, ScreenOn, ShouldBeConnected, Connected, Wanted, WantInv
    <2>3. ASSUME NEW pause \in BOOLEAN, UserPause(pause)
          PROVE  Wanted' \/ mainOp' \in PauseReason
      BY <2>3, ReasonType DEF UserPause, UserPauseState, UserPauseCall, Connected, Wanted
    <2>4. ASSUME NEW pause \in BOOLEAN, UserPause(pause) PROVE mainAt' = "call"
      BY <2>4 DEF UserPause
    <2>5. CASE DelayDisconnect
      BY <2>5 DEF DelayDisconnect, DelayDisconnectIsDue, ResumeInv, WantInv
    <2>6. CASE ResumeHold
      BY <2>6 DEF ResumeHold, ResumeHoldRun, ShouldBeConnected, Connected, Wanted, WantInv
    <2> QED
      BY <2>1, <2>2, <2>3, <2>4, <2>5, <2>6 DEF MainHandler, WantInv
  <1>4. Wanted' \/ (ReleaseIsDue' => ReleaseIsDue)
    BY <1>1, <1>3 DEF ReleaseIsDue, In, PauseReason
  <1> QED
    BY <1>1, <1>2, <1>3, <1>4, StepWants

\* Its calls: one that is under way goes on, ends, or has sent the release.
LEMMA CallRefines ==
    ASSUME TypeOK, WantInv, MainCall
    PROVE  [Promise!Next]_(Promise!vars) /\ WantInv'
  <1> USE DEF Finish, Begin, receiver, device, process
  <1>1. proc' = proc /\ UNCHANGED <<network, userpause>> /\ mainAt' # "screen"
    BY DEF MainCall, ScreenOnDecides, ScreenOnCall, MainPause, MainUsr1, MainShow, MainResume,
           MainNetworkChange, ReleaseCancelsTimer, ReleaseClearsWaiting, ReleaseSends
  <1>2. ReleaseIsDue' => ReleaseIsDue \/ Wanted
    <2>1. CASE ScreenOnDecides
      BY <2>1, ReasonType DEF ScreenOnDecides, ScreenOnCall, ShouldBeConnected, Connected,
                  WantInv, Wanted, ReleaseIsDue, In, PauseReason
    <2>2. CASE MainPause \/ MainShow
      BY <2>2 DEF MainPause, MainShow, ReleaseIsDue, In
    <2>3. CASE MainUsr1
      <3>1. ASSUME NEW i \in 1..Len(toProc'), toProc'[i] = "release" PROVE In("release", toProc)
        BY <2>3, <3>1 DEF MainUsr1, TypeOK, In
      <3> QED
        BY <2>3, <3>1 DEF MainUsr1, ReleaseIsDue, In
    <2>4. CASE MainResume \/ MainNetworkChange \/ ReleaseCancelsTimer \/ ReleaseClearsWaiting
               \/ ReleaseSends
      <3>1. ReleaseIsDue
        BY <2>4 DEF MainResume, MainNetworkChange, ReleaseCancelsTimer, ReleaseClearsWaiting,
                    ReleaseSends, ReleaseIsDue
      <3> QED
        BY <3>1
    <2> QED
      BY <2>1, <2>2, <2>3, <2>4 DEF MainCall
  <1> QED
    BY <1>1, <1>2, StepDecides DEF WantInv

\* The management thread neither decides a release nor moves the process.
LEMMA MgmtRefines ==
    ASSUME TypeOK, WantInv, MgmtThread
    PROVE  [Promise!Next]_(Promise!vars) /\ WantInv'
  <1> USE DEF receiver, device, process
  <1>1. proc' = proc /\ UNCHANGED <<network, userpause, mainAt, mainOp>>
        /\ toProc' \in {toProc, Append(toProc, "usr1")}
    BY DEF MgmtThread, ReadState, ReadHold, HoldTest, HoldPost, MgmtShow, ReadByteCount,
           LowTraffic, MgmtReason, MgmtPause, MgmtUsr1
  <1>2. In("release", toProc') => In("release", toProc)
    BY <1>1 DEF In, TypeOK
  <1> QED
    BY <1>1, <1>2, StepDecides DEF ReleaseIsDue, WantInv, Wanted

\* The process and the device: a release lets the process go, a restart holds it.
LEMMA ProcessRefines ==
    ASSUME TypeOK, WantInv, ProcCommand \/ ProcConnect \/ ProcByteCount \/ Environment
    PROVE  [Promise!Next]_(Promise!vars) /\ WantInv'
  <1>1. UNCHANGED <<network, userpause, mainAt, mainOp>>
    BY DEF ProcCommand, ProcConnect, ProcByteCount, Environment, ProcDrop, NetworkMoves,
           ScreenSwitches, Tap, app, afterInbox, receiver
  <1>2. WantInv' /\ Wanted' = Wanted
    BY <1>1 DEF WantInv, Wanted
  <1>3. CASE ProcCommand
    <2>1. In("release", toProc') => In("release", toProc)
      BY <1>3 DEF ProcCommand, In, TypeOK
    <2>2. ReleaseIsDue' => ReleaseIsDue
      BY <1>1, <2>1 DEF ReleaseIsDue
    <2>3. CASE proc' = proc
      BY <1>1, <1>2, <2>2, <2>3, StepDecides
    <2>4. CASE Head(toProc) = "usr1" /\ Restart
      <3>1. In("release", toProc) => In("release", toProc')
        BY <1>3, <2>4, InTail DEF ProcCommand, TypeOK
      <3>2. ReleaseIsDue' <=> ReleaseIsDue
        BY <1>1, <2>2, <3>1 DEF ReleaseIsDue
      <3> QED
        BY <1>1, <1>2, <2>4, <3>2, StepHolds DEF Restart
    <2>5. CASE Head(toProc) = "release" /\ proc = "hold" /\ proc' = "connecting"
      <3>1. ReleaseIsDue
        BY <1>3, <2>5 DEF ProcCommand, ReleaseIsDue, In, TypeOK
      <3>2. (proc = "hold") /\ (proc = "hold")' = FALSE
        BY <2>5
      <3>3. ReleaseIsDue' \in BOOLEAN
        BY DEF ReleaseIsDue, In
      <3> QED
        BY <1>2, <3>1, <3>2, <3>3, Zenon DEF Promise!Next, Promise!Run
    <2> QED
      BY <1>3, <2>3, <2>4, <2>5 DEF ProcCommand, process
  <1>4. CASE ProcDrop
    BY <1>1, <1>2, <1>4, StepHolds DEF ProcDrop, Restart, ReleaseIsDue, In
  <1>5. CASE ProcConnect \/ ProcByteCount \/ NetworkMoves \/ ScreenSwitches \/ Tap
    <2>1. toProc' = toProc /\ (proc' = "hold" <=> proc = "hold")
      BY <1>5 DEF ProcConnect, ProcByteCount, NetworkMoves, ScreenSwitches, Tap, afterInbox,
                  process
    <2>2. ReleaseIsDue' = ReleaseIsDue
      BY <1>1, <2>1 DEF ReleaseIsDue, In
    <2>3. (proc = "hold")' = (proc = "hold")
      BY <2>1
    <2> QED
      BY <1>2, <2>2, <2>3, Zenon DEF Promise!vars
  <1> QED
    BY <1>3, <1>4, <1>5 DEF Environment

\* Pausing and resuming, with all its interleavings, does what HoldProtocol says:
\* no release reaches a held process that was not decided with the network there
\* and no pause by the user, if the preference "netchangereconnect" is off.
THEOREM PromiseKept ==
    ASSUME ~NetChangePref
    PROVE  Spec => KeepsPromise
  <1>1. Init => Promise!Init /\ ResumeInv /\ WantInv
    <2> SUFFICES ASSUME Init PROVE Promise!Init /\ ResumeInv /\ WantInv
      OBVIOUS
    <2>1. (proc = "hold") = TRUE /\ Wanted = FALSE
      BY DEF Init, Wanted
    <2>2. ReleaseIsDue = FALSE
      BY DEF Init, ReleaseIsDue, In
    <2> QED
      BY <2>1, <2>2 DEF Init, ResumeInv, WantInv, Promise!Init
  <1>2. TypeOK /\ (ResumeInv /\ WantInv) /\ [Next]_vars
        => (ResumeInv /\ WantInv)' /\ [Promise!Next]_(Promise!vars)
    <2> SUFFICES ASSUME TypeOK, ResumeInv, WantInv, [Next]_vars
                 PROVE  (ResumeInv /\ WantInv)' /\ [Promise!Next]_(Promise!vars)
      OBVIOUS
    <2>1. ResumeInv'
      BY ResumeStep
    <2>2. CASE UNCHANGED vars
      <3>1. UNCHANGED <<proc, network, userpause, mainAt, mainOp, toProc>>
        BY <2>2 DEF vars, receiver, process
      <3> QED
        BY <2>1, <3>1, StepDecides DEF ReleaseIsDue, In, WantInv, Wanted
    <2> QED
      BY <2>1, <2>2, HandlerRefines, CallRefines, MgmtRefines, ProcessRefines DEF Next
  <1> QED
    BY <1>1, <1>2, TypeCorrect, PTL DEF Spec, KeepsPromise, Promise!Spec

-----------------------------------------------------------------------------
(* What a lost network and a hold look like, while the screen stays on      *)

\* Nothing comes from the screen.
ScreenIsQuiet ==
    /\ screen = SHOULD /\ mainAt # "screen" /\ mgmtAt \in {"read", "hold", "post", "show"}
    /\ ~In("on", inbox) /\ ~In("off", inbox)

\* A network that is waiting for the end of its grace period has a timer.
GraceHasTimer == network = PENDING => disconnectTimers > 0

\* A network that is gone is not taken for one that is there, unless its broadcast is queued.
LossIsQueued ==
    registered /\ NetChangePref /\ curNet = NoNet /\ ~In("conn", inbox) => network # SHOULD

\* What a process that is held has said last is its hold.
HoldIsLast == proc = "hold" => toMgmt = <<>> \/ toMgmt[Len(toMgmt)] = "HOLD"

\* A pause is under way, in the main looper or as a command to the process.
Pausing ==
    \/ mainAt = "call" /\ mainOp \in PauseReason
    \/ mainAt \in {"show", "usr1"} \/ In("usr1", toProc)

\* The main looper is in a call that releases.
ReleaseIsUnderWay ==
    \/ mainAt \in {"rel1", "rel2"}
    \/ mainAt = "call" /\ mainOp \in {"resume", "networkChange"}

\* A held process that is not shown as paused is about to be: a pause is under way, or will
\* be after the grace period; or it is about to be released.
HeldIsShown ==
    proc = "hold" /\ toMgmt = <<>> /\ waiting /\ mgmtAt \in {"read", "post"}
          /\ status \notin PausedStates =>
        \/ Pausing
        \/ userpause = SHOULD /\ network = PENDING
        \/ /\ userpause = SHOULD /\ network = SHOULD
           /\ mgmtAt = "post" \/ resumeTimers > 0 \/ ReleaseIsUnderWay

\* What is in a queue was there before it was served, or was put behind it.
LEMMA InBefore ==
    ASSUME NEW S, NEW q \in Seq(S), NEW e \in S, NEW x
    PROVE  /\ In(x, Append(q, e)) => In(x, q) \/ x = e
           /\ q # <<>> /\ In(x, Tail(q)) => In(x, q)
  <1>1. /\ Len(Append(q, e)) = Len(q) + 1 /\ Append(q, e)[Len(q) + 1] = e
        /\ \A i \in 1..(Len(q) + 1) : i \in 1..Len(q) \/ i = Len(q) + 1
        /\ \A i \in 1..Len(q) : Append(q, e)[i] = q[i]
    OBVIOUS
  <1>2. q # <<>> => \A i \in 1..Len(Tail(q)) : i + 1 \in 1..Len(q) /\ Tail(q)[i] = q[i + 1]
    OBVIOUS
  <1> QED
    BY <1>1, <1>2 DEF In

\* Serving a queue leaves its last element, until that is served itself.
LEMMA LastInTail ==
    ASSUME NEW S, NEW q \in Seq(S), q # <<>>
    PROVE  IF Tail(q) = <<>> THEN Head(q) = q[Len(q)]
           ELSE Tail(q)[Len(Tail(q))] = q[Len(q)]
  <1> DEFINE t == Tail(q)  n == Len(q)  m == Len(Tail(q))
  <1>1. n \in Nat \ {0} /\ m = n - 1 /\ Head(q) = q[1] /\ t \in Seq(S)
    OBVIOUS
  <1>2. \A i \in 1..m : t[i] = q[i + 1]
    OBVIOUS
  <1>3. IF t = <<>> THEN m = 0 ELSE m # 0
    BY <1>1, EmptySeq, Zenon
  <1> HIDE DEF t, n, m
  <1>4. CASE t = <<>>
    <2>1. n = 1
      BY <1>1, <1>3, <1>4
    <2> QED
      BY <1>1, <1>4, <2>1 DEF t, n
  <1>5. CASE t # <<>>
    <2>1. m \in 1..m /\ m + 1 = n
      BY <1>1, <1>3, <1>5
    <2>2. t[m] = q[n]
      BY <1>2, <2>1
    <2> QED
      BY <1>5, <2>2 DEF t, n, m
  <1> QED
    BY <1>4, <1>5

LEMMA RestartLast ==
    ASSUME NEW q \in Seq(Lines)
    PROVE  LET r == q \o <<"RECONNECTING", "HOLD">>
           IN  r # <<>> /\ r[Len(r)] = "HOLD"
  <1> DEFINE h == <<"RECONNECTING", "HOLD">>
  <1>1. h \in Seq(Lines)
    BY DEF Lines, StateLines
  <1>2. Len(q \o h) = Len(q) + 2 /\ (q \o h)[Len(q) + 2] = h[2]
    BY <1>1
  <1> QED
    BY <1>1, <1>2

LEMMA ScreenStep ==
    ASSUME "screen" \notin Happenings, TypeOK, ScreenIsQuiet, [Next]_vars
    PROVE  ScreenIsQuiet'
  <1> USE DEF receiver, device, process, ScreenIsQuiet
  <1>1. ASSUME inbox # <<>>, inbox' = Tail(inbox)
        PROVE  ~In("on", inbox') /\ ~In("off", inbox')
    BY <1>1, InBefore DEF TypeOK, Events
  <1>2. CASE RegisterReceiver \/ ConnectivityAction
    <2>1. NetworkStateChange /\ mgmtAt' = mgmtAt /\ inbox # <<>> /\ inbox' = Tail(inbox) /\ mainAt = "idle"
      BY <1>2 DEF RegisterReceiver, ConnectivityAction, Take
    <2>2. screen' = SHOULD /\ mainAt' # "screen"
      BY <2>1 DEF NetworkStateChange, NetworkConnected, NetworkLost, NetworkComingUp, Begin, StayIdle
    <2> QED
      BY <1>1, <2>1, <2>2
  <1>3. ASSUME NEW pause \in BOOLEAN, UserPause(pause) PROVE ScreenIsQuiet'
    BY <1>1, <1>3 DEF UserPause, Take, Begin
  <1>4. CASE ScreenOff \/ ScreenOn
    BY <1>4 DEF ScreenOff, ScreenOn, Take, TypeOK, In
  <1>5. CASE DelayDisconnect \/ ResumeHold
    BY <1>5 DEF DelayDisconnect, ResumeHold, ResumeHoldRun, DelayDisconnectIsDue, Begin, StayIdle, In
  <1>6. CASE MainCall
    BY <1>6 DEF MainCall, ScreenOnDecides, MainPause, MainUsr1, MainShow, MainResume,
                MainNetworkChange, ReleaseCancelsTimer, ReleaseClearsWaiting, ReleaseSends, Finish, In
  <1>7. CASE MgmtThread
    BY <1>7 DEF MgmtThread, ReadState, ReadHold, HoldTest, HoldKept, HoldPost, MgmtShow,
                ReadByteCount, LowTraffic, MgmtReason, MgmtPause, MgmtUsr1, PauseReason, In
  <1>8. CASE ProcCommand \/ ProcConnect \/ ProcByteCount \/ ProcDrop
    BY <1>8 DEF ProcCommand, ProcConnect, ProcByteCount, ProcDrop, app, In
  <1>9. CASE NetworkMoves
    BY <1>9, InBefore DEF NetworkMoves, Broadcast, afterInbox, TypeOK, Events, In
  <1>10. CASE Tap
    BY <1>10, InBefore DEF Tap, afterInbox, TypeOK, Events
  <1>11. CASE ScreenSwitches
    BY <1>11 DEF ScreenSwitches, Happens
  <1>12. CASE UNCHANGED vars
    BY <1>12 DEF vars, In
  <1> QED
    BY <1>2, <1>3, <1>4, <1>5, <1>6, <1>7, <1>8, <1>9, <1>10, <1>11, <1>12
       DEF Next, MainHandler, Environment

\* A step of the network's own handler.
LEMMA NetworkSteps ==
    ASSUME TypeOK, NetworkStateChange
    PROVE  /\ network' = PENDING => disconnectTimers' > 0 \/ (network = PENDING /\ disconnectTimers' = disconnectTimers)
           /\ NetChangePref /\ curNet = NoNet => network' # SHOULD
  BY ConstantsAssumption DEF TypeOK, NetworkStateChange, NetworkConnected, NetworkLost, NetworkComingUp

LEMMA LossStep ==
    ASSUME TypeOK, ScreenIsQuiet, GraceHasTimer, LossIsQueued, [Next]_vars
    PROVE  GraceHasTimer' /\ LossIsQueued'
  <1> USE DEF receiver, device, process, GraceHasTimer, LossIsQueued
  <1>1. CASE UNCHANGED <<network, disconnectTimers, registered, curNet, inbox>>
    BY <1>1 DEF In
  <1>2. CASE RegisterReceiver \/ ConnectivityAction
    <2>1. NetworkStateChange /\ curNet' = curNet
      BY <1>2 DEF RegisterReceiver, ConnectivityAction
    <2> QED
      BY <2>1, NetworkSteps
  <1>3. CASE ScreenOff \/ ScreenOn
    BY <1>3 DEF ScreenOff, ScreenOn, Take, ScreenIsQuiet, TypeOK, In
  <1>4. ASSUME NEW pause \in BOOLEAN, UserPause(pause) PROVE GraceHasTimer' /\ LossIsQueued'
    <2>1. /\ UNCHANGED <<network, disconnectTimers, registered, curNet>>
          /\ inbox # <<>> /\ inbox' = Tail(inbox) /\ Head(inbox) # "conn"
      BY <1>4 DEF UserPause, Take
    <2>2. In("conn", inbox) => In("conn", inbox')
      BY <2>1, InTail DEF TypeOK
    <2> QED
      BY <2>1, <2>2
  <1>5. CASE DelayDisconnect
    BY <1>5 DEF DelayDisconnect, DelayDisconnectIsDue, In
  <1>6. CASE ResumeHold
    BY <1>1, <1>6 DEF ResumeHold
  <1>7. CASE MainCall
    BY <1>1, <1>7 DEF MainCall, ScreenOnDecides, MainPause, MainUsr1, MainShow, MainResume,
                MainNetworkChange, ReleaseCancelsTimer, ReleaseClearsWaiting, ReleaseSends
  <1>8. CASE MgmtThread
    BY <1>1, <1>8 DEF MgmtThread, ReadState, ReadHold, HoldTest, HoldPost, MgmtShow,
                ReadByteCount, LowTraffic, MgmtReason, MgmtPause, MgmtUsr1
  <1>9. CASE ProcCommand \/ ProcConnect \/ ProcByteCount \/ ProcDrop
    BY <1>1, <1>9 DEF ProcCommand, ProcConnect, ProcByteCount, ProcDrop, app
  <1>10. CASE NetworkMoves
    <2>1. UNCHANGED <<network, disconnectTimers, registered>>
      BY <1>10 DEF NetworkMoves, afterInbox
    <2>2. registered => In("conn", inbox')
      BY <1>10, InAppend DEF NetworkMoves, Broadcast, TypeOK, Events
    <2> QED
      BY <2>1, <2>2
  <1>11. CASE ScreenSwitches \/ Tap
    <2>1. UNCHANGED <<network, disconnectTimers, registered, curNet>>
      BY <1>11 DEF ScreenSwitches, Tap, afterInbox
    <2>2. In("conn", inbox) => In("conn", inbox')
      BY <1>11, InAppend DEF ScreenSwitches, Tap, Broadcast, TypeOK, Events
    <2> QED
      BY <2>1, <2>2
  <1>12. CASE UNCHANGED vars
    BY <1>1, <1>12 DEF vars
  <1> QED
    BY <1>2, <1>3, <1>4, <1>5, <1>6, <1>7, <1>8, <1>9, <1>10, <1>11, <1>12
       DEF Next, MainHandler, Environment

LEMMA LastStep ==
    ASSUME TypeOK, HoldIsLast, [Next]_vars
    PROVE  HoldIsLast'
  <1> USE DEF receiver, device, process, HoldIsLast
  <1>1. CASE UNCHANGED <<proc, toMgmt>>
    BY <1>1
  <1>2. ASSUME NEW line, Read(line), proc' = proc PROVE HoldIsLast'
    BY <1>2, LastInTail DEF Read, TypeOK
  <1>3. CASE Restart
    BY <1>3, RestartLast DEF Restart, TypeOK
  <1>4. CASE MainHandler \/ DelayDisconnect \/ ResumeHold
    BY <1>1, <1>4 DEF MainHandler, DelayDisconnect, ResumeHold, RegisterReceiver,
                ConnectivityAction, ScreenOff, ScreenOn, UserPause
  <1>5. CASE MainCall
    BY <1>1, <1>5 DEF MainCall, ScreenOnDecides, MainPause, MainUsr1, MainShow, MainResume,
                MainNetworkChange, ReleaseCancelsTimer, ReleaseClearsWaiting, ReleaseSends
  <1>6. CASE ReadState \/ ReadHold \/ ReadByteCount
    BY <1>2, <1>6 DEF ReadState, ReadHold, ReadByteCount
  <1>7. CASE HoldTest \/ HoldPost \/ MgmtShow \/ LowTraffic \/ MgmtReason \/ MgmtPause \/ MgmtUsr1
    BY <1>1, <1>7 DEF HoldTest, HoldPost, MgmtShow, LowTraffic, MgmtReason, MgmtPause, MgmtUsr1
  <1>8. CASE ProcCommand
    BY <1>1, <1>3, <1>8 DEF ProcCommand
  <1>9. CASE ProcConnect \/ ProcByteCount
    BY <1>9 DEF ProcConnect, ProcByteCount
  <1>10. CASE ProcDrop
    BY <1>3, <1>10 DEF ProcDrop
  <1>11. CASE NetworkMoves \/ ScreenSwitches \/ Tap
    BY <1>1, <1>11 DEF NetworkMoves, ScreenSwitches, Tap, afterInbox
  <1>12. CASE UNCHANGED vars
    BY <1>1, <1>12 DEF vars
  <1> QED
    BY <1>4, <1>5, <1>6, <1>7, <1>8, <1>9, <1>10, <1>11, <1>12
       DEF Next, MgmtThread, Environment

LEMMA ShownStep ==
    ASSUME TypeOK, ScreenIsQuiet, HoldIsLast, HeldIsShown, [Next]_vars
    PROVE  HeldIsShown'
  <1> USE DEF receiver, device, process, HeldIsShown, Pausing, ReleaseIsUnderWay
  <1>0. screen = SHOULD /\ mgmtAt \in {"read", "hold", "post", "show"} /\ mainAt # "screen"
    BY DEF ScreenIsQuiet
  <1>1. CASE RegisterReceiver \/ ConnectivityAction
    <2>1. /\ NetworkStateChange /\ mainAt = "idle"
          /\ UNCHANGED <<userpause, waiting, resumeTimers, mgmtAt, status, proc, toMgmt, toProc>>
      BY <1>1 DEF RegisterReceiver, ConnectivityAction, Take
    <2>2. In("usr1", toProc) => In("usr1", toProc')
      BY <2>1
    <2>3. CASE NetworkConnected
      <3>1. network' = SHOULD
        BY <2>3 DEF NetworkConnected
      <3>2. network = PENDING /\ userpause = SHOULD => mainAt' = "call" /\ mainOp' = "networkChange"
        BY <1>0, <2>3 DEF NetworkConnected, Connected, Begin
      <3> QED
        BY <2>1, <2>2, <3>1, <3>2
    <2>4. CASE NetworkLost
      <3>1. network' = PENDING \/ network' = network
        BY <2>4 DEF NetworkLost
      <3>2. mainAt' = "idle"
        BY <2>1, <2>4 DEF NetworkLost, StayIdle
      <3> QED
        BY <2>1, <2>2, <3>1, <3>2
    <2>5. CASE NetworkComingUp
      BY <2>1, <2>2, <2>5 DEF NetworkComingUp, StayIdle
    <2> QED
      BY <2>1, <2>3, <2>4, <2>5 DEF NetworkStateChange
  <1>2. CASE ScreenOff \/ ScreenOn
    BY <1>2 DEF ScreenOff, ScreenOn, Take, ScreenIsQuiet, TypeOK, In
  <1>3. ASSUME NEW pause \in BOOLEAN, UserPause(pause) PROVE HeldIsShown'
    <2>1. /\ UNCHANGED <<network, screen, waiting, resumeTimers, mgmtAt, status, proc, toMgmt, toProc>>
          /\ mainAt = "idle" /\ mainAt' = "call" /\ mainOp' = UserPauseCall(pause)
      BY <1>3 DEF UserPause, Take, Begin
    <2>2. \/ UserPauseCall(pause) \in PauseReason
          \/ UserPauseCall(pause) = "resume" /\ userpause = DISC
      BY <1>0, ReasonType DEF UserPauseCall, ShouldBeConnected, Connected, TypeOK
    <2>3. In("usr1", toProc) => In("usr1", toProc')
      BY <2>1
    <2> QED
      BY <2>1, <2>2, <2>3
  <1>4. CASE DelayDisconnect
    <2>1. /\ UNCHANGED <<userpause, waiting, resumeTimers, mgmtAt, status, proc, toMgmt, toProc>>
          /\ mainAt = "idle"
      BY <1>4 DEF DelayDisconnect
    <2>2. \/ mainAt' = "call" /\ mainOp' \in PauseReason
          \/ network # PENDING /\ UNCHANGED <<mainAt, mainOp, network>>
      BY <1>4, ReasonType DEF DelayDisconnect, DelayDisconnectIsDue, Begin, StayIdle
    <2>3. In("usr1", toProc) => In("usr1", toProc')
      BY <2>1
    <2> QED
      BY <2>1, <2>2, <2>3
  <1>5. CASE ResumeHold
    <2>1. /\ UNCHANGED <<network, userpause, waiting, mgmtAt, status, proc, toMgmt, toProc>>
          /\ mainAt = "idle"
      BY <1>5 DEF ResumeHold
    <2>2. mainAt' = "rel1" \/ (mainAt' = "idle" /\ ~(network = SHOULD /\ userpause = SHOULD))
      BY <1>0, <1>5 DEF ResumeHold, ResumeHoldRun, StayIdle, ShouldBeConnected, Connected
    <2>3. In("usr1", toProc) => In("usr1", toProc')
      BY <2>1
    <2> QED
      BY <2>1, <2>2, <2>3
  <1>6. CASE MainPause
    BY <1>6 DEF MainPause, In
  <1>7. CASE MainUsr1
    BY <1>7, InAppend DEF MainUsr1, TypeOK, Commands
  <1>8. CASE MainShow
    BY <1>8, PauseStateType DEF MainShow, TypeOK
  <1>9. CASE MainResume
    BY <1>9 DEF MainResume, PauseReason, In
  <1>10. CASE MainNetworkChange
    BY <1>10 DEF MainNetworkChange, PauseReason, In
  <1>11. CASE ReleaseCancelsTimer
    BY <1>11 DEF ReleaseCancelsTimer, In
  <1>12. CASE ReleaseClearsWaiting
    BY <1>12 DEF ReleaseClearsWaiting
  <1>13. CASE ReleaseSends
    <2>1. In("usr1", toProc) => In("usr1", toProc')
      BY <1>13, InAppend DEF ReleaseSends, TypeOK, Commands
    <2> QED
      BY <1>13, <2>1 DEF ReleaseSends, Finish
  <1>14. ASSUME NEW line, Read(line), line # "HOLD", proc' = proc PROVE HeldIsShown'
    <2>1. proc = "hold" => toMgmt' # <<>>
      BY <1>14, LastInTail DEF Read, TypeOK, HoldIsLast
    <2> QED
      BY <1>14, <2>1
  <1>15. CASE ReadState \/ ReadByteCount
    BY <1>14, <1>15 DEF ReadState, ReadByteCount, StateLines
  <1>16. CASE ReadHold \/ MgmtShow
    BY <1>16, PauseStateType DEF ReadHold, MgmtShow, TypeOK
  <1>17. CASE HoldTest
    BY <1>17 DEF HoldTest, HoldKept, ShouldBeConnected, Connected, TypeOK
  <1>18. CASE HoldPost
    BY <1>18 DEF HoldPost, TypeOK, In
  <1>19. CASE LowTraffic \/ MgmtReason \/ MgmtPause \/ MgmtUsr1
    BY <1>0, <1>19 DEF LowTraffic, MgmtReason, MgmtPause, MgmtUsr1, PauseReason
  <1>20. CASE ProcCommand
    <2>1. CASE Restart
      BY <2>1, RestartLast DEF Restart, TypeOK
    <2>2. CASE proc' # "hold"
      BY <2>2
    <2>3. CASE Head(toProc) # "usr1" /\ UNCHANGED process
      <3>1. In("usr1", toProc) => In("usr1", toProc')
        BY <1>20, <2>3, InTail DEF ProcCommand, TypeOK
      <3> QED
        BY <1>20, <2>3, <3>1 DEF ProcCommand, app
    <2> QED
      BY <1>20, <2>1, <2>2, <2>3 DEF ProcCommand
  <1>21. CASE ProcConnect \/ ProcByteCount
    BY <1>21 DEF ProcConnect, ProcByteCount
  <1>22. CASE ProcDrop
    BY <1>22, RestartLast DEF ProcDrop, Restart, TypeOK
  <1>23. CASE NetworkMoves \/ ScreenSwitches \/ Tap
    BY <1>23 DEF NetworkMoves, ScreenSwitches, Tap, afterInbox, In
  <1>24. CASE UNCHANGED vars
    BY <1>24 DEF vars, In
  <1>25. CASE ScreenOnDecides
    BY <1>0, <1>25 DEF ScreenOnDecides
  <1> QED
    BY <1>1, <1>2, <1>3, <1>4, <1>5, <1>6, <1>7, <1>8, <1>9, <1>10, <1>11, <1>12, <1>13, <1>15,
       <1>16, <1>17, <1>18, <1>19, <1>20, <1>21, <1>22, <1>23, <1>24, <1>25
       DEF Next, MainHandler, MainCall, MgmtThread, Environment

ShownInv == ScreenIsQuiet /\ GraceHasTimer /\ LossIsQueued /\ HoldIsLast /\ HeldIsShown

LEMMA ShownAlways ==
    ASSUME "screen" \notin Happenings
    PROVE  Spec => []ShownInv
  <1>1. Init => ShownInv
    <2> SUFFICES ASSUME Init PROVE ShownInv
      OBVIOUS
    <2>1. ~In("on", inbox) /\ ~In("off", inbox)
      BY DEF Init, In
    <2> QED
      BY <2>1 DEF Init, ShownInv, ScreenIsQuiet, GraceHasTimer, LossIsQueued, HoldIsLast, HeldIsShown
  <1>2. TypeOK /\ ShownInv /\ [Next]_vars => ShownInv'
    BY ScreenStep, LossStep, LastStep, ShownStep DEF ShownInv
  <1> QED
    BY <1>1, <1>2, TypeCorrect, PTL DEF Spec

\* While the screen stays on, a lost network becomes a reason to pause at the end of its
\* grace period: mDelayDisconnectRunnable is posted for every loss and is removed only when
\* the network is back.
THEOREM LossDetected ==
    ASSUME "screen" \notin Happenings
    PROVE  Spec => []NetworkLossDetected
  <1>1. TypeOK /\ ShownInv => NetworkLossDetected
    BY DEF TypeOK, ShownInv, GraceHasTimer, LossIsQueued, NetworkLossDetected, Settled, In
  <1> QED
    BY <1>1, TypeCorrect, ShownAlways, PTL

\* While the screen stays on, a process that is left in its hold is shown as paused: whoever
\* decides that it is not released also shows it, on whichever thread, and nothing that the
\* process said before its hold is read after that.
THEOREM HoldShown ==
    ASSUME "screen" \notin Happenings
    PROVE  Spec => []HoldIsShown
  <1>1. TypeOK /\ HoldIsKnown /\ ShownInv => HoldIsShown
    <2> SUFFICES ASSUME TypeOK, HoldIsKnown, ShownInv, Settled, proc = "hold",
                        status \notin PausedStates
                 PROVE  FALSE
      BY DEF HoldIsShown
    <2>1. waiting
      BY DEF HoldIsKnown, Settled, In
    <2>2. ~In("usr1", toProc)
      BY DEF Settled, In
    <2>3. ~Pausing /\ ~ReleaseIsUnderWay
      BY <2>2 DEF Settled, Pausing, ReleaseIsUnderWay
    <2>4. network # PENDING /\ resumeTimers = 0
      BY DEF ShownInv, GraceHasTimer, Settled
    <2> QED
      BY <2>1, <2>3, <2>4 DEF ShownInv, HeldIsShown, Settled
  <1> QED
    BY <1>1, TypeCorrect, HoldKnown, ShownAlways, PTL
=============================================================================
