----------------------- MODULE SessionLifecycleProofs -----------------------
(***************************************************************************)
(* Proofs about SessionLifecycle, for every finite set of starts and every *)
(* number of stops.                                                        *)
(***************************************************************************)
EXTENDS SessionLifecycle, FiniteSetTheorems, TLAPS

-----------------------------------------------------------------------------
(* The inductive invariant of starts that do not overlap.  Stops and exits   *)
(* may fall into them, old sessions may end late, and any step may fail.     *)

BeforeStop == {"tapped", "config", "mark", "stopOld"}
BeforeOpen == {"wait", "force", "hold", "clear", "open"}
Marked     == {"stopOld", "wait", "force", "hold", "clear"}

Listed(k) == \E i \in DOMAIN active : active[i] = k

\* The process runs, or is about to be started.
Up(k) == pthread[k] = "exec" \/ proc[k] = "alive"

\* What a start has not reached is not there.
StagesMatch ==
    \A k \in Sessions :
        /\ starter[k] \in {"none"} \cup BeforeStop \cup BeforeOpen =>
               socket[k] = "none" /\ ~noExitStatus[k]
        /\ starter[k] \in {"none", "thread", "spawn"} \cup BeforeStop \cup BeforeOpen =>
               pthread[k] = "none" /\ k \notin posted /\ mProcessThread # k
        /\ starter[k] \in {"none", "thread"} \cup BeforeStop \cup BeforeOpen =>
               mOpenVPNThread # k /\ ~noExitStatus[k]
        /\ starter[k] \in {"thread", "spawn", "post"} => mManagement = k
        /\ pthread[k] \in {"none", "exec"} => proc[k] = "none"
        /\ proc[k] = "alive" => pthread[k] = "reading"

OneStarter == \A j, k \in Sessions : StarterBusy(j) /\ StarterBusy(k) => j = k

\* The latest session is the only one that may be up.
LatestIsUp == \A k \in Sessions : Up(k) \/ socket[k] = "starting" => mManagement = k

\* A session that is up, or is being started, has a socket to be stopped through.
UpIsReachable ==
    \A k \in Sessions :
        /\ Up(k) \/ starter[k] \in {"thread", "spawn"} =>
               socket[k] \in {"starting", "accepting", "open"}
        /\ socket[k] = "open" => proc[k] # "none"

\* A start finds the process that runs with an open socket; it is not up any
\* more when the management interface of the new session is opened.
OldIsStopped ==
    \A j, k \in Sessions :
        /\ starter[k] \in BeforeStop \cup BeforeOpen =>
               pthread[j] # "exec" /\ socket[j] # "starting"
        /\ starter[k] \in BeforeStop /\ proc[j] = "alive" => socket[j] = "open"
        /\ starter[k] \in BeforeOpen => proc[j] # "alive"

ConnectedIsListed == \A k \in Sessions : socket[k] \in {"accepting", "open"} => Listed(k)

StartingIsMarked ==
    mStarting => \E k \in Sessions : starter[k] \in Marked

Owned(k) ==
    /\ mOpenVPNThread = k
    /\ starter[k] # "spawn" => mProcessThread = k
    /\ receiver = k \/ k \in posted \/ starter[k] \in {"spawn", "post"}

\* A session that is up is the one the service knows, unless it is about to be
\* replaced, or an end is under way, at the end of which the service stops.
UpIsOwned ==
    \A k \in Sessions : Up(k) \/ starter[k] = "spawn" =>
        \/ Owned(k) \/ stopRequested \/ \E t \in Threads : ~AtRest(t)
        \/ \E j \in Sessions : starter[j] \in BeforeStop

Inv1 ==
    /\ StagesMatch /\ OneStarter /\ LatestIsUp /\ UpIsReachable
    /\ OldIsStopped /\ ConnectedIsListed /\ StartingIsMarked /\ UpIsOwned

\* After a stop nothing is up and nothing starts (if no stop falls into a start).
StoppedIsDown ==
    wanted = None => \A k \in Sessions : ~Up(k) /\ ~StarterBusy(k)

\* After a stop the profile is forgotten, or is about to be.
StoppedIsForgotten ==
    wanted = None =>
        /\ delivering = None /\ \A k \in Sessions : starter[k] # "tapped"
        /\ lastProfile = None \/ end[Main] \in {"lock", "receiver", "profile"}

-----------------------------------------------------------------------------
(* Types                                                                    *)

USE DEF service, shown, mgmt, threads, user, vars

\* Every thread that ends a session is one of Threads.
LEMMA ThreadsAre ==
    /\ Main \in Threads
    /\ \A k \in Sessions : Process(k) \in Threads /\ Starter(k) \in Threads
  BY DEF Threads

\* The three kinds of threads are different, and each session has its own.
LEMMA ThreadsDiffer ==
    /\ \A k \in Sessions : Main # Process(k) /\ Main # Starter(k)
    /\ \A j, k \in Sessions :
          /\ Process(j) # Starter(k)
          /\ j # k => Process(j) # Process(k) /\ Starter(j) # Starter(k)
  BY DEF Main, Process, Starter

\* Leaving the list takes one element out of it.
LEMMA WithoutType ==
    ASSUME NEW S, NEW q \in Seq(S), NEW i \in DOMAIN q
    PROVE  Without(q, i) \in Seq(S)
  <1>1. Len(q) - 1 \in Nat
    OBVIOUS
  <1>2. \A j \in 1..(Len(q) - 1) : q[IF j < i THEN j ELSE j + 1] \in S
    OBVIOUS
  <1> QED
    BY <1>1, <1>2 DEF Without

OrNone == Sessions \cup {None}

\* TypeOK, variable by variable.
Types ==
    /\ mManagement \in OrNone /\ mOpenVPNThread \in OrNone /\ mProcessThread \in OrNone
    /\ receiver \in OrNone /\ lock \in OrNone /\ lastProfile \in OrNone
    /\ delivering \in OrNone /\ wanted \in OrNone
    /\ mStarting \in BOOLEAN /\ stopRequested \in BOOLEAN
    /\ serviceUp \in BOOLEAN /\ dialog \in BOOLEAN /\ late \in BOOLEAN
    /\ status \in Statuses /\ active \in Seq(Sessions)
    /\ socket \in [Sessions -> SocketAt] /\ shuttingDown \in [Sessions -> BOOLEAN]
    /\ unread \in [Sessions -> {"none"} \cup Lines] /\ line \in [Sessions -> {"none"} \cup Lines]
    /\ starter \in [Sessions -> StarterAt] /\ posted \subseteq Sessions
    /\ pthread \in [Sessions -> PthreadAt] /\ noExitStatus \in [Sessions -> BOOLEAN]
    /\ interrupted \in [Sessions -> BOOLEAN] /\ proc \in [Sessions -> ProcAt]
    /\ end \in [Threads -> EndAt] /\ stops \in 0..MaxStops

LEMMA TypesAre == TypeOK <=> Types
  BY DEF TypeOK, Types, OrNone

LEMMA InitType == Init => Types
  <1> SUFFICES ASSUME Init PROVE Types
    OBVIOUS
  <1>1. active \in Seq(Sessions)
    BY DEF Init
  <1>2. stops \in 0..MaxStops
    BY ConstantsAssumption DEF Init
  <1> QED
    BY <1>1, <1>2 DEF Init, Types, OrNone, Statuses, Lines, SocketAt, StarterAt, PthreadAt, ProcAt, EndAt

\* stopVPN() keeps the types of what it changes.
LEMMA StopVPNType ==
    ASSUME Types, NEW m, StopVPN(m)
    PROVE  /\ socket' \in [Sessions -> SocketAt] /\ proc' \in [Sessions -> ProcAt]
           /\ shuttingDown' \in [Sessions -> BOOLEAN]
  <1>1. StopResult \in BOOLEAN
    BY DEF StopResult
  <1> QED
    BY <1>1 DEF StopVPN, Types, SocketAt, ProcAt

LEMMA EndType == ASSUME Types, NEW t \in Threads, EndVpnService(t) PROVE Types'
  <1> USE DEF Types, OrNone, EndAt
  <1>1. CASE EndLock(t)
    BY <1>1 DEF EndLock
  <1>2. CASE EndReceiver(t)
    BY <1>2 DEF EndReceiver
  <1>3. CASE EndProfile(t)
    BY <1>3 DEF EndProfile
  <1>4. CASE EndDecide(t)
    BY <1>4 DEF EndDecide, StopsSelf
  <1> QED
    BY <1>1, <1>2, <1>3, <1>4 DEF EndVpnService

LEMMA StartType ==
    ASSUME Types, NEW k \in Sessions, RequestStart(k) \/ StartOpenVPN(k) \/ RegisterReceiver(k)
    PROVE  Types'
  <1> USE DEF Types, OrNone, StarterAt, Goto
  <1>1. CASE RequestStart(k)
    BY <1>1 DEF RequestStart
  <1>2. CASE OnStartCommand(k)
    BY <1>2 DEF OnStartCommand
  <1>3. CASE GenerateConfig(k)
    <2>1. status' \in Statuses /\ late' \in BOOLEAN
      BY <1>3 DEF GenerateConfig, Statuses
    <2>2. starter' \in [Sessions -> StarterAt] /\ end' \in [Threads -> EndAt]
      BY <1>3, ThreadsAre DEF GenerateConfig, EndAs, EndAt
    <2> QED
      BY <1>3, <2>1, <2>2 DEF GenerateConfig
  <1>4. CASE MarkStarting(k)
    BY <1>4 DEF MarkStarting
  <1>5. CASE StopOld(k)
    <2>1. CASE mManagement = None
      BY <1>5, <2>1 DEF StopOld
    <2>2. CASE mManagement # None
      <3>1. StopVPN(mManagement)
        BY <1>5, <2>2 DEF StopOld
      <3>2. noExitStatus' \in [Sessions -> BOOLEAN]
        BY <1>5, <2>2 DEF StopOld, Replaced
      <3>3. starter' \in [Sessions -> StarterAt]
        BY <1>5, <2>2 DEF StopOld
      <3>4. UNCHANGED <<active, unread, line>>
        BY <3>1 DEF StopVPN
      <3> QED
        BY <1>5, <2>2, <3>1, <3>2, <3>3, <3>4, StopVPNType DEF StopOld
    <2> QED
      BY <2>1, <2>2
  <1>6. CASE Wait(k)
    BY <1>6 DEF Wait
  <1>7. CASE ForceStop(k)
    <2>1. starter' \in [Sessions -> StarterAt] /\ lock' \in OrNone
      BY <1>7 DEF ForceStop
    <2>2. interrupted' \in [Sessions -> BOOLEAN]
      BY <1>7 DEF ForceStop
    <2> QED
      BY <1>7, <2>1, <2>2 DEF ForceStop
  <1>8. CASE ForceStopped(k)
    BY <1>8 DEF ForceStopped
  <1>9. CASE ClearStarting(k)
    <2>1. starter' \in [Sessions -> StarterAt]
      BY <1>9 DEF ClearStarting
    <2>2. mStarting' \in BOOLEAN
      BY <1>9 DEF ClearStarting
    <2> QED
      BY <1>9, <2>1, <2>2 DEF ClearStarting
  <1>10. CASE OpenManagement(k)
    BY <1>10, ThreadsAre DEF OpenManagement, EndAs, EndAt, SocketAt
  <1>11. CASE CreateThread(k)
    BY <1>11 DEF CreateThread
  <1>12. CASE StartThread(k)
    BY <1>12 DEF StartThread, PthreadAt
  <1>13. CASE PostRegister(k)
    BY <1>13 DEF PostRegister
  <1>14. CASE RegisterReceiver(k)
    BY <1>14 DEF RegisterReceiver
  <1> QED
    BY <1>1, <1>2, <1>3, <1>4, <1>5, <1>6, <1>7, <1>8, <1>9, <1>10, <1>11, <1>12, <1>13, <1>14
       DEF StartOpenVPN

LEMMA SessionType ==
    ASSUME Types, NEW k \in Sessions,
           \/ MgmtThread(k) \/ ProcSays(k) \/ ProcessThread(k) \/ ReadInterrupted(k)
           \/ ProcStops(k) \/ ProcGivesUp(k)
    PROVE  Types'
  <1> USE DEF Types, OrNone, SocketAt, PthreadAt, ProcAt
  <1>1. CASE ActiveAdd(k)
    BY <1>1 DEF ActiveAdd
  <1>2. CASE Accept(k)
    BY <1>2 DEF Accept
  <1>3. CASE MgmtEnds(k)
    BY <1>3, WithoutType DEF MgmtEnds
  <1>4. CASE ReadState(k) \/ ShowState(k) \/ ProcSays(k)
    <2>1. line' \in [Sessions -> {"none"} \cup Lines] /\ unread' \in [Sessions -> {"none"} \cup Lines]
      BY <1>4 DEF ReadState, ShowState, ProcSays, Lines
    <2>2. status' \in Statuses /\ late' \in BOOLEAN
      <3>1. CASE ShowState(k)
        <4>1. status' = line[k] /\ line[k] \in Lines /\ late' = (pthread[k] = "ended")
          BY <3>1 DEF ShowState
        <4> QED
          BY <4>1 DEF Statuses
      <3>2. CASE ReadState(k) \/ ProcSays(k)
        BY <3>2 DEF ReadState, ProcSays
      <3> QED
        BY <1>4, <3>1, <3>2
    <2> QED
      BY <1>4, <2>1, <2>2 DEF ReadState, ShowState, ProcSays
  <1>5. CASE Exec(k) \/ ReadEnds(k) \/ WaitFor(k) \/ ReadInterrupted(k)
    <2>1. pthread' \in [Sessions -> PthreadAt] /\ proc' \in [Sessions -> ProcAt]
      BY <1>5 DEF Exec, ReadEnds, WaitFor, ReadInterrupted
    <2>2. interrupted' \in [Sessions -> BOOLEAN]
      BY <1>5 DEF Exec, ReadEnds, WaitFor, ReadInterrupted
    <2> QED
      BY <1>5, <2>1, <2>2 DEF Exec, ReadEnds, WaitFor, ReadInterrupted
  <1>6. CASE ProcessDied(k)
    BY <1>6, ThreadsAre DEF ProcessDied, DiedStatus, EndAs, EndAt, Statuses
  <1>7. CASE ProcStops(k) \/ ProcGivesUp(k)
    BY <1>7 DEF ProcStops, ProcGivesUp, ProcExits
  <1> QED
    BY <1>1, <1>2, <1>3, <1>4, <1>5, <1>6, <1>7 DEF MgmtThread, ProcessThread

LEMMA UserType ==
    ASSUME Types,
           \/ SetConnectedProfile \/ OpenDialog \/ ConfirmDialog \/ CancelDialog
           \/ DisconnectIntent \/ OnRevoke \/ OnDestroy
    PROVE  Types'
  <1>1. ASSUME StopSession
        PROVE  /\ socket' \in [Sessions -> SocketAt] /\ proc' \in [Sessions -> ProcAt]
               /\ shuttingDown' \in [Sessions -> BOOLEAN]
               /\ UNCHANGED <<active, unread, line>>
               /\ lastProfile' = None /\ wanted' = None
    BY <1>1, StopVPNType DEF StopSession, Types, OrNone, StopVPN
  <1> USE DEF Types, OrNone
  <1>2. CASE SetConnectedProfile
    BY <1>2 DEF SetConnectedProfile
  <1>3. CASE OpenDialog \/ CancelDialog
    <2>1. stops' \in 0..MaxStops
      BY <1>3, ConstantsAssumption DEF OpenDialog, CancelDialog
    <2>2. dialog' \in BOOLEAN
      BY <1>3 DEF OpenDialog, CancelDialog
    <2> QED
      BY <1>3, <2>1, <2>2 DEF OpenDialog, CancelDialog
  <1>4. CASE ConfirmDialog
    <2>1. status' \in Statuses
      BY <1>4 DEF ConfirmDialog, Statuses
    <2> QED
      BY <1>1, <1>4, <2>1 DEF ConfirmDialog
  <1>5. CASE DisconnectIntent
    <2>1. stops' \in 0..MaxStops
      BY <1>5, ConstantsAssumption DEF DisconnectIntent
    <2> QED
      BY <1>1, <1>5, <2>1 DEF DisconnectIntent
  <1>6. CASE OnRevoke
    <2>1. stops' \in 0..MaxStops
      BY <1>6, ConstantsAssumption DEF OnRevoke
    <2>2. end' \in [Threads -> EndAt]
      BY <1>6, ThreadsAre DEF OnRevoke, EndAs, EndAt
    <2>3. UNCHANGED <<active, unread, line>>
      BY <1>6 DEF OnRevoke, StopVPN
    <2> QED
      BY <1>6, <2>1, <2>2, <2>3, StopVPNType DEF OnRevoke
  <1>7. CASE OnDestroy
    BY <1>7, StopVPNType DEF OnDestroy, StopVPN
  <1> QED
    BY <1>2, <1>3, <1>4, <1>5, <1>6, <1>7

\* The fields of the service, the management threads, the process threads, the
\* processes and the dialog keep their types, whatever overlaps and fails.
THEOREM TypeCorrect == Spec => []TypeOK
  <1>1. Types /\ [Next]_vars => Types'
    <2> SUFFICES ASSUME Types, [Next]_vars PROVE Types'
      OBVIOUS
    <2>1. CASE UNCHANGED vars
      BY <2>1 DEF Types
    <2> QED
      BY <2>1, EndType, StartType, SessionType, UserType DEF Next
  <1> QED
    BY InitType, <1>1, TypesAre, PTL DEF Spec

-----------------------------------------------------------------------------
(* One starter at a time                                                    *)

LEMMA InitOne == Init => Inv1
  <1> SUFFICES ASSUME Init PROVE Inv1
    OBVIOUS
  <1>1. \A k \in Sessions : /\ starter[k] = "none" /\ socket[k] = "none" /\ ~noExitStatus[k]
                            /\ pthread[k] = "none" /\ proc[k] = "none"
    BY DEF Init
  <1>2. StagesMatch
    BY <1>1, ConstantsAssumption DEF Init, StagesMatch
  <1>3. OneStarter /\ LatestIsUp /\ UpIsReachable /\ OldIsStopped /\ ConnectedIsListed
        /\ UpIsOwned
    BY <1>1 DEF OneStarter, LatestIsUp, UpIsReachable, OldIsStopped, ConnectedIsListed, UpIsOwned, StarterBusy,
                Up, BeforeStop, BeforeOpen
  <1>4. StartingIsMarked
    BY DEF Init, StartingIsMarked
  <1> QED
    BY <1>2, <1>3, <1>4 DEF Inv1

\* Leaving the list of management threads loses no other thread.
LEMMA WithoutKeeps ==
    ASSUME NEW S, NEW q \in Seq(S), NEW i \in DOMAIN q, NEW n \in DOMAIN q, q[n] # q[i]
    PROVE  \E m \in DOMAIN Without(q, i) : Without(q, i)[m] = q[n]
  <1>1. DOMAIN Without(q, i) = 1..(Len(q) - 1)
    BY DEF Without
  <1>2. CASE n < i
    <2>1. n \in 1..(Len(q) - 1) /\ Without(q, i)[n] = q[n]
      BY <1>2 DEF Without
    <2> QED
      BY <1>1, <2>1
  <1>3. CASE n > i
    <2>1. n - 1 \in 1..(Len(q) - 1) /\ ~(n - 1 < i) /\ (n - 1) + 1 = n
      BY <1>3
    <2>2. Without(q, i)[n - 1] = q[n]
      BY <2>1 DEF Without
    <2> QED
      BY <1>1, <2>1, <2>2
  <1> QED
    BY <1>2, <1>3

StepVars == <<starter, socket, noExitStatus, pthread, posted, mProcessThread, mOpenVPNThread,
              mManagement, proc, active, mStarting, receiver, stopRequested, end>>

\* What the user interface, the log and the profile see is not in the invariant.
LEMMA SameOne == ASSUME Inv1, UNCHANGED StepVars PROVE Inv1'
  <1> USE DEF StepVars
  <1>1. (StagesMatch /\ OneStarter /\ LatestIsUp /\ UpIsReachable /\ OldIsStopped)'
    BY DEF Inv1, StagesMatch, OneStarter, LatestIsUp, UpIsReachable, OldIsStopped, StarterBusy, Up
  <1>2. (ConnectedIsListed /\ StartingIsMarked)'
    BY DEF Inv1, ConnectedIsListed, StartingIsMarked, Listed
  <1>3. UpIsOwned'
    BY DEF Inv1, UpIsOwned, Up, Owned, AtRest
  <1> QED
    BY <1>1, <1>2, <1>3 DEF Inv1

\* A stop sends no process up and no socket open.
LEMMA StopOne ==
    ASSUME Types, Inv1, NEW m, StopVPN(m),
           UNCHANGED <<starter, noExitStatus, pthread, posted, mProcessThread, mOpenVPNThread,
                       mManagement, mStarting>>,
           UNCHANGED <<receiver, stopRequested, end>>
           \/ stopRequested'
           \/ \E t \in Threads : ~AtRest(t)'
    PROVE  Inv1'
  <1>1. \A k \in Sessions :
           /\ socket'[k] = socket[k] \/ (socket[k] = "open" /\ socket'[k] = "closed")
           /\ proc'[k] = proc[k] \/ (proc[k] = "alive" /\ proc'[k] = "stopping")
           /\ proc'[k] = "alive" /\ socket[k] = "open" => socket'[k] = "open"
    BY DEF StopVPN, Types, Closed, Signalled
  <1>2. active' = active
    BY DEF StopVPN
  <1>3. \A k \in Sessions : Up(k)' => Up(k)
    BY <1>1 DEF Up
  <1>4. (StagesMatch /\ OneStarter /\ LatestIsUp)'
    BY <1>1, <1>3 DEF Inv1, StagesMatch, OneStarter, LatestIsUp, StarterBusy
  <1>5. OldIsStopped' /\ UpIsReachable'
    BY <1>1 DEF Inv1, OldIsStopped, UpIsReachable, StagesMatch, Up
  <1>6. (ConnectedIsListed /\ StartingIsMarked)'
    BY <1>1, <1>2 DEF Inv1, ConnectedIsListed, StartingIsMarked, Listed
  <1>7. UpIsOwned'
    BY <1>3 DEF Inv1, UpIsOwned, Owned, AtRest
  <1> QED
    BY <1>4, <1>5, <1>6, <1>7 DEF Inv1

LEMMA EndOne == ASSUME Types, Inv1, NEW t \in Threads, EndVpnService(t) PROVE Inv1'
  <1>1. UNCHANGED <<starter, socket, noExitStatus, pthread, posted, mManagement, proc, active,
                    mStarting>>
    BY DEF EndVpnService, EndLock, EndReceiver, EndProfile, EndDecide
  <1>2. mProcessThread' \in {mProcessThread, None} /\ mOpenVPNThread' \in {mOpenVPNThread, None}
    BY DEF EndVpnService, EndLock, EndReceiver, EndProfile, EndDecide
  <1>3. (StagesMatch /\ OneStarter /\ LatestIsUp /\ UpIsReachable /\ OldIsStopped)'
    BY <1>1, <1>2, ConstantsAssumption
       DEF Inv1, StagesMatch, OneStarter, LatestIsUp, UpIsReachable, OldIsStopped, StarterBusy, Up
  <1>4. (ConnectedIsListed /\ StartingIsMarked)'
    BY <1>1 DEF Inv1, ConnectedIsListed, StartingIsMarked, Listed
  <1>5. CASE EndLock(t) \/ EndReceiver(t) \/ EndProfile(t)
    <2>1. ~AtRest(t)'
      BY <1>5 DEF EndLock, EndReceiver, EndProfile, AtRest, Types
    <2> QED
      BY <1>3, <1>4, <2>1 DEF Inv1, UpIsOwned
  <1>6. CASE EndDecide(t) /\ ~mStarting
    BY <1>3, <1>4, <1>6 DEF EndDecide, StopsSelf, Inv1, UpIsOwned
  <1>7. CASE EndDecide(t) /\ mStarting
    <2>1. PICK j \in Sessions : starter[j] \in Marked
      BY <1>7 DEF Inv1, StartingIsMarked
    <2>2. ASSUME NEW k \in Sessions, Up(k) \/ starter[k] = "spawn" PROVE starter[j] \in BeforeStop
      <3>1. starter[k] # "spawn"
        BY <2>1 DEF Inv1, OneStarter, StarterBusy, Marked
      <3>2. starter[j] \notin BeforeOpen
        BY <2>2, <3>1 DEF Inv1, OldIsStopped, Up
      <3> QED
        BY <2>1, <3>2 DEF BeforeOpen, BeforeStop, Marked
    <2>3. UpIsOwned'
      BY <1>1, <2>2 DEF UpIsOwned, Up
    <2> QED
      BY <1>3, <1>4, <2>3 DEF Inv1
  <1> QED
    BY <1>5, <1>6, <1>7 DEF EndVpnService

\* When nothing has anything left to do, a process that runs is connected and listed.
LEMMA ThroughOne ==
    ASSUME Inv1, Through
    PROVE  \A j \in Sessions :
               /\ starter[j] \in {"none", "done"}
               /\ pthread[j] # "exec" /\ socket[j] # "starting"
               /\ proc[j] = "alive" => socket[j] = "open" /\ Listed(j)
  <1>1. TAKE j \in Sessions
  <1>2. /\ ~StarterBusy(j)
        /\ \/ socket[j] \in {"none", "gone"}
           \/ socket[j] = "accepting" /\ proc[j] # "alive"
           \/ socket[j] = "open" /\ proc[j] = "alive"
        /\ \/ pthread[j] \in {"none", "ended"} /\ proc[j] # "stopping"
           \/ pthread[j] = "reading" /\ proc[j] = "alive"
    BY DEF Through
  <1>3. proc[j] = "alive" => pthread[j] = "reading"
    BY DEF Inv1, StagesMatch
  <1>4. proc[j] = "alive" => socket[j] \in {"starting", "accepting", "open"}
    BY DEF Inv1, UpIsReachable, Up
  <1>5. socket[j] = "open" => Listed(j)
    BY DEF Inv1, ConnectedIsListed
  <1> QED
    BY <1>2, <1>3, <1>4, <1>5 DEF StarterBusy

\* A start is requested when every session before it is at rest.
LEMMA RequestOne ==
    ASSUME Types, Inv1, NEW k \in Sessions, RequestStart(k), "start" \notin Overlap
    PROVE  Inv1'
  <1> USE DEF BeforeStop, BeforeOpen
  <1>1. Through
    BY DEF RequestStart, MayHappen
  <1>2. \A j \in Sessions :
           /\ starter[j] \in {"none", "done"} /\ pthread[j] # "exec" /\ socket[j] # "starting"
           /\ proc[j] = "alive" => socket[j] = "open"
    BY <1>1, ThroughOne
  <1>3. starter[k] = "none" /\ starter' = [starter EXCEPT ![k] = "tapped"]
    BY DEF RequestStart, Goto
  <1>4. UNCHANGED <<socket, noExitStatus, pthread, posted, mProcessThread, mOpenVPNThread,
                    mManagement, proc, active, mStarting>>
    BY DEF RequestStart
  <1>5. \A j \in Sessions : starter'[j] = IF j = k THEN "tapped" ELSE starter[j]
    BY <1>3 DEF Types
  <1>6. StagesMatch'
    <2> USE DEF StagesMatch
    <2>1. TAKE j \in Sessions
    <2>2. CASE j = k
      BY <1>3, <1>4, <1>5, <2>2 DEF Inv1
    <2>3. CASE j # k
      BY <1>4, <1>5, <2>3 DEF Inv1
    <2> QED
      BY <2>2, <2>3
  <1>7. OneStarter' /\ LatestIsUp' /\ UpIsReachable' /\ OldIsStopped'
    BY <1>2, <1>4, <1>5 DEF Inv1, OneStarter, LatestIsUp, UpIsReachable, OldIsStopped, StarterBusy, Up
  <1>8. ConnectedIsListed' /\ StartingIsMarked'
    BY <1>2, <1>4, <1>5 DEF Inv1, ConnectedIsListed, Listed, StartingIsMarked, Marked
  <1>9. UpIsOwned'
    BY <1>5 DEF UpIsOwned
  <1> QED
    BY <1>6, <1>7, <1>8, <1>9 DEF Inv1

\* The steps of a start that change nothing but where it is and whether it is marked.
LEMMA MoveOne ==
    ASSUME Types, Inv1, NEW k \in Sessions, NEW at \in StarterAt, Goto(k, at),
           \/ starter[k] \in BeforeStop /\ at \in BeforeStop /\ starter[k] # "stopOld"
           \/ starter[k] \in BeforeOpen /\ at \in BeforeOpen
           \/ starter[k] \in BeforeStop \cup BeforeOpen /\ at = "done"
              /\ \E t \in Threads : ~AtRest(t)',
           UNCHANGED <<socket, noExitStatus, pthread, posted, mProcessThread, mOpenVPNThread,
                       mManagement, proc, active>>,
           mStarting' => at \in {"stopOld", "force", "hold", "clear"}
                         \/ (mStarting /\ starter[k] \notin Marked),
           UNCHANGED <<receiver, stopRequested, end>> \/ \E t \in Threads : ~AtRest(t)'
    PROVE  Inv1'
  <1>1. \A j \in Sessions : starter'[j] = IF j = k THEN at ELSE starter[j]
    BY DEF Goto, Types
  <1>2. StagesMatch'
    BY <1>1 DEF Inv1, StagesMatch, BeforeStop, BeforeOpen
  <1>3. OneStarter'
    BY <1>1 DEF Inv1, OneStarter, StarterBusy, BeforeStop, BeforeOpen
  <1>4. LatestIsUp' /\ UpIsReachable' /\ ConnectedIsListed'
    BY <1>1 DEF Inv1, LatestIsUp, UpIsReachable, Up, ConnectedIsListed, Listed, BeforeStop,
                BeforeOpen
  <1>5. OldIsStopped'
    BY <1>1 DEF Inv1, OldIsStopped, BeforeStop, BeforeOpen
  <1>6. StartingIsMarked'
    BY <1>1 DEF Inv1, StartingIsMarked, Marked
  <1>7. UpIsOwned'
    <2>1. CASE \E t \in Threads : ~AtRest(t)'
      BY <2>1 DEF UpIsOwned
    <2>2. CASE UNCHANGED <<receiver, stopRequested, end>> /\ starter[k] \in BeforeStop
               /\ at \in BeforeStop
      BY <1>1, <2>2 DEF UpIsOwned
    <2>3. CASE UNCHANGED <<receiver, stopRequested, end>> /\ starter[k] \in BeforeOpen
               /\ at \in BeforeOpen
      <3>1. \A j \in Sessions : ~Up(j) /\ starter[j] # "spawn"
        BY <2>3 DEF Inv1, OldIsStopped, OneStarter, StarterBusy, Up, BeforeOpen
      <3> QED
        BY <1>1, <2>3, <3>1 DEF UpIsOwned, Up, BeforeOpen
    <2> QED
      BY <2>1, <2>2, <2>3
  <1> QED
    BY <1>2, <1>3, <1>4, <1>5, <1>6, <1>7 DEF Inv1

\* A stop ends the process of every session that is connected and listed.
LEMMA StopReaches ==
    ASSUME Types, NEW m, StopVPN(m), NEW j \in Sessions,
           socket[j] = "open", Listed(j), proc[j] = "alive"
    PROVE  proc'[j] = "stopping"
  BY DEF StopVPN, Listed, Closed, Signalled, Types

\* The process that runs is stopped before the new session opens its interface.
LEMMA StopOldOne ==
    ASSUME Types, Inv1, NEW k \in Sessions, StopOld(k)
    PROVE  Inv1'
  <1> USE DEF BeforeStop, BeforeOpen
  <1>1. /\ starter[k] = "stopOld"
        /\ UNCHANGED <<pthread, posted, mProcessThread, mOpenVPNThread, mManagement, active,
                       mStarting, receiver, stopRequested, end>>
    BY DEF StopOld, StopVPN
  <1>2. PICK at \in {"wait", "force"} : Goto(k, at)
    BY DEF StopOld
  <1>3. \A j \in Sessions : starter'[j] = IF j = k THEN at ELSE starter[j]
    BY <1>2 DEF Goto, Types
  <1>4. \A j \in Sessions :
           /\ socket'[j] = socket[j] \/ (socket[j] = "open" /\ socket'[j] = "closed")
           /\ proc'[j] = proc[j] \/ (proc[j] = "alive" /\ proc'[j] = "stopping")
    BY DEF StopOld, StopVPN, Types, Closed, Signalled
  <1>5. \A j \in Sessions : proc'[j] # "alive" /\ pthread[j] # "exec" /\ socket[j] # "starting"
    <2>1. TAKE j \in Sessions
    <2>2. pthread[j] # "exec" /\ socket[j] # "starting"
      BY <1>1 DEF Inv1, OldIsStopped
    <2>3. ASSUME proc[j] = "alive" PROVE proc'[j] = "stopping"
      <3>1. socket[j] = "open" /\ Listed(j)
        BY <1>1, <2>3 DEF Inv1, OldIsStopped, ConnectedIsListed
      <3>2. mManagement = j /\ mManagement # None
        BY <2>3, ConstantsAssumption DEF Inv1, LatestIsUp, Up
      <3> QED
        BY <2>3, <3>1, <3>2, StopReaches DEF StopOld
    <2> QED
      BY <1>4, <2>2, <2>3
  <1>6. \A j \in Sessions : noExitStatus'[j] = noExitStatus[j] \/ j = mOpenVPNThread
    BY DEF StopOld, Replaced, Types
  <1>7. StagesMatch'
    BY <1>1, <1>3, <1>4, <1>5, <1>6 DEF Inv1, StagesMatch
  <1>8. OneStarter'
    BY <1>1, <1>3 DEF Inv1, OneStarter, StarterBusy
  <1>9. LatestIsUp' /\ UpIsReachable' /\ OldIsStopped'
    BY <1>1, <1>3, <1>4, <1>5
       DEF Inv1, LatestIsUp, UpIsReachable, OldIsStopped, OneStarter, StarterBusy, Up
  <1>10. ConnectedIsListed' /\ StartingIsMarked'
    BY <1>1, <1>3, <1>4 DEF Inv1, ConnectedIsListed, Listed, StartingIsMarked, Marked
  <1>11. UpIsOwned'
    BY <1>1, <1>3, <1>5 DEF Inv1, UpIsOwned, OneStarter, StarterBusy, Up
  <1> QED
    BY <1>7, <1>8, <1>9, <1>10, <1>11 DEF Inv1

\* With no other process up, the new session becomes the latest one.
LEMMA OpenOne ==
    ASSUME Types, Inv1, NEW k \in Sessions, OpenManagement(k), Goto(k, "thread"),
           mManagement' = k, socket' = [socket EXCEPT ![k] = "starting"], UNCHANGED end
    PROVE  Inv1'
  <1> USE DEF BeforeStop, BeforeOpen
  <1>1. /\ starter[k] = "open"
        /\ UNCHANGED <<pthread, posted, mProcessThread, mOpenVPNThread, active, noExitStatus,
                       mStarting, receiver, stopRequested, end, proc>>
    BY DEF OpenManagement
  <1>2. \A j \in Sessions : /\ starter'[j] = IF j = k THEN "thread" ELSE starter[j]
                            /\ socket'[j] = IF j = k THEN "starting" ELSE socket[j]
    BY DEF Goto, Types
  <1>3. \A j \in Sessions : /\ ~Up(j) /\ socket[j] # "starting"
                            /\ j # k => starter[j] \in {"none", "done"}
    BY <1>1 DEF Inv1, OldIsStopped, OneStarter, StarterBusy, Up
  <1>4. StagesMatch'
    BY <1>1, <1>2, <1>3 DEF Inv1, StagesMatch
  <1>5. OneStarter'
    BY <1>2, <1>3 DEF OneStarter, StarterBusy
  <1>6. LatestIsUp' /\ UpIsReachable' /\ OldIsStopped'
    BY <1>1, <1>2, <1>3 DEF Inv1, LatestIsUp, UpIsReachable, OldIsStopped, Up
  <1>7. ConnectedIsListed' /\ StartingIsMarked'
    BY <1>1, <1>2 DEF Inv1, ConnectedIsListed, Listed, StartingIsMarked, Marked
  <1>8. UpIsOwned'
    BY <1>1, <1>2, <1>3 DEF UpIsOwned, Up
  <1> QED
    BY <1>4, <1>5, <1>6, <1>7, <1>8 DEF Inv1

LEMMA FailOne ==
    ASSUME Types, Inv1, NEW k \in Sessions,
           \/ GenerateConfig(k) /\ EndAs(Starter(k)) /\ Goto(k, "done")
           \/ OpenManagement(k) /\ EndAs(Starter(k)) /\ Goto(k, "done")
    PROVE  Inv1'
  <1>1. ~AtRest(Starter(k))'
    BY ThreadsAre DEF EndAs, AtRest, Types
  <1>2. starter[k] \in {"config", "open"}
    BY DEF GenerateConfig, OpenManagement
  <1>3. UNCHANGED <<socket, noExitStatus, pthread, posted, mProcessThread, mOpenVPNThread,
                    mManagement, proc, active, mStarting>>
    BY DEF GenerateConfig, OpenManagement, Goto, Types
  <1>4. starter[k] \in BeforeStop \cup BeforeOpen /\ "done" \in StarterAt
    BY <1>2 DEF StarterAt, BeforeStop, BeforeOpen
  <1>5. \E t \in Threads : ~AtRest(t)'
    BY <1>1, ThreadsAre
  <1>6. mStarting' => mStarting /\ starter[k] \notin Marked
    <2>1. mStarting => \E j \in Sessions : starter[j] \in Marked
      BY DEF Inv1, StartingIsMarked
    <2> QED
      BY <1>2, <1>3, <2>1 DEF Inv1, OneStarter, StarterBusy, Marked
  <1>7. Goto(k, "done")
    OBVIOUS
  <1> QED
    BY <1>3, <1>4, <1>5, <1>6, <1>7, MoveOne

\* The latest session gets its thread, process and registration.
LEMMA LaunchOne ==
    ASSUME Types, Inv1, NEW k \in Sessions, CreateThread(k) \/ StartThread(k) \/ PostRegister(k)
    PROVE  Inv1'
  <1> USE DEF BeforeStop, BeforeOpen
  <1>1. /\ starter[k] \in {"thread", "spawn", "post"} /\ mManagement = k
        /\ UNCHANGED <<socket, noExitStatus, mManagement, active, mStarting, receiver,
                       stopRequested, end, proc>>
    BY DEF CreateThread, StartThread, PostRegister, Inv1, StagesMatch
  <1>2. PICK at \in {"spawn", "post", "done"} : Goto(k, at)
    BY DEF CreateThread, StartThread, PostRegister
  <1>3. \A j \in Sessions : starter'[j] = IF j = k THEN at ELSE starter[j]
    BY <1>2 DEF Goto, Types
  <1>4. \A j \in Sessions : j # k => ~Up(j) /\ starter[j] \in {"none", "done"}
    BY <1>1 DEF Inv1, LatestIsUp, OneStarter, StarterBusy
  <1>5. OneStarter'
    BY <1>3, <1>4 DEF OneStarter, StarterBusy
  <1>6. ConnectedIsListed' /\ StartingIsMarked'
    BY <1>1, <1>3 DEF Inv1, ConnectedIsListed, Listed, StartingIsMarked, Marked
  <1>7. CASE CreateThread(k)
    <2>1. /\ starter[k] = "thread" /\ starter'[k] = "spawn" /\ mOpenVPNThread' = k
          /\ UNCHANGED <<mProcessThread, posted, pthread>>
      BY <1>7, <1>3 DEF CreateThread, Goto, Types
    <2>2. ~Up(k)
      BY <2>1 DEF Inv1, StagesMatch, Up
    <2>3. StagesMatch'
      BY <1>1, <1>3, <1>4, <2>1 DEF Inv1, StagesMatch
    <2>4. LatestIsUp' /\ UpIsReachable' /\ OldIsStopped'
      BY <1>1, <1>3, <1>4, <2>1 DEF Inv1, LatestIsUp, UpIsReachable, OldIsStopped, Up
    <2>5. UpIsOwned'
      BY <1>1, <1>3, <1>4, <2>1, <2>2 DEF UpIsOwned, Owned, Up
    <2> QED
      BY <1>5, <1>6, <2>3, <2>4, <2>5 DEF Inv1
  <1>8. CASE StartThread(k)
    <2>1. /\ starter[k] = "spawn" /\ starter'[k] = "post" /\ mProcessThread' = k
          /\ UNCHANGED <<mOpenVPNThread, posted>>
      BY <1>8, <1>3 DEF StartThread, Goto, Types
    <2>2. \A j \in Sessions : pthread'[j] = IF j = k THEN "exec" ELSE pthread[j]
      BY <1>8 DEF StartThread, Types
    <2>3. StagesMatch'
      BY <1>1, <1>3, <1>4, <2>1, <2>2 DEF Inv1, StagesMatch
    <2>4. LatestIsUp' /\ UpIsReachable' /\ OldIsStopped'
      BY <1>1, <1>3, <1>4, <2>1, <2>2 DEF Inv1, LatestIsUp, UpIsReachable, OldIsStopped, Up
    <2>5. UpIsOwned'
      BY <1>1, <1>3, <1>4, <2>1, <2>2 DEF Inv1, UpIsOwned, Owned, Up, AtRest
    <2> QED
      BY <1>5, <1>6, <2>3, <2>4, <2>5 DEF Inv1
  <1>9. CASE PostRegister(k)
    <2>1. /\ starter[k] = "post" /\ starter'[k] = "done" /\ posted' = posted \cup {k}
          /\ UNCHANGED <<mOpenVPNThread, mProcessThread, pthread>>
      BY <1>9, <1>3 DEF PostRegister, Goto, Types
    <2>2. StagesMatch'
      BY <1>1, <1>3, <1>4, <2>1 DEF Inv1, StagesMatch
    <2>3. LatestIsUp' /\ UpIsReachable' /\ OldIsStopped'
      BY <1>1, <1>3, <1>4, <2>1 DEF Inv1, LatestIsUp, UpIsReachable, OldIsStopped, Up
    <2>4. UpIsOwned'
      BY <1>1, <1>3, <1>4, <2>1 DEF Inv1, UpIsOwned, Owned, Up, AtRest
    <2> QED
      BY <1>5, <1>6, <2>2, <2>3, <2>4 DEF Inv1
  <1> QED
    BY <1>7, <1>8, <1>9

LEMMA RegisterOne == ASSUME Types, Inv1, NEW k \in Sessions, RegisterReceiver(k) PROVE Inv1'
  <1>1. /\ posted' = posted \ {k} /\ receiver' = mManagement
        /\ UNCHANGED <<starter, socket, noExitStatus, pthread, mProcessThread, mOpenVPNThread,
                       mManagement, proc, active, mStarting, stopRequested, end>>
    BY DEF RegisterReceiver
  <1>2. StagesMatch' /\ OneStarter' /\ LatestIsUp' /\ UpIsReachable' /\ OldIsStopped'
    BY <1>1 DEF Inv1, StagesMatch, OneStarter, LatestIsUp, UpIsReachable, OldIsStopped, StarterBusy,
                Up
  <1>3. ConnectedIsListed' /\ StartingIsMarked'
    BY <1>1 DEF Inv1, ConnectedIsListed, Listed, StartingIsMarked
  <1>4. UpIsOwned'
    <2>1. ASSUME NEW j \in Sessions, Up(j) \/ starter[j] = "spawn" PROVE mManagement = j
      BY <2>1 DEF Inv1, LatestIsUp, StagesMatch
    <2> QED
      BY <1>1, <2>1 DEF Inv1, UpIsOwned, Owned, Up, AtRest
  <1> QED
    BY <1>2, <1>3, <1>4 DEF Inv1

LEMMA StartOne ==
    ASSUME Types, Inv1, NEW k \in Sessions,
           RequestStart(k) \/ StartOpenVPN(k) \/ RegisterReceiver(k), "start" \notin Overlap
    PROVE  Inv1'
  <1> USE DEF BeforeStop, BeforeOpen, Marked, StarterAt
  <1>1. CASE OnStartCommand(k)
    BY <1>1, MoveOne DEF OnStartCommand
  <1>2. CASE GenerateConfig(k)
    <2>1. CASE Goto(k, "mark") /\ UNCHANGED end
      BY <1>2, <2>1, MoveOne DEF GenerateConfig
    <2> QED
      BY <1>2, <2>1, FailOne DEF GenerateConfig
  <1>3. CASE MarkStarting(k)
    BY <1>3, MoveOne DEF MarkStarting
  <1>4. CASE Wait(k)
    BY <1>4, MoveOne DEF Wait
  <1>5. CASE ForceStop(k)
    BY <1>5, MoveOne DEF ForceStop
  <1>6. CASE ForceStopped(k)
    BY <1>6, MoveOne DEF ForceStopped, ForceStopSlept
  <1>7. CASE ClearStarting(k)
    BY <1>7, MoveOne DEF ClearStarting
  <1>8. CASE OpenManagement(k)
    BY <1>8, OpenOne, FailOne DEF OpenManagement
  <1> QED
    BY <1>1, <1>2, <1>3, <1>4, <1>5, <1>6, <1>7, <1>8, RequestOne, StopOldOne, LaunchOne,
       RegisterOne DEF StartOpenVPN

\* The threads of a session, and its process, only go on to their ends.
LEMMA SessionOne ==
    ASSUME Types, Inv1, NEW k \in Sessions,
           \/ MgmtThread(k) \/ ProcSays(k) \/ ProcessThread(k) \/ ReadInterrupted(k)
           \/ ProcStops(k) \/ ProcGivesUp(k)
    PROVE  Inv1'
  <1> DEFINE Sockets == \A j \in Sessions : socket'[j] = IF j = k THEN socket'[k] ELSE socket[j]
             Procs == \A j \in Sessions : /\ proc'[j] = IF j = k THEN proc'[k] ELSE proc[j]
                                          /\ pthread'[j] = IF j = k THEN pthread'[k] ELSE pthread[j]
  <1>1. CASE ActiveAdd(k) \/ Accept(k) \/ MgmtEnds(k)
    <2>1. /\ Sockets
          /\ UNCHANGED <<starter, noExitStatus, pthread, posted, mProcessThread, mOpenVPNThread,
                         mManagement, proc, mStarting, receiver, stopRequested, end>>
      BY <1>1 DEF ActiveAdd, Accept, MgmtEnds, Types
    <2>2. \/ socket[k] = "starting" /\ socket'[k] = "accepting"
          \/ socket[k] = "accepting" /\ socket'[k] = "open" /\ proc[k] = "alive"
          \/ (socket[k] = "closed" \/ proc[k] = "dead") /\ socket'[k] = "gone"
      BY <1>1 DEF ActiveAdd, Accept, MgmtEnds, Types
    <2>3. socket[k] # "none"
      BY <1>1 DEF ActiveAdd, Accept, MgmtEnds
    <2>4. StagesMatch' /\ OneStarter' /\ LatestIsUp'
      BY <2>1, <2>2, <2>3 DEF Inv1, StagesMatch, OneStarter, LatestIsUp, StarterBusy, Up
    <2>5. UpIsReachable' /\ OldIsStopped'
      BY <2>1, <2>2, <2>3 DEF Inv1, UpIsReachable, OldIsStopped, StagesMatch, Up
    <2>6. \A j \in Sessions : Listed(j) /\ socket'[j] # "gone" => Listed(j)'
      <3>1. CASE ActiveAdd(k)
        <4>1. active \in Seq(Sessions) /\ active' = Append(active, k)
          BY <3>1 DEF ActiveAdd, Types
        <4>2. \A i \in DOMAIN active : i \in DOMAIN active' /\ active'[i] = active[i]
          BY <4>1
        <4> QED
          BY <4>2 DEF Listed
      <3>2. CASE Accept(k)
        BY <3>2 DEF Accept, Listed
      <3>3. CASE MgmtEnds(k)
        BY <3>3, WithoutKeeps DEF MgmtEnds, Listed, Types
      <3> QED
        BY <1>1, <3>1, <3>2, <3>3
    <2>7. CASE ActiveAdd(k)
      <3>1. Listed(k)'
        BY <2>7 DEF ActiveAdd, Listed, Types
      <3> QED
        BY <2>1, <2>4, <2>5, <2>6, <3>1 DEF Inv1, ConnectedIsListed, StartingIsMarked, UpIsOwned,
                                           Owned, Up, AtRest
    <2>8. CASE socket[k] # "starting"
      <3>1. ConnectedIsListed'
        BY <2>1, <2>2, <2>6, <2>8 DEF Inv1, ConnectedIsListed
      <3> QED
        BY <2>1, <2>4, <2>5, <3>1 DEF Inv1, StartingIsMarked, UpIsOwned, Owned, Up, AtRest
    <2> QED
      BY <1>1, <2>7, <2>8 DEF Accept, MgmtEnds
  <1>2. CASE ReadState(k) \/ ShowState(k) \/ ProcSays(k)
    BY <1>2, SameOne DEF ReadState, ShowState, ProcSays, StepVars
  <1>3. CASE ProcessThread(k) \/ ReadInterrupted(k) \/ ProcStops(k) \/ ProcGivesUp(k)
    <2>1. /\ Procs
          /\ UNCHANGED <<starter, socket, noExitStatus, posted, mProcessThread, mOpenVPNThread,
                         mManagement, active, mStarting, receiver, stopRequested>>
      BY <1>3 DEF ProcessThread, Exec, ReadEnds, WaitFor, ProcessDied, ReadInterrupted, ProcStops,
                  ProcGivesUp, ProcExits, Types
    <2>2. /\ pthread[k] # "none" /\ pthread'[k] \notin {"none", "exec"}
          /\ proc[k] # "none" => proc'[k] # "none"
          /\ proc'[k] = "alive" => pthread'[k] = "reading" /\ Up(k)
      <3>1. /\ pthread[k] = "none" => proc[k] = "none"
            /\ pthread[k] = "exec" => proc[k] = "none"
            /\ proc[k] = "alive" => pthread[k] = "reading"
        BY DEF Inv1, StagesMatch
      <3>2. CASE ProcessThread(k)
        BY <3>1, <3>2 DEF ProcessThread, Exec, ReadEnds, WaitFor, ProcessDied, Types, Up
      <3>3. CASE ReadInterrupted(k) \/ ProcStops(k) \/ ProcGivesUp(k)
        BY <3>1, <3>3 DEF ReadInterrupted, ProcStops, ProcGivesUp, ProcExits, Types, Up
      <3> QED
        BY <1>3, <3>2, <3>3
    <2>3. StagesMatch' /\ OneStarter' /\ LatestIsUp' /\ UpIsReachable' /\ OldIsStopped'
      BY <2>1, <2>2 DEF Inv1, StagesMatch, OneStarter, LatestIsUp, UpIsReachable, OldIsStopped,
                        StarterBusy, Up
    <2>4. ConnectedIsListed' /\ StartingIsMarked'
      BY <2>1 DEF Inv1, ConnectedIsListed, Listed, StartingIsMarked
    <2>5. \A t \in Threads : ~AtRest(t) => ~AtRest(t)'
      BY <1>3 DEF ProcessThread, Exec, ReadEnds, WaitFor, ProcessDied, ReadInterrupted, ProcStops,
                  ProcGivesUp, ProcExits, Types, AtRest, EndAs
    <2>6. UpIsOwned'
      BY <2>1, <2>2, <2>5 DEF Inv1, UpIsOwned, Owned, Up
    <2> QED
      BY <2>3, <2>4, <2>6 DEF Inv1
  <1> QED
    BY <1>1, <1>2, <1>3 DEF MgmtThread

LEMMA UserOne ==
    ASSUME Types, Inv1,
           \/ SetConnectedProfile \/ OpenDialog \/ ConfirmDialog \/ CancelDialog
           \/ DisconnectIntent \/ OnRevoke \/ OnDestroy
    PROVE  Inv1'
  <1>1. CASE SetConnectedProfile \/ OpenDialog \/ CancelDialog
    BY <1>1, SameOne DEF SetConnectedProfile, OpenDialog, CancelDialog, StepVars
  <1>2. CASE ConfirmDialog \/ DisconnectIntent
    <2>1. CASE mManagement = None
      BY <1>2, <2>1, SameOne DEF ConfirmDialog, DisconnectIntent, StopSession, StepVars
    <2>2. CASE StopVPN(mManagement)
      BY <1>2, <2>2, StopOne DEF ConfirmDialog, DisconnectIntent
    <2> QED
      BY <1>2, <2>1, <2>2 DEF ConfirmDialog, DisconnectIntent, StopSession
  <1>3. CASE OnRevoke
    <2>1. ~AtRest(Main)'
      BY <1>3, ThreadsAre DEF OnRevoke, EndAs, AtRest, Types
    <2> QED
      BY <1>3, <2>1, ThreadsAre, StopOne DEF OnRevoke
  <1>4. CASE OnDestroy
    <2>1. /\ stopRequested'
          /\ UNCHANGED <<starter, noExitStatus, pthread, posted, mProcessThread, mOpenVPNThread,
                         mManagement, mStarting>>
      BY <1>4 DEF OnDestroy
    <2>2. CASE StopVPN(mManagement)
      BY <2>1, <2>2, StopOne
    <2>3. CASE UNCHANGED <<mgmt, proc>>
      <3>1. StagesMatch' /\ OneStarter' /\ LatestIsUp' /\ UpIsReachable' /\ OldIsStopped'
        BY <2>1, <2>3 DEF Inv1, StagesMatch, OneStarter, LatestIsUp, UpIsReachable, OldIsStopped,
                          StarterBusy, Up
      <3>2. ConnectedIsListed' /\ StartingIsMarked' /\ UpIsOwned'
        BY <2>1, <2>3 DEF Inv1, ConnectedIsListed, Listed, StartingIsMarked, UpIsOwned
      <3> QED
        BY <3>1, <3>2 DEF Inv1
    <2> QED
      BY <1>4, <2>2, <2>3 DEF OnDestroy
  <1> QED
    BY <1>1, <1>2, <1>3, <1>4

\* Starts that do not overlap keep one session up, known to the service and
\* reachable, whatever stops, exits and failures fall into them.
THEOREM OneSessionUp ==
    ASSUME "start" \notin Overlap
    PROVE  Spec => []Inv1
  <1>1. Types /\ Inv1 /\ [Next]_vars => Inv1'
    <2> SUFFICES ASSUME Types, Inv1, [Next]_vars PROVE Inv1'
      OBVIOUS
    <2>1. CASE UNCHANGED vars
      BY <2>1, SameOne DEF StepVars
    <2> QED
      BY <2>1, EndOne, StartOne, SessionOne, UserOne DEF Next
  <1> QED
    BY InitOne, <1>1, TypeCorrect, TypesAre, PTL DEF Spec

LEMMA RunningAre == Running \subseteq Sessions /\ \A k \in Running : Up(k)
  BY DEF Running, Up

\* If no start falls into one still under way, one process at most is left
\* running: startOpenVPN() has stopped the one before, however late it ends.
THEOREM AtMostOneProcess ==
    ASSUME "start" \notin Overlap
    PROVE  Spec => []OneProcess
  <1>1. Types /\ Inv1 => OneProcess
    <2> SUFFICES ASSUME Inv1 PROVE Cardinality(Running) <= 1
      BY DEF OneProcess
    <2>1. Running \subseteq {mManagement}
      BY RunningAre DEF Inv1, LatestIsUp
    <2>2. IsFiniteSet({mManagement}) /\ Cardinality({mManagement}) = 1
      BY FS_Singleton
    <2>3. Cardinality(Running) <= Cardinality({mManagement})
      BY <2>1, <2>2, FS_Subset
    <2> QED
      BY <2>2, <2>3
  <1> QED
    BY <1>1, OneSessionUp, TypeCorrect, TypesAre, PTL

\* If no start falls into one still under way, a VPN that runs is the one the
\* fields of the service name: no endVpnService() of an older session took them.
THEOREM TheRunningIsOwned ==
    ASSUME "start" \notin Overlap
    PROVE  Spec => []RunningIsOwned
  <1>1. Inv1 => RunningIsOwned
    <2> SUFFICES ASSUME Inv1, Quiet, serviceUp, NEW k \in Running
                 PROVE  mManagement = k /\ mOpenVPNThread = k /\ mProcessThread = k
                        /\ receiver = k
      BY DEF RunningIsOwned
    <2>1. k \in Sessions /\ Up(k)
      BY RunningAre
    <2>2. mManagement = k
      BY <2>1 DEF Inv1, LatestIsUp
    <2>3. ~stopRequested /\ posted = {} /\ \A t \in Threads : AtRest(t)
      BY DEF Quiet, Through
    <2>4. \A j \in Sessions : starter[j] \in {"none", "done"}
      BY DEF Quiet, Through, StarterBusy
    <2>5. Owned(k)
      BY <2>1, <2>3, <2>4 DEF Inv1, UpIsOwned, OneStarter, StagesMatch, BeforeStop
    <2> QED
      BY <2>2, <2>3, <2>4, <2>5, <2>1 DEF Owned
  <1> QED
    BY <1>1, OneSessionUp, PTL

-----------------------------------------------------------------------------
(* A stop is kept                                                           *)

\* Disconnect and revocation, with nothing under way, end what is up.
LEMMA StopDown ==
    ASSUME Types, Inv1, Through,
           \/ mManagement = None /\ UNCHANGED <<mgmt, proc>>
           \/ mManagement # None /\ StopVPN(mManagement),
           UNCHANGED <<starter, pthread>>
    PROVE  \A k \in Sessions : ~Up(k)' /\ ~StarterBusy(k)'
  <1>1. TAKE k \in Sessions
  <1>2. starter[k] \in {"none", "done"} /\ pthread[k] # "exec"
    BY ThroughOne
  <1>3. proc'[k] # "alive"
    <2>1. CASE proc[k] = "alive"
      <3>1. mManagement = k /\ mManagement # None
        BY <2>1, ConstantsAssumption DEF Inv1, LatestIsUp, Up
      <3> QED
        BY <2>1, <3>1, ThroughOne, StopReaches
    <2>2. CASE proc[k] # "alive"
      BY <2>2 DEF StopVPN, Types
    <2> QED
      BY <2>1, <2>2
  <1> QED
    BY <1>2, <1>3 DEF Up, StarterBusy

\* After a stop nothing is up and nothing starts.
LEMMA DownStep ==
    ASSUME Types, Inv1, StoppedIsDown, [Next]_vars,
           "start" \notin Overlap, "stop" \notin Overlap
    PROVE  StoppedIsDown'
  <1>1. CASE wanted' # None
    BY <1>1 DEF StoppedIsDown
  <1>2. ASSUME UNCHANGED <<starter, wanted>>, \A k \in Sessions : Up(k)' => Up(k)
        PROVE  StoppedIsDown'
    BY <1>2 DEF StoppedIsDown, StarterBusy
  <1>3. CASE UNCHANGED vars
    BY <1>2, <1>3 DEF Up
  <1>4. ASSUME NEW k \in Sessions, RequestStart(k) PROVE StoppedIsDown'
    BY <1>1, <1>4, ConstantsAssumption DEF RequestStart
  <1>5. ASSUME NEW k \in Sessions, StartOpenVPN(k) PROVE StoppedIsDown'
    <2>1. StarterBusy(k) /\ wanted' = wanted
      BY <1>5 DEF StartOpenVPN, OnStartCommand, GenerateConfig, MarkStarting, StopOld, Wait,
                  ForceStop, ForceStopped, ForceStopSlept, ClearStarting, OpenManagement,
                  CreateThread, StartThread, PostRegister, StarterBusy
    <2> QED
      BY <2>1 DEF StoppedIsDown
  <1>6. ASSUME NEW k \in Sessions,
               MgmtThread(k) \/ ProcSays(k) \/ ProcessThread(k) \/ ReadInterrupted(k)
               \/ ProcStops(k) \/ ProcGivesUp(k) \/ RegisterReceiver(k)
        PROVE  StoppedIsDown'
    <2>1. UNCHANGED <<starter, wanted>>
      BY <1>6 DEF MgmtThread, ActiveAdd, Accept, ReadState, ShowState, MgmtEnds, ProcSays,
                  ProcessThread, Exec, ReadEnds, WaitFor, ProcessDied, ReadInterrupted, ProcStops, ProcGivesUp, ProcExits,
                  RegisterReceiver
    <2>2. ASSUME NEW j \in Sessions, Up(j)' PROVE Up(j)
      BY <1>6, <2>2 DEF Up, Types, MgmtThread, ActiveAdd, Accept, ReadState, ShowState,
                  MgmtEnds, ProcSays, ProcessThread, Exec, ReadEnds, WaitFor, ProcessDied, ReadInterrupted, ProcStops,
                  ProcGivesUp, ProcExits, RegisterReceiver
    <2> QED
      BY <1>2, <2>1, <2>2
  <1>7. ASSUME NEW t \in Threads, EndVpnService(t) PROVE StoppedIsDown'
    BY <1>2, <1>7 DEF EndVpnService, EndLock, EndReceiver, EndProfile, EndDecide, Up
  <1>8. CASE SetConnectedProfile \/ OpenDialog \/ CancelDialog
    BY <1>2, <1>8 DEF SetConnectedProfile, OpenDialog, CancelDialog, Up
  <1>9. CASE ConfirmDialog \/ DisconnectIntent \/ OnRevoke
    <2>1. Through /\ UNCHANGED <<starter, pthread>>
      BY <1>9 DEF ConfirmDialog, DisconnectIntent, OnRevoke, MayHappen
    <2>2. \/ mManagement = None /\ UNCHANGED <<mgmt, proc>>
          \/ mManagement # None /\ StopVPN(mManagement)
      BY <1>9 DEF ConfirmDialog, DisconnectIntent, OnRevoke, StopSession
    <2> QED
      BY <2>1, <2>2, StopDown DEF StoppedIsDown
  <1>10. CASE OnDestroy
    BY <1>2, <1>10 DEF OnDestroy, Up, StopVPN, Types
  <1> QED
    BY <1>3, <1>4, <1>5, <1>6, <1>7, <1>8, <1>9, <1>10 DEF Next

\* A Disconnect or a revocation that does not fall into a start ends the process of the
\* VPN that runs, and no thread that was on its way brings one up again.
THEOREM StopsAreKept ==
    ASSUME "start" \notin Overlap, "stop" \notin Overlap
    PROVE  Spec => []StopIsKept
  <1>1. Init => StoppedIsDown
    BY DEF Init, StoppedIsDown, Up, StarterBusy
  <1>2. Types /\ Inv1 /\ StoppedIsDown /\ [Next]_vars => StoppedIsDown'
    BY DownStep
  <1>3. StoppedIsDown => StopIsKept
    BY RunningAre DEF StoppedIsDown, StopIsKept
  <1> QED
    BY <1>1, <1>2, <1>3, OneSessionUp, TypeCorrect, TypesAre, PTL DEF Spec

\* The profile a restarted service would connect to is forgotten with the stop.
LEMMA ForgottenStep ==
    ASSUME Types, StoppedIsForgotten, [Next]_vars, "stop" \notin Overlap
    PROVE  StoppedIsForgotten'
  <1> DEFINE OnItsWay == end[Main] \in {"lock", "receiver", "profile"}
  <1>1. CASE wanted' # None
    BY <1>1 DEF StoppedIsForgotten
  <1>2. ASSUME UNCHANGED <<delivering, wanted, lastProfile>>, OnItsWay => OnItsWay',
               \A k \in Sessions : starter'[k] = "tapped" => starter[k] = "tapped"
        PROVE  StoppedIsForgotten'
    BY <1>2 DEF StoppedIsForgotten
  <1>3. CASE UNCHANGED vars
    BY <1>2, <1>3
  <1>4. ASSUME NEW k \in Sessions, RequestStart(k) PROVE StoppedIsForgotten'
    BY <1>1, <1>4, ConstantsAssumption DEF RequestStart
  <1>5. ASSUME NEW k \in Sessions, OnStartCommand(k) PROVE StoppedIsForgotten'
    BY <1>5 DEF OnStartCommand, StoppedIsForgotten
  <1>6. CASE SetConnectedProfile
    BY <1>6 DEF SetConnectedProfile, StoppedIsForgotten
  <1>7. ASSUME NEW k \in Sessions, StartOpenVPN(k), ~OnStartCommand(k) PROVE StoppedIsForgotten'
    <2>1. UNCHANGED <<delivering, wanted, lastProfile>>
      BY <1>7 DEF StartOpenVPN, GenerateConfig, MarkStarting, StopOld, Wait, ForceStop,
                  ForceStopped, ClearStarting, OpenManagement, CreateThread, StartThread,
                  PostRegister
    <2>2. OnItsWay => OnItsWay'
      BY <1>7, ThreadsDiffer, ThreadsAre
         DEF StartOpenVPN, GenerateConfig, MarkStarting, StopOld, Wait, ForceStop,
             ForceStopped, ClearStarting, OpenManagement, CreateThread, StartThread,
             PostRegister, EndAs, Types
    <2>3. PICK at \in StarterAt \ {"tapped"} : Goto(k, at)
      BY <1>7 DEF StartOpenVPN, GenerateConfig, MarkStarting, StopOld, Wait, ForceStop,
                  ForceStopped, ForceStopSlept, ClearStarting, OpenManagement, CreateThread,
                  StartThread, PostRegister, StarterAt
    <2> QED
      BY <1>2, <2>1, <2>2, <2>3 DEF Goto, Types
  <1>8. ASSUME NEW k \in Sessions,
               MgmtThread(k) \/ ProcSays(k) \/ ProcessThread(k) \/ ReadInterrupted(k)
               \/ ProcStops(k) \/ ProcGivesUp(k) \/ RegisterReceiver(k)
        PROVE  StoppedIsForgotten'
    <2>1. UNCHANGED <<starter, delivering, wanted, lastProfile>>
      BY <1>8 DEF MgmtThread, ActiveAdd, Accept, ReadState, ShowState, MgmtEnds, ProcSays,
                  ProcessThread, Exec, ReadEnds, WaitFor, ProcessDied, ReadInterrupted, ProcStops, ProcGivesUp, ProcExits,
                  RegisterReceiver
    <2>2. end'[Main] = end[Main]
      BY <1>8, ThreadsDiffer, ThreadsAre
         DEF MgmtThread, ActiveAdd, Accept, ReadState, ShowState, MgmtEnds, ProcSays,
             ProcessThread, Exec, ReadEnds, WaitFor, ProcessDied, ReadInterrupted, ProcStops, ProcGivesUp, ProcExits,
             RegisterReceiver, EndAs, Types
    <2> QED
      BY <1>2, <2>1, <2>2
  <1>9. ASSUME NEW t \in Threads, EndVpnService(t) PROVE StoppedIsForgotten'
    <2>1. UNCHANGED <<starter, delivering, wanted>>
      BY <1>9 DEF EndVpnService, EndLock, EndReceiver, EndProfile, EndDecide
    <2>2. CASE EndProfile(t)
      BY <2>1, <2>2 DEF EndProfile, StoppedIsForgotten
    <2>3. CASE EndLock(t) \/ EndReceiver(t) \/ EndDecide(t)
      <3>1. lastProfile' = lastProfile /\ (OnItsWay => OnItsWay')
        BY <2>3, ThreadsAre DEF EndLock, EndReceiver, EndDecide, Types
      <3> QED
        BY <1>2, <2>1, <3>1
    <2> QED
      BY <1>9, <2>2, <2>3 DEF EndVpnService
  <1>10. CASE OpenDialog \/ CancelDialog \/ OnDestroy
    BY <1>2, <1>10 DEF OpenDialog, CancelDialog, OnDestroy
  <1>11. CASE ConfirmDialog \/ DisconnectIntent
    BY <1>11 DEF ConfirmDialog, DisconnectIntent, MayHappen, StopSession, Through, StarterBusy,
                 StoppedIsForgotten
  <1>12. CASE OnRevoke
    <2>1. OnItsWay'
      BY <1>12, ThreadsAre DEF OnRevoke, EndAs, Types
    <2> QED
      BY <1>12, <2>1 DEF OnRevoke, MayHappen, Through, StarterBusy, StoppedIsForgotten
  <1> QED
    BY <1>3, <1>4, <1>5, <1>6, <1>7, <1>8, <1>9, <1>10, <1>11, <1>12 DEF Next

\* A service that the system restarts does not bring back a VPN stopped by a
\* Disconnect or a revocation that does not fall into a start.
THEOREM NothingRevives ==
    ASSUME "stop" \notin Overlap
    PROVE  Spec => []NoRevival
  <1>1. Init => StoppedIsForgotten
    BY DEF Init, StoppedIsForgotten
  <1>2. Types /\ StoppedIsForgotten /\ [Next]_vars => StoppedIsForgotten'
    BY ForgottenStep
  <1>3. StoppedIsForgotten => NoRevival
    BY ThreadsAre DEF StoppedIsForgotten, NoRevival, Quiet, Through, AtRest
  <1> QED
    BY <1>1, <1>2, <1>3, TypeCorrect, TypesAre, PTL DEF Spec
=============================================================================
