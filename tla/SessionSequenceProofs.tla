------------------------ MODULE SessionSequenceProofs ------------------------
(***************************************************************************)
(* Proofs about SessionLifecycle when starts, stops and exits do not       *)
(* overlap, old sessions end within the sleeps, and nothing fails but the  *)
(* process to start.  Rests on the invariant Inv1 of SessionLifecycleProofs. *)
(***************************************************************************)
EXTENDS SessionLifecycleProofs

Sequential == Overlap = {} /\ Prompt /\ Faults \subseteq {"exec"}

-----------------------------------------------------------------------------
(* The inductive invariant                                                  *)

BeforeSpawn == {"force", "hold", "clear", "open", "thread", "spawn"}
Starting == {"mark", "stopOld", "wait"} \cup BeforeSpawn

AllAtRest == \A t \in Threads : AtRest(t)

Over(j) == pthread[j] \in {"none", "ended"} /\ AtRest(Process(j))

\* The sessions before the latest one are over, and a start waits for the latest one.
OldIsOver ==
    \A j, k \in Sessions :
        /\ j # mManagement => Over(j)
        /\ starter[k] \in BeforeStop => AllAtRest /\ (Over(j) \/ Up(j))
        /\ starter[k] \in Marked => mStarting
        /\ starter[k] = "wait" =>
               /\ AtRest(Main)
               /\ Over(j) \/ (noExitStatus[j] /\ proc[j] \in {"stopping", "dead"})
        /\ starter[k] \in BeforeSpawn => AllAtRest /\ Over(j)

\* Threads are in endVpnService() only where a session has ended or was revoked.
EndsAreJustified ==
    \A k \in Sessions :
        /\ AtRest(Starter(k))
        /\ ~AtRest(Process(k)) => pthread[k] = "ended"
        /\ ~AtRest(Main) \/ stopRequested => ~Up(k) /\ starter[k] \in {"none", "post", "done"}

\* A session that is up is owned by the service and hears of stops, nobody is in
\* endVpnService(), and its thread was not interrupted.
UpIsOwnedNow ==
    \A k \in Sessions :
        /\ Up(k) => Owned(k) /\ AllAtRest /\ ~interrupted[k] /\ status # "NOPROCESS"
        /\ starter[k] \in {"none"} \cup BeforeStop \cup {"wait"} \cup BeforeSpawn => ~interrupted[k]
        /\ starter[k] \in Starting => status # "NOPROCESS"

\* The stop of a start reaches the latest session: its thread is the last one listed.
LatestIsLast ==
    mManagement # None /\ socket[mManagement] \in {"accepting", "open"} =>
        active # <<>> /\ active[Len(active)] = mManagement

\* Only a session that was replaced, or is about to be, ends without a word.
ReplacedEndSilently ==
    \A j \in Sessions :
        noExitStatus[j] => j # mManagement \/ \E k \in Sessions : starter[k] \in BeforeOpen

\* A VPN shown as active is starting, or runs and will say when it is gone, or is
\* shown by a line that came after that.
ActiveIsThere ==
    IsVPNActive /\ ~late =>
        \/ \E k \in Sessions : starter[k] \in Starting
        \/ /\ mManagement # None /\ ~noExitStatus[mManagement]
           /\ pthread[mManagement] \in {"exec", "reading", "waitFor", "died"}

\* Lines come from processes that were started.
LinesHaveThreads ==
    \A k \in Sessions : unread[k] # "none" \/ line[k] # "none" => pthread[k] # "none"

\* Behind the open dialog nothing starts or ends, and the VPN is running, unless it was
\* only a late line that showed it.
DialogIsCurrent ==
    dialog =>
        /\ \A k \in Sessions :
              /\ ~StarterBusy(k)
              /\ pthread[k] \in {"none", "ended"} \/ (proc[k] = "alive" /\ ~noExitStatus[k])
        /\ late \/ \E k \in Sessions : proc[k] = "alive" /\ ~noExitStatus[k]

DestroyedIsStopped == ~serviceUp => stopRequested

Inv2 ==
    /\ OldIsOver /\ EndsAreJustified /\ UpIsOwnedNow /\ LatestIsLast
    /\ ReplacedEndSilently /\ ActiveIsThere /\ LinesHaveThreads /\ DialogIsCurrent
    /\ DestroyedIsStopped

-----------------------------------------------------------------------------
(* What the invariants say together                                         *)

USE DEF service, shown, mgmt, threads, user, vars

\* While a start is under way the others are at rest.
LEMMA Alone ==
    ASSUME Inv1, NEW k \in Sessions, StarterBusy(k), NEW j \in Sessions, j # k
    PROVE  starter[j] \in {"none", "done"}
  BY DEF Inv1, OneStarter, StarterBusy

\* A process thread at work is that of the latest session; no process is up
\* beside it, and it is not waited for unless it was told to end silently.
LEMMA WorkingIsLatest ==
    ASSUME Inv1, Inv2, NEW k \in Sessions, pthread[k] \in {"exec", "reading", "waitFor", "died"}
    PROVE  /\ mManagement = k
           /\ \A j \in Sessions : Up(j) => j = k
           /\ \A j \in Sessions : starter[j] \notin BeforeSpawn
           /\ ~Up(k) => \A j \in Sessions : starter[j] \notin BeforeStop
           /\ \A j \in Sessions : starter[j] = "wait" =>
                  noExitStatus[k] /\ proc[k] \in {"stopping", "dead"}
  <1>1. ~Over(k)
    BY DEF Over
  <1>2. mManagement = k
    BY <1>1 DEF Inv2, OldIsOver
  <1>3. \A j \in Sessions : Up(j) => j = k
    BY <1>2 DEF Inv1, LatestIsUp
  <1> QED
    BY <1>1, <1>2, <1>3 DEF Inv2, OldIsOver

\* While a thread is in endVpnService() nothing is up and no start is under way but one
\* that waits for the end.
LEMMA EndingIsAlone ==
    ASSUME Types, Inv2, NEW t \in Threads, ~AtRest(t), NEW k \in Sessions
    PROVE  ~Up(k) /\ starter[k] \in {"none", "post", "done", "wait"}
  <1>1. ~AllAtRest
    BY DEF AllAtRest
  <1>2. ~Up(k)
    BY <1>1 DEF Inv2, UpIsOwnedNow
  <1>3. starter[k] \notin BeforeStop \cup BeforeSpawn
    BY <1>1 DEF Inv2, OldIsOver
  <1> QED
    BY <1>2, <1>3 DEF Types, StarterAt, BeforeStop, BeforeSpawn

LEMMA InitTwo == Init => Inv2
  <1> SUFFICES ASSUME Init PROVE Inv2
    OBVIOUS
  <1>1. \A k \in Sessions : /\ starter[k] = "none" /\ pthread[k] = "none" /\ proc[k] = "none"
                            /\ ~noExitStatus[k] /\ ~interrupted[k]
    BY DEF Init
  <1>2. \A t \in Threads : AtRest(t)
    BY DEF Init, AtRest
  <1>3. OldIsOver /\ EndsAreJustified /\ UpIsOwnedNow
    BY <1>1, <1>2, ThreadsAre
       DEF Init, OldIsOver, EndsAreJustified, UpIsOwnedNow, Over, AllAtRest, Up, BeforeStop,
           BeforeSpawn, Marked, Starting
  <1>4. LatestIsLast /\ ReplacedEndSilently /\ ActiveIsThere /\ DialogIsCurrent /\ DestroyedIsStopped
    BY <1>1 DEF Init, LatestIsLast, ReplacedEndSilently, ActiveIsThere, DialogIsCurrent,
                DestroyedIsStopped, IsVPNActive
  <1>5. LinesHaveThreads
    BY DEF Init, LinesHaveThreads
  <1> QED
    BY <1>3, <1>4, <1>5 DEF Inv2

TwoVars == <<pthread, end, starter, mManagement, proc, noExitStatus, mStarting, stopRequested,
             mOpenVPNThread, mProcessThread, posted, receiver, interrupted, shown, socket,
             active, unread, line, dialog, serviceUp>>

LEMMA SameTwo == ASSUME Inv2, UNCHANGED TwoVars PROVE Inv2'
  <1> USE DEF TwoVars
  <1>1. (OldIsOver /\ EndsAreJustified /\ UpIsOwnedNow)'
    BY DEF Inv2, OldIsOver, EndsAreJustified, UpIsOwnedNow, Over, AllAtRest, AtRest, Up, Owned
  <1>2. (LatestIsLast /\ ReplacedEndSilently /\ ActiveIsThere /\ LinesHaveThreads
         /\ DialogIsCurrent /\ DestroyedIsStopped)'
    BY DEF Inv2, LatestIsLast, ReplacedEndSilently, ActiveIsThere, LinesHaveThreads,
           DialogIsCurrent, DestroyedIsStopped, IsVPNActive, StarterBusy
  <1> QED
    BY <1>1, <1>2 DEF Inv2

-----------------------------------------------------------------------------
(* endVpnService()                                                          *)

LEMMA EndTwo ==
    ASSUME Types, Inv1, Inv2, NEW t \in Threads, EndVpnService(t), Sequential
    PROVE  Inv2'
  <1>1. /\ UNCHANGED <<pthread, starter, mManagement, proc, noExitStatus, mStarting, posted,
                       interrupted, shown, socket, active, unread, line, dialog, serviceUp>>
        /\ stopRequested => stopRequested'
        /\ stopRequested' => stopRequested \/ ~mStarting
    <2>1. CASE EndLock(t) \/ EndReceiver(t) \/ EndProfile(t)
      BY <2>1 DEF EndLock, EndReceiver, EndProfile
    <2>2. CASE EndDecide(t)
      BY <2>2 DEF EndDecide, StopsSelf
    <2> QED
      BY <2>1, <2>2 DEF EndVpnService
  <1>2. ~AtRest(t) /\ \A u \in Threads : u # t => AtRest(u)' = AtRest(u)
    BY DEF EndVpnService, EndLock, EndReceiver, EndProfile, EndDecide, AtRest, Types
  <1>3. \A k \in Sessions : ~Up(k) /\ starter[k] \in {"none", "post", "done", "wait"}
    BY <1>2, EndingIsAlone
  <1>4. \A k \in Sessions : ~Up(k)'
    BY <1>1, <1>3 DEF Up
  <1>5. OldIsOver'
    <2> SUFFICES ASSUME NEW j \in Sessions, NEW k \in Sessions
                 PROVE  /\ j # mManagement => Over(j)'
                        /\ starter[k] \in Marked => mStarting
                        /\ starter[k] = "wait" =>
                               /\ AtRest(Main)'
                               /\ Over(j)' \/ (noExitStatus[j] /\ proc[j] \in {"stopping", "dead"})
      BY <1>1, <1>3 DEF OldIsOver, BeforeStop, BeforeSpawn
    <2>1. starter[k] \in Marked => mStarting
      BY DEF Inv2, OldIsOver
    <2>2. Over(j) => Over(j)'
      <3>1. ASSUME Over(j) PROVE t # Process(j)
        BY <1>2, <3>1 DEF Over
      <3> QED
        BY <1>1, <1>2, <3>1, ThreadsAre DEF Over
    <2>3. AtRest(Main) => AtRest(Main)'
      BY <1>2, ThreadsAre
    <2> QED
      BY <2>1, <2>2, <2>3 DEF Inv2, OldIsOver
  <1>6. EndsAreJustified'
    <2> SUFFICES ASSUME NEW k \in Sessions
                 PROVE  /\ AtRest(Starter(k))'
                        /\ ~AtRest(Process(k))' => pthread[k] = "ended"
                        /\ ~AtRest(Main)' \/ stopRequested' =>
                               starter[k] \in {"none", "post", "done"}
      BY <1>1, <1>4 DEF EndsAreJustified
    <2>1. \A u \in Threads : AtRest(u) => AtRest(u)'
      BY <1>2
    <2>2. AtRest(Starter(k))' /\ (~AtRest(Process(k))' => pthread[k] = "ended")
      BY <2>1, ThreadsAre DEF Inv2, EndsAreJustified
    <2>3. ~AtRest(Main)' \/ stopRequested => starter[k] \in {"none", "post", "done"}
      BY <2>1, ThreadsAre DEF Inv2, EndsAreJustified
    <2>4. ~mStarting => starter[k] # "wait"
      BY DEF Inv2, OldIsOver, Marked
    <2> QED
      BY <1>1, <1>3, <2>2, <2>3, <2>4
  <1>7. UpIsOwnedNow'
    BY <1>1, <1>4 DEF Inv2, UpIsOwnedNow
  <1>8. LatestIsLast' /\ ReplacedEndSilently' /\ ActiveIsThere' /\ LinesHaveThreads'
        /\ DialogIsCurrent'
    BY <1>1 DEF Inv2, LatestIsLast, ReplacedEndSilently, ActiveIsThere, LinesHaveThreads,
                DialogIsCurrent, IsVPNActive, StarterBusy
  <1>9. DestroyedIsStopped'
    BY <1>1 DEF Inv2, DestroyedIsStopped
  <1> QED
    BY <1>5, <1>6, <1>7, <1>8, <1>9 DEF Inv2

-----------------------------------------------------------------------------
(* startOpenVPN()                                                           *)

\* The steps of a start that leave the sessions alone.
LEMMA MoveTwo ==
    ASSUME Types, Inv1, Inv2, NEW k \in Sessions, NEW at \in BeforeStop \cup BeforeSpawn, Goto(k, at),
           starter[k] \in BeforeStop \cup {"wait"} \cup BeforeSpawn,
           at \in BeforeStop => starter[k] \in BeforeStop,
           at \in BeforeSpawn => AllAtRest /\ \A j \in Sessions : Over(j),
           starter[k] \in BeforeOpen => at \in BeforeOpen,
           at \in Marked => mStarting',
           at \notin {"tapped", "config"} => status' # "NOPROCESS",
           status' = status \/ status' = "VPN_GENERATE_CONFIG",
           IsVPNActive' /\ ~late' =>
               at \in Starting \/ (starter[k] \notin Starting /\ IsVPNActive /\ ~late),
           \A j \in Sessions : interrupted'[j] => interrupted[j]
                                                  \/ (j = mProcessThread /\ starter[k] = "force"),
           UNCHANGED <<pthread, end, mManagement, proc, noExitStatus, stopRequested,
                       mOpenVPNThread, mProcessThread, posted, receiver, socket, active, unread,
                       line, dialog, serviceUp>>
    PROVE  Inv2'
  <1> USE DEF BeforeStop, BeforeSpawn, BeforeOpen, Marked
  <1>1. \A j \in Sessions : starter'[j] = IF j = k THEN at ELSE starter[j]
    BY DEF Goto, Types
  <1>2. \A j \in Sessions : j # k => starter[j] \in {"none", "done"}
    BY Alone DEF StarterBusy
  <1>3. OldIsOver'
    BY <1>1, <1>2 DEF Inv2, OldIsOver, Over, AllAtRest, AtRest, Up
  <1>4. EndsAreJustified'
    BY <1>1, <1>2 DEF Inv2, EndsAreJustified, AtRest, Up
  <1>5. UpIsOwnedNow'
    <2> SUFFICES ASSUME NEW j \in Sessions
                 PROVE  /\ Up(j) => Owned(j)' /\ AllAtRest /\ ~interrupted'[j]
                                    /\ status' # "NOPROCESS"
                        /\ starter'[j] \in {"none"} \cup BeforeStop \cup {"wait"} \cup BeforeSpawn
                               => ~interrupted'[j]
                        /\ starter'[j] \in Starting => status' # "NOPROCESS"
      BY DEF UpIsOwnedNow, Up, AllAtRest, AtRest
    <2>1. starter'[j] \in Starting => status' # "NOPROCESS"
      BY <1>1, <1>2 DEF Starting
    <2>2. starter'[j] \in {"none"} \cup BeforeStop \cup {"wait"} \cup BeforeSpawn => ~interrupted'[j]
      BY <1>1, <1>2 DEF Inv1, StagesMatch, Inv2, UpIsOwnedNow
    <2>3. ASSUME Up(j) PROVE Owned(j)' /\ AllAtRest /\ ~interrupted'[j] /\ status' # "NOPROCESS"
      <3>1. Owned(j) /\ AllAtRest /\ ~interrupted[j] /\ status # "NOPROCESS"
        BY <2>3 DEF Inv2, UpIsOwnedNow
      <3>2. starter[k] # "force"
        BY <2>3 DEF Inv1, OldIsStopped, Up
      <3>3. j # k
        BY <2>3 DEF Inv1, StagesMatch, Up
      <3> QED
        BY <1>1, <3>1, <3>2, <3>3 DEF Owned
    <2> QED
      BY <2>1, <2>2, <2>3
  <1>6. LatestIsLast' /\ LinesHaveThreads' /\ DestroyedIsStopped'
    BY DEF Inv2, LatestIsLast, LinesHaveThreads, DestroyedIsStopped
  <1>7. ReplacedEndSilently'
    BY <1>1, <1>2 DEF Inv2, ReplacedEndSilently
  <1>8. ActiveIsThere'
    BY <1>1, <1>2 DEF Inv2, ActiveIsThere, Starting
  <1>9. DialogIsCurrent'
    BY <1>1 DEF Inv2, DialogIsCurrent, StarterBusy
  <1> QED
    BY <1>3, <1>4, <1>5, <1>6, <1>7, <1>8, <1>9 DEF Inv2

\* The session that runs is told to end silently and stopped, and is then waited for.
LEMMA StopOldTwo ==
    ASSUME Types, Inv1, Inv2, NEW k \in Sessions, StopOld(k)
    PROVE  Inv2'
  <1> USE DEF BeforeStop, BeforeSpawn, BeforeOpen, Marked
  <1>1. /\ starter[k] = "stopOld"
        /\ UNCHANGED <<pthread, end, mManagement, mStarting, stopRequested, mOpenVPNThread,
                       mProcessThread, posted, receiver, interrupted, shown, active, unread, line,
                       dialog, serviceUp>>
    BY DEF StopOld, StopVPN
  <1>2. PICK at \in {"wait", "force"} : Goto(k, at)
    BY DEF StopOld
  <1>3. \A j \in Sessions : starter'[j] = IF j = k THEN at ELSE starter[j]
    BY <1>2 DEF Goto, Types
  <1>4. \A j \in Sessions : j # k => starter[j] \in {"none", "done"}
    BY <1>1, Alone DEF StarterBusy
  <1>5. AllAtRest /\ mStarting /\ \A j \in Sessions : Over(j) \/ (Up(j) /\ mManagement = j)
    BY <1>1 DEF Inv2, OldIsOver, Inv1, LatestIsUp
  <1>6. \A j \in Sessions :
           /\ socket'[j] = socket[j] \/ socket'[j] = "closed"
           /\ proc'[j] = proc[j] \/ (proc[j] = "alive" /\ proc'[j] = "stopping")
    BY DEF StopOld, StopVPN, Types, Closed, Signalled
  <1>7. ASSUME NEW j \in Sessions, ~Over(j)
        PROVE  /\ StopResult /\ mManagement = j /\ noExitStatus'[j] /\ proc'[j] = "stopping"
               /\ at = "wait"
    <2>1. Up(j) /\ mManagement = j /\ mManagement # None
      BY <1>5, <1>7, ConstantsAssumption
    <2>2. proc[j] = "alive" /\ socket[j] = "open" /\ Listed(j)
      BY <1>1, <2>1 DEF Up, Inv1, OldIsStopped, ConnectedIsListed
    <2>3. active # <<>> /\ active[Len(active)] = j
      BY <2>1, <2>2 DEF Inv2, LatestIsLast
    <2>4. StopResult
      BY <2>2, <2>3 DEF StopResult, Signalled, Closed, Listed
    <2>5. StopVPN(mManagement) /\ Goto(k, "wait") /\ noExitStatus'[j]
      <3>1. mOpenVPNThread = j
        BY <2>1 DEF Inv2, UpIsOwnedNow, Owned
      <3> QED
        BY <2>1, <2>4, <3>1 DEF StopOld, Replaced
    <2>6. proc'[j] = "stopping"
      BY <2>2, <2>5, StopReaches
    <2> QED
      BY <1>2, <2>1, <2>4, <2>5, <2>6 DEF Goto, Types
  <1>8. ASSUME NEW j \in Sessions PROVE ~Up(j)'
    <2>1. pthread[j] # "exec"
      BY <1>1 DEF Inv1, OldIsStopped
    <2>2. Over(j) => proc[j] # "alive"
      BY DEF Inv1, StagesMatch, Over
    <2> QED
      BY <1>1, <1>6, <1>7, <2>1, <2>2 DEF Up
  <1>9. OldIsOver'
    <2> SUFFICES ASSUME NEW j \in Sessions, NEW i \in Sessions
                 PROVE  /\ j # mManagement => Over(j)
                        /\ i = k /\ at = "wait" => \/ Over(j)
                                                   \/ noExitStatus'[j] /\ proc'[j] = "stopping"
                        /\ i = k /\ at = "force" => Over(j)
      BY <1>1, <1>3, <1>4, <1>5, ThreadsAre DEF OldIsOver, Over, AllAtRest, AtRest
    <2> QED
      BY <1>7
  <1>10. EndsAreJustified'
    BY <1>1, <1>3, <1>4, <1>8 DEF Inv2, EndsAreJustified, AtRest
  <1>11. UpIsOwnedNow'
    BY <1>1, <1>3, <1>4, <1>8 DEF Inv2, UpIsOwnedNow, Starting
  <1>12. LatestIsLast' /\ LinesHaveThreads' /\ DestroyedIsStopped'
    BY <1>1, <1>6 DEF Inv2, LatestIsLast, LinesHaveThreads, DestroyedIsStopped, Types, OrNone
  <1>13. ReplacedEndSilently' /\ ActiveIsThere'
    BY <1>2, <1>3 DEF ReplacedEndSilently, ActiveIsThere, Starting
  <1>14. DialogIsCurrent'
    BY <1>1 DEF Inv2, DialogIsCurrent, StarterBusy
  <1> QED
    BY <1>9, <1>10, <1>11, <1>12, <1>13, <1>14 DEF Inv2

\* The start that reaches the management interface opens that of the latest session.
LEMMA OpenTwo ==
    ASSUME Types, Inv1, Inv2, NEW k \in Sessions, OpenManagement(k), Sequential
    PROVE  Inv2'
  <1> USE DEF BeforeStop, BeforeSpawn, BeforeOpen, Marked
  <1>1. /\ starter[k] = "open" /\ Goto(k, "thread") /\ mManagement' = k
        /\ socket' = [socket EXCEPT ![k] = "starting"]
        /\ UNCHANGED <<pthread, end, proc, mStarting, noExitStatus, stopRequested, mOpenVPNThread,
                       mProcessThread, posted, receiver, interrupted, shown, active, unread, line,
                       dialog, serviceUp>>
    BY DEF OpenManagement, Sequential
  <1>2. \A j \in Sessions : starter'[j] = IF j = k THEN "thread" ELSE starter[j]
    BY <1>1 DEF Goto, Types
  <1>3. \A j \in Sessions : j # k => starter[j] \in {"none", "done"}
    BY <1>1, Alone DEF StarterBusy
  <1>4. \A j \in Sessions : Over(j) /\ ~Up(j)
    BY <1>1 DEF Inv2, OldIsOver, Inv1, StagesMatch, Over, Up
  <1>5. AllAtRest
    BY <1>1 DEF Inv2, OldIsOver
  <1>6. OldIsOver' /\ EndsAreJustified' /\ UpIsOwnedNow'
    BY <1>1, <1>2, <1>3, <1>4, <1>5
       DEF Inv2, OldIsOver, EndsAreJustified, UpIsOwnedNow, Over, AllAtRest, AtRest, Up, Starting
  <1>7. socket'[k] = "starting"
    BY <1>1 DEF Types
  <1>8. LatestIsLast' /\ LinesHaveThreads' /\ DestroyedIsStopped' /\ ActiveIsThere'
    BY <1>1, <1>2, <1>7 DEF Inv2, LatestIsLast, LinesHaveThreads, DestroyedIsStopped,
                            ActiveIsThere, Starting
  <1>9. ReplacedEndSilently'
    BY <1>1 DEF Inv1, StagesMatch, ReplacedEndSilently
  <1>10. DialogIsCurrent'
    BY <1>1 DEF Inv2, DialogIsCurrent, StarterBusy
  <1> QED
    BY <1>6, <1>8, <1>9, <1>10 DEF Inv2

\* A start is requested when every session before it is at rest.
LEMMA RequestTwo ==
    ASSUME Types, Inv1, Inv2, NEW k \in Sessions, RequestStart(k), Sequential
    PROVE  Inv2'
  <1> USE DEF BeforeStop, BeforeSpawn, BeforeOpen, Marked
  <1>1. Through /\ ~dialog /\ starter[k] = "none" /\ ~stopRequested' /\ serviceUp
    BY DEF RequestStart, MayHappen, Sequential
  <1>2. UNCHANGED <<pthread, end, mManagement, proc, noExitStatus, mStarting, mOpenVPNThread,
                    mProcessThread, posted, receiver, interrupted, shown, socket, active, unread, line,
                    dialog, serviceUp>>
    BY DEF RequestStart
  <1>3. \A j \in Sessions : starter'[j] = IF j = k THEN "tapped" ELSE starter[j]
    BY DEF RequestStart, Goto, Types
  <1>4. \A j \in Sessions : starter[j] \in {"none", "done"}
    BY <1>1, ThroughOne
  <1>5. AllAtRest /\ \A j \in Sessions : Over(j) \/ Up(j)
    BY <1>1, ThreadsAre DEF Through, AllAtRest, Over, Up
  <1>6. OldIsOver'
    BY <1>2, <1>3, <1>4, <1>5 DEF Inv2, OldIsOver, Over, AllAtRest, AtRest, Up
  <1>7. EndsAreJustified'
    BY <1>1, <1>2, <1>5, ThreadsAre DEF Inv2, EndsAreJustified, AllAtRest, AtRest, Up
  <1>8. UpIsOwnedNow'
    BY <1>1, <1>2, <1>3, <1>4 DEF Inv2, UpIsOwnedNow, AllAtRest, AtRest, Up, Owned, Starting
  <1>9. LatestIsLast' /\ LinesHaveThreads' /\ DestroyedIsStopped' /\ DialogIsCurrent'
    BY <1>1, <1>2 DEF Inv2, LatestIsLast, LinesHaveThreads, DestroyedIsStopped, DialogIsCurrent
  <1>10. ReplacedEndSilently' /\ ActiveIsThere'
    BY <1>2, <1>3, <1>4 DEF Inv2, ReplacedEndSilently, ActiveIsThere, IsVPNActive, Starting
  <1> QED
    BY <1>6, <1>7, <1>8, <1>9, <1>10 DEF Inv2

\* The latest session gets its thread, process and registration.
LEMMA LaunchTwo ==
    ASSUME Types, Inv1, Inv2, NEW k \in Sessions,
           CreateThread(k) \/ StartThread(k) \/ PostRegister(k)
    PROVE  Inv2'
  <1> USE DEF BeforeStop, BeforeSpawn, BeforeOpen, Marked
  <1>1. /\ starter[k] \in {"thread", "spawn", "post"} /\ mManagement = k /\ k # None
        /\ UNCHANGED <<end, mManagement, proc, noExitStatus, mStarting, stopRequested, receiver,
                       interrupted, shown, socket, active, unread, line, dialog, serviceUp>>
        /\ \A j \in Sessions : pthread'[j] \in {pthread[j], "exec"}
    BY ConstantsAssumption DEF Types, CreateThread, StartThread, PostRegister, Inv1, StagesMatch
  <1>2. PICK at \in {"spawn", "post", "done"} : Goto(k, at)
    BY DEF CreateThread, StartThread, PostRegister
  <1>3. \A j \in Sessions : starter'[j] = IF j = k THEN at ELSE starter[j]
    BY <1>2 DEF Goto, Types
  <1>4. \A j \in Sessions : j # k => ~Up(j) /\ Over(j) /\ starter[j] \in {"none", "done"}
    BY <1>1, Alone DEF Inv1, Inv2, LatestIsUp, OldIsOver, StarterBusy
  <1>5. LatestIsLast' /\ LinesHaveThreads' /\ DestroyedIsStopped' /\ DialogIsCurrent'
    BY <1>1 DEF Inv2, LatestIsLast, LinesHaveThreads, DestroyedIsStopped, DialogIsCurrent,
                StarterBusy
  <1>6. ReplacedEndSilently'
    BY <1>1, <1>3 DEF Inv2, ReplacedEndSilently
  <1>7. CASE CreateThread(k)
    <2>1. /\ starter[k] = "thread" /\ at = "spawn" /\ mOpenVPNThread' = k
          /\ UNCHANGED <<mProcessThread, posted, pthread>>
      BY <1>7, <1>2 DEF CreateThread, Goto, Types
    <2>2. AllAtRest /\ Over(k) /\ ~Up(k)
      BY <2>1 DEF Inv1, Inv2, OldIsOver, StagesMatch, Over, Up
    <2>3. OldIsOver' /\ EndsAreJustified'
      BY <1>1, <1>3, <1>4, <2>1, <2>2
         DEF Inv2, OldIsOver, EndsAreJustified, Over, AllAtRest, AtRest, Up
    <2>4. UpIsOwnedNow'
      BY <1>1, <1>3, <1>4, <2>1, <2>2 DEF Inv2, UpIsOwnedNow, Up, Starting
    <2>5. ActiveIsThere'
      BY <1>3, <2>1 DEF ActiveIsThere, Starting
    <2> QED
      BY <1>5, <1>6, <2>3, <2>4, <2>5 DEF Inv2
  <1>8. CASE StartThread(k)
    <2>1. /\ starter[k] = "spawn" /\ at = "post" /\ mProcessThread' = k
          /\ UNCHANGED <<mOpenVPNThread, posted>>
      BY <1>8, <1>2 DEF StartThread, Goto, Types
    <2>2. \A j \in Sessions : pthread'[j] = IF j = k THEN "exec" ELSE pthread[j]
      BY <1>8 DEF StartThread, Types
    <2>3. AllAtRest /\ AtRest(Main) /\ ~stopRequested
      BY <2>1, ThreadsAre DEF Inv2, OldIsOver, EndsAreJustified, AllAtRest
    <2>4. mOpenVPNThread = k
      BY <1>1, <1>4, <2>1, <2>3 DEF Inv1, UpIsOwned, Owned, AllAtRest
    <2>5. OldIsOver' /\ EndsAreJustified'
      BY <1>1, <1>3, <1>4, <2>1, <2>2, <2>3, ThreadsAre
         DEF Inv2, OldIsOver, EndsAreJustified, Over, AllAtRest, AtRest, Up
    <2>6. UpIsOwnedNow'
      <3>1. ~interrupted[k] /\ status # "NOPROCESS"
        BY <2>1 DEF Inv2, UpIsOwnedNow, Starting
      <3>2. Owned(k)'
        BY <1>3, <2>1, <2>4 DEF Owned
      <3>3. AllAtRest'
        BY <1>1, <2>3 DEF AllAtRest, AtRest
      <3>4. ASSUME NEW j \in Sessions, j # k PROVE ~Up(j)'
        BY <1>1, <1>4, <2>2, <3>4 DEF Up
      <3>5. ASSUME NEW j \in Sessions, j # k, starter'[j] \in {"none", "done"}
            PROVE starter'[j] = "none" => ~interrupted'[j]
        BY <1>1, <1>3, <3>5 DEF Inv2, UpIsOwnedNow
      <3> QED
        BY <1>1, <1>3, <1>4, <2>1, <3>1, <3>2, <3>3, <3>4, <3>5 DEF UpIsOwnedNow, Starting
    <2>7. ~noExitStatus[k]
      BY <1>1, <1>4, <2>1 DEF Inv2, ReplacedEndSilently
    <2>8. ActiveIsThere'
      BY <1>1, <2>2, <2>7 DEF ActiveIsThere
    <2> QED
      BY <1>5, <1>6, <2>5, <2>6, <2>8 DEF Inv2
  <1>9. CASE PostRegister(k)
    <2>1. /\ starter[k] = "post" /\ at = "done" /\ posted' = posted \cup {k}
          /\ UNCHANGED <<mOpenVPNThread, mProcessThread, pthread>>
      BY <1>9, <1>2 DEF PostRegister, Goto, Types
    <2>2. OldIsOver' /\ EndsAreJustified'
      BY <1>1, <1>3, <1>4, <2>1 DEF Inv2, OldIsOver, EndsAreJustified, Over, AllAtRest, AtRest, Up
    <2>3. UpIsOwnedNow'
      BY <1>1, <1>3, <1>4, <2>1 DEF Inv2, UpIsOwnedNow, AllAtRest, AtRest, Up, Owned, Starting
    <2>4. ActiveIsThere'
      BY <1>1, <1>3, <1>4, <2>1 DEF Inv2, ActiveIsThere, IsVPNActive, Starting
    <2> QED
      BY <1>5, <1>6, <2>2, <2>3, <2>4 DEF Inv2
  <1> QED
    BY <1>7, <1>8, <1>9

LEMMA RegisterTwo ==
    ASSUME Types, Inv1, Inv2, NEW k \in Sessions, RegisterReceiver(k)
    PROVE  Inv2'
  <1>1. /\ posted' = posted \ {k} /\ receiver' = mManagement
        /\ UNCHANGED <<pthread, end, starter, mManagement, proc, noExitStatus, mStarting,
                       stopRequested, mOpenVPNThread, mProcessThread, interrupted, shown, socket,
                       active, unread, line, dialog, serviceUp>>
    BY DEF RegisterReceiver
  <1>2. OldIsOver' /\ EndsAreJustified'
    BY <1>1 DEF Inv2, OldIsOver, EndsAreJustified, Over, AllAtRest, AtRest, Up
  <1>3. UpIsOwnedNow'
    <2>1. ASSUME NEW j \in Sessions, Up(j), Owned(j) PROVE Owned(j)'
      BY <1>1, <2>1 DEF Inv1, LatestIsUp, Owned
    <2> QED
      BY <1>1, <2>1 DEF Inv2, UpIsOwnedNow, Up, AllAtRest, AtRest
  <1>4. (LatestIsLast /\ ReplacedEndSilently /\ ActiveIsThere /\ LinesHaveThreads
         /\ DialogIsCurrent /\ DestroyedIsStopped)'
    BY <1>1 DEF Inv2, LatestIsLast, ReplacedEndSilently, ActiveIsThere, LinesHaveThreads,
                DialogIsCurrent, DestroyedIsStopped, IsVPNActive, StarterBusy
  <1> QED
    BY <1>2, <1>3, <1>4 DEF Inv2

LEMMA StartTwo ==
    ASSUME Types, Inv1, Inv2, NEW k \in Sessions,
           RequestStart(k) \/ StartOpenVPN(k) \/ RegisterReceiver(k), Sequential
    PROVE  Inv2'
  <1> USE DEF BeforeStop, BeforeSpawn, BeforeOpen, Marked
  <1>1. ASSUME starter[k] \in Starting PROVE status # "NOPROCESS" /\ (starter[k] \in Marked => mStarting)
    BY <1>1 DEF Inv2, UpIsOwnedNow, OldIsOver
  <1>2. ASSUME starter[k] \in BeforeSpawn PROVE AllAtRest /\ \A j \in Sessions : Over(j)
    BY <1>2 DEF Inv2, OldIsOver
  <1>3. CASE OnStartCommand(k)
    BY <1>3, MoveTwo DEF OnStartCommand, IsVPNActive, Starting
  <1>4. CASE GenerateConfig(k)
    BY <1>4, MoveTwo DEF GenerateConfig, Sequential, Starting
  <1>5. CASE MarkStarting(k)
    BY <1>1, <1>5, MoveTwo DEF MarkStarting, Starting
  <1>6. CASE Wait(k)
    <2>1. \A j \in Sessions : Over(j)
      <3>1. ASSUME NEW j \in Sessions, proc[j] \in {"stopping", "dead"} PROVE Over(j)
        BY <1>6, <3>1 DEF Wait, Sequential, Ended, Over
      <3> QED
        BY <1>6, <3>1 DEF Wait, Inv2, OldIsOver
    <2>2. AllAtRest
      <3>1. AtRest(Main)
        BY <1>6 DEF Wait, Inv2, OldIsOver
      <3> QED
        BY <2>1, <3>1 DEF AllAtRest, Threads, Inv2, EndsAreJustified, Over
    <2> QED
      BY <1>1, <1>6, <2>1, <2>2, MoveTwo DEF Wait, Starting
  <1>7. CASE ForceStop(k)
    <2>1. \A j \in Sessions : interrupted'[j] => interrupted[j] \/ j = mProcessThread
      BY <1>7 DEF ForceStop, Types
    <2>2. PICK at \in {"hold", "clear"} : Goto(k, at)
      BY <1>7 DEF ForceStop
    <2> QED
      BY <1>1, <1>2, <1>7, <2>1, <2>2, MoveTwo DEF ForceStop, Starting
  <1>8. CASE ForceStopped(k)
    BY <1>1, <1>2, <1>8, MoveTwo DEF ForceStopped, ForceStopSlept, Starting
  <1>9. CASE ClearStarting(k)
    BY <1>1, <1>2, <1>9, MoveTwo DEF ClearStarting, Starting
  <1> QED
    BY <1>3, <1>4, <1>5, <1>6, <1>7, <1>8, <1>9, StopOldTwo, OpenTwo, RequestTwo, LaunchTwo,
       RegisterTwo DEF StartOpenVPN

-----------------------------------------------------------------------------
(* The threads and the process of a session                                 *)

LEMMA MgmtTwo ==
    ASSUME Types, Inv1, Inv2, NEW k \in Sessions, ActiveAdd(k) \/ Accept(k) \/ MgmtEnds(k)
    PROVE  Inv2'
  <1>1. /\ UNCHANGED <<pthread, end, starter, mManagement, proc, noExitStatus, mStarting,
                       stopRequested, mOpenVPNThread, mProcessThread, posted, receiver,
                       interrupted, shown, line, dialog, serviceUp>>
        /\ \A j \in Sessions : /\ j # k => socket'[j] = socket[j]
                               /\ unread'[j] \in {unread[j], "none"}
    BY DEF ActiveAdd, Accept, MgmtEnds, Types
  <1>2. (OldIsOver /\ EndsAreJustified /\ UpIsOwnedNow)'
    BY <1>1 DEF Inv2, OldIsOver, EndsAreJustified, UpIsOwnedNow, Over, AllAtRest, AtRest, Up, Owned
  <1>3. (ReplacedEndSilently /\ ActiveIsThere /\ LinesHaveThreads /\ DialogIsCurrent
         /\ DestroyedIsStopped)'
    BY <1>1 DEF Inv2, ReplacedEndSilently, ActiveIsThere, LinesHaveThreads, DialogIsCurrent,
                DestroyedIsStopped, IsVPNActive, StarterBusy
  <1>4. LatestIsLast'
    <2> SUFFICES ASSUME mManagement # None, socket'[mManagement] \in {"accepting", "open"}
                 PROVE  active' # <<>> /\ active'[Len(active')] = mManagement
      BY <1>1 DEF LatestIsLast
    <2>1. mManagement \in Sessions
      BY DEF Types, OrNone
    <2>2. CASE ActiveAdd(k)
      <3>1. mManagement = k
        BY <2>2 DEF ActiveAdd, Inv1, LatestIsUp
      <3> QED
        BY <2>2, <3>1 DEF ActiveAdd, Types
    <2>3. CASE Accept(k)
      BY <1>1, <2>1, <2>3 DEF Accept, Inv2, LatestIsLast
    <2>4. CASE MgmtEnds(k)
      <3>1. mManagement # k
        BY <2>4 DEF MgmtEnds, Types
      <3>2. active # <<>> /\ active[Len(active)] = mManagement
        BY <1>1, <2>1, <3>1 DEF Inv2, LatestIsLast
      <3>3. CASE active' = active
        BY <3>2, <3>3
      <3>4. ASSUME NEW i \in DOMAIN active, active[i] = k, active' = Without(active, i)
            PROVE  active' # <<>> /\ active'[Len(active')] = mManagement
        <4>1. Len(active) \in Nat /\ i \in 1..Len(active) /\ i # Len(active)
          BY <3>1, <3>2, <3>4 DEF Types
        <4>2. Len(active) - 1 \in 1..(Len(active) - 1) /\ ~(Len(active) - 1 < i)
              /\ (Len(active) - 1) + 1 = Len(active)
          BY <4>1
        <4>3. active' \in Seq(Sessions)
          BY <3>4, WithoutType DEF Types
        <4>4. Len(active') = Len(active) - 1
          BY <3>4, <4>1, <4>3 DEF Without
        <4>5. active'[Len(active) - 1] = active[Len(active)]
          BY <3>4, <4>2 DEF Without
        <4> QED
          BY <3>2, <4>1, <4>2, <4>3, <4>4, <4>5
      <3> QED
        BY <2>4, <3>3, <3>4 DEF MgmtEnds
    <2> QED
      BY <2>2, <2>3, <2>4
  <1> QED
    BY <1>2, <1>3, <1>4 DEF Inv2

\* A line waits in the socket, then with its management thread; it changes nothing else.
LEMMA LineTwo ==
    ASSUME Types, Inv1, Inv2, NEW k \in Sessions, ReadState(k) \/ ProcSays(k)
    PROVE  Inv2'
  <1>1. UNCHANGED <<pthread, end, starter, mManagement, proc, noExitStatus, mStarting,
                    stopRequested, mOpenVPNThread, mProcessThread, posted, receiver, interrupted,
                    shown, socket, active, dialog, serviceUp>>
    BY DEF ReadState, ProcSays
  <1>2. (OldIsOver /\ EndsAreJustified /\ UpIsOwnedNow)'
    BY <1>1 DEF Inv2, OldIsOver, EndsAreJustified, UpIsOwnedNow, Over, AllAtRest, AtRest, Up, Owned
  <1>3. (LatestIsLast /\ ReplacedEndSilently /\ ActiveIsThere /\ DialogIsCurrent
         /\ DestroyedIsStopped)'
    BY <1>1 DEF Inv2, LatestIsLast, ReplacedEndSilently, ActiveIsThere, DialogIsCurrent,
                DestroyedIsStopped, IsVPNActive, StarterBusy
  <1>4. LinesHaveThreads'
    <2>1. \A j \in Sessions : j # k => unread'[j] = unread[j] /\ line'[j] = line[j]
      BY DEF ReadState, ProcSays, Types
    <2>2. CASE ReadState(k)
      BY <1>1, <2>1, <2>2 DEF ReadState, Inv2, LinesHaveThreads
    <2>3. CASE ProcSays(k)
      <3>1. pthread[k] # "none"
        BY <2>3 DEF ProcSays, Inv1, StagesMatch
      <3> QED
        BY <1>1, <2>1, <3>1 DEF Inv2, LinesHaveThreads
    <2> QED
      BY <2>2, <2>3
  <1> QED
    BY <1>2, <1>3, <1>4 DEF Inv2

\* A line is shown while the process thread of its session is at work, which will show
\* the end, or it is late.
LEMMA ShowTwo ==
    ASSUME Types, Inv1, Inv2, NEW k \in Sessions, ShowState(k)
    PROVE  Inv2'
  <1>1. /\ UNCHANGED <<pthread, end, starter, mManagement, proc, noExitStatus, mStarting,
                       stopRequested, mOpenVPNThread, mProcessThread, posted, receiver,
                       interrupted, socket, active, unread, dialog, serviceUp>>
        /\ late' = (pthread[k] = "ended") /\ line[k] # "none"
        /\ status' \in Lines
    BY DEF ShowState, Types
  <1>2. \A j \in Sessions : line'[j] \in {line[j], "none"}
    BY DEF ShowState, Types
  <1>3. (OldIsOver /\ EndsAreJustified /\ UpIsOwnedNow)'
    BY <1>1 DEF Inv2, OldIsOver, EndsAreJustified, UpIsOwnedNow, Over, AllAtRest, AtRest, Up,
                Owned, Lines
  <1>4. (LatestIsLast /\ ReplacedEndSilently /\ LinesHaveThreads /\ DestroyedIsStopped)'
    BY <1>1, <1>2 DEF Inv2, LatestIsLast, ReplacedEndSilently, LinesHaveThreads,
                      DestroyedIsStopped
  <1>5. ASSUME ~late' PROVE pthread[k] \in {"exec", "reading", "waitFor", "died"}
    <2>1. pthread[k] # "none" /\ pthread[k] # "ended"
      BY <1>1, <1>5 DEF Inv2, LinesHaveThreads
    <2> QED
      BY <2>1 DEF Types, PthreadAt
  <1>6. ActiveIsThere'
    <2> SUFFICES ASSUME ~late', \A j \in Sessions : starter[j] \notin Starting
                 PROVE  /\ mManagement # None /\ ~noExitStatus[mManagement]
                        /\ pthread[mManagement] \in {"exec", "reading", "waitFor", "died"}
      BY <1>1 DEF ActiveIsThere
    <2>1. mManagement = k /\ k # None
      BY <1>5, WorkingIsLatest, ConstantsAssumption
    <2>2. ~noExitStatus[k]
      BY <2>1 DEF Inv2, ReplacedEndSilently, Starting, BeforeSpawn, BeforeOpen
    <2> QED
      BY <1>5, <2>1, <2>2
  <1>7. DialogIsCurrent'
    BY <1>1, <1>5 DEF Inv2, DialogIsCurrent, StarterBusy
  <1> QED
    BY <1>3, <1>4, <1>6, <1>7 DEF Inv2

\* The process thread of the latest session goes on, with nothing up beside it.
LEMMA ThreadTwo ==
    ASSUME Types, Inv1, Inv2, NEW k \in Sessions,
           Exec(k) \/ ReadEnds(k) \/ WaitFor(k) \/ ReadInterrupted(k)
    PROVE  Inv2'
  <1>1. /\ UNCHANGED <<end, starter, mManagement, noExitStatus, mStarting, stopRequested,
                       mOpenVPNThread, mProcessThread, posted, receiver, shown, socket, active,
                       unread, line, dialog, serviceUp>>
        /\ pthread[k] \in {"exec", "reading", "waitFor"}
        /\ pthread'[k] \in {"reading", "waitFor", "died"}
    BY DEF Exec, ReadEnds, WaitFor, ReadInterrupted, Types
  <1>2. \A j \in Sessions : /\ j # k => pthread'[j] = pthread[j] /\ proc'[j] = proc[j]
                            /\ interrupted'[j] => interrupted[j]
    BY DEF Exec, ReadEnds, WaitFor, ReadInterrupted, Types
  <1>3. Up(k)' => Up(k)
    BY DEF Exec, ReadEnds, WaitFor, ReadInterrupted, Types, Up, Inv1, StagesMatch
  <1>4. /\ mManagement = k
        /\ \A j \in Sessions : starter[j] \notin BeforeSpawn
        /\ ~Up(k) => \A j \in Sessions : starter[j] \notin BeforeStop
        /\ \A j \in Sessions : starter[j] = "wait" =>
               noExitStatus[k] /\ proc[k] \in {"stopping", "dead"}
    BY <1>1, WorkingIsLatest
  <1>5. proc[k] \in {"stopping", "dead"} => proc'[k] \in {"stopping", "dead"}
    BY DEF Exec, ReadEnds, WaitFor, ReadInterrupted, Types, Inv1, StagesMatch
  <1>6. proc[k] # "alive" /\ \A j \in Sessions : starter[j] \notin BeforeStop
    <2>1. ASSUME proc[k] = "alive" PROVE FALSE
      <3>1. pthread[k] = "reading" /\ ~interrupted[k]
        BY <2>1 DEF Inv1, StagesMatch, Inv2, UpIsOwnedNow, Up
      <3> QED
        BY <2>1, <3>1 DEF Exec, ReadEnds, WaitFor, ReadInterrupted
    <2> QED
      BY <1>4, <2>1 DEF Inv1, OldIsStopped, Up
  <1>7. OldIsOver'
    <2> SUFFICES ASSUME NEW j \in Sessions, NEW i \in Sessions
                 PROVE  /\ j # mManagement => Over(j)'
                        /\ starter[i] \in Marked => mStarting
                        /\ starter[i] = "wait" =>
                               /\ AtRest(Main)
                               /\ Over(j)' \/ (noExitStatus[j] /\ proc'[j] \in {"stopping", "dead"})
      BY <1>1, <1>4, <1>6 DEF OldIsOver, AtRest
    <2>1. j # k /\ Over(j) => Over(j)'
      BY <1>1, <1>2 DEF Over, AtRest
    <2> QED
      BY <1>2, <1>4, <1>5, <2>1 DEF Inv2, OldIsOver
  <1>8. EndsAreJustified'
    BY <1>1, <1>2, <1>3 DEF Inv2, EndsAreJustified, AtRest, Up
  <1>9. UpIsOwnedNow'
    BY <1>1, <1>2, <1>3 DEF Inv2, UpIsOwnedNow, Up, AllAtRest, AtRest, Owned
  <1>10. LatestIsLast' /\ ReplacedEndSilently' /\ LinesHaveThreads' /\ DestroyedIsStopped'
    BY <1>1, <1>2 DEF Inv2, LatestIsLast, ReplacedEndSilently, LinesHaveThreads,
                      DestroyedIsStopped
  <1>11. ActiveIsThere'
    BY <1>1, <1>4 DEF Inv2, ActiveIsThere, IsVPNActive
  <1>12. DialogIsCurrent'
    BY <1>1, <1>2, <1>6 DEF Inv2, DialogIsCurrent, StarterBusy
  <1> QED
    BY <1>7, <1>8, <1>9, <1>10, <1>11, <1>12 DEF Inv2

\* processDied(): NOPROCESS is shown unless a start that replaces the session waits for it.
LEMMA DiedTwo ==
    ASSUME Types, Inv1, Inv2, NEW k \in Sessions, ProcessDied(k)
    PROVE  Inv2'
  <1>1. /\ UNCHANGED <<proc, starter, mManagement, noExitStatus, mStarting, stopRequested,
                       mOpenVPNThread, mProcessThread, posted, receiver, interrupted, socket,
                       active, unread, line, dialog, serviceUp>>
        /\ pthread[k] = "died" /\ status' = DiedStatus(k) /\ late' = (late /\ noExitStatus[k])
    BY DEF ProcessDied
  <1>2. \A j \in Sessions : pthread'[j] = IF j = k THEN "ended" ELSE pthread[j]
    BY DEF ProcessDied, Types
  <1>3. /\ \A t \in Threads : t # Process(k) => AtRest(t)' = AtRest(t)
        /\ ~AtRest(Process(k))'
    BY ThreadsAre DEF ProcessDied, EndAs, Types, AtRest
  <1>4. /\ mManagement = k
        /\ \A j \in Sessions : Up(j) => j = k
        /\ \A j \in Sessions : starter[j] \notin BeforeSpawn
        /\ ~Up(k) => \A j \in Sessions : starter[j] \notin BeforeStop
        /\ \A j \in Sessions : starter[j] = "wait" =>
               noExitStatus[k] /\ proc[k] \in {"stopping", "dead"}
    BY <1>1, WorkingIsLatest
  <1>5. \A j \in Sessions : ~Up(j) /\ ~Up(j)'
    <2>1. ~Up(k)
      BY <1>1 DEF Inv1, StagesMatch, Up
    <2> QED
      BY <1>1, <1>2, <1>4, <2>1 DEF Up
  <1>6. \A j \in Sessions : starter[j] \in Starting => starter[j] = "wait" /\ noExitStatus[k]
    BY <1>4, <1>5 DEF Starting, BeforeStop
  <1>7. OldIsOver'
    <2> SUFFICES ASSUME NEW j \in Sessions, NEW i \in Sessions
                 PROVE  /\ j # mManagement => Over(j)'
                        /\ starter[i] \in Marked => mStarting
                        /\ starter[i] = "wait" =>
                               /\ AtRest(Main)'
                               /\ Over(j)' \/ (noExitStatus[j] /\ proc[j] \in {"stopping", "dead"})
      BY <1>1, <1>4, <1>5 DEF OldIsOver
    <2>1. j # k /\ Over(j) => Over(j)'
      BY <1>2, <1>3, ThreadsAre, ThreadsDiffer DEF Over
    <2>2. AtRest(Main)' = AtRest(Main)
      BY <1>3, ThreadsAre, ThreadsDiffer
    <2> QED
      BY <1>4, <2>1, <2>2 DEF Inv2, OldIsOver
  <1>8. EndsAreJustified'
    <2>1. ASSUME NEW j \in Sessions
          PROVE  /\ AtRest(Starter(j))' /\ AtRest(Main)' = AtRest(Main)
                 /\ j # k => AtRest(Process(j))' = AtRest(Process(j))
      BY <1>3, ThreadsAre, ThreadsDiffer DEF Inv2, EndsAreJustified
    <2> QED
      BY <1>1, <1>2, <1>5, <2>1 DEF Inv2, EndsAreJustified
  <1>9. UpIsOwnedNow'
    BY <1>1, <1>5, <1>6 DEF Inv2, UpIsOwnedNow, DiedStatus
  <1>10. LatestIsLast' /\ ReplacedEndSilently' /\ LinesHaveThreads' /\ DestroyedIsStopped'
    BY <1>1, <1>2 DEF Inv2, LatestIsLast, ReplacedEndSilently, LinesHaveThreads,
                      DestroyedIsStopped
  <1>11. ActiveIsThere'
    <2>1. CASE noExitStatus[k]
      BY <1>1, <1>4, <2>1 DEF Inv2, ActiveIsThere, IsVPNActive, DiedStatus
    <2>2. CASE ~noExitStatus[k]
      BY <1>1, <2>2 DEF ActiveIsThere, IsVPNActive, DiedStatus
    <2> QED
      BY <2>1, <2>2
  <1>12. DialogIsCurrent'
    <2>1. proc[k] # "alive"
      BY <1>1 DEF Inv1, StagesMatch
    <2> QED
      BY <1>1, <2>1 DEF Inv2, DialogIsCurrent
  <1> QED
    BY <1>7, <1>8, <1>9, <1>10, <1>11, <1>12 DEF Inv2

LEMMA ExitTwo ==
    ASSUME Types, Inv1, Inv2, NEW k \in Sessions, ProcStops(k) \/ ProcGivesUp(k), Sequential
    PROVE  Inv2'
  <1>1. /\ UNCHANGED <<pthread, end, starter, mManagement, noExitStatus, mStarting, stopRequested,
                       mOpenVPNThread, mProcessThread, posted, receiver, interrupted, shown,
                       socket, active, unread, line, dialog, serviceUp>>
        /\ \A j \in Sessions : proc'[j] = IF j = k THEN "dead" ELSE proc[j]
    BY DEF ProcStops, ProcGivesUp, ProcExits, Types
  <1>2. \/ proc[k] = "stopping"
        \/ proc[k] = "alive" /\ ~dialog /\ \A j \in Sessions : starter[j] \in {"none", "done"}
    BY ThroughOne DEF ProcStops, ProcGivesUp, MayHappen, Sequential
  <1>3. \A j \in Sessions : Up(j)' => Up(j)
    BY <1>1 DEF Up
  <1>4. OldIsOver'
    BY <1>1, <1>2 DEF Inv2, OldIsOver, Over, AllAtRest, AtRest, Up, BeforeStop, BeforeSpawn, Marked
  <1>5. EndsAreJustified' /\ UpIsOwnedNow'
    BY <1>1, <1>3 DEF Inv2, EndsAreJustified, UpIsOwnedNow, AllAtRest, AtRest, Owned
  <1>6. (LatestIsLast /\ ReplacedEndSilently /\ ActiveIsThere /\ LinesHaveThreads
         /\ DestroyedIsStopped)'
    BY <1>1 DEF Inv2, LatestIsLast, ReplacedEndSilently, ActiveIsThere, LinesHaveThreads,
                DestroyedIsStopped, IsVPNActive
  <1>7. DialogIsCurrent'
    BY <1>1, <1>2 DEF Inv2, DialogIsCurrent, StarterBusy
  <1> QED
    BY <1>4, <1>5, <1>6, <1>7 DEF Inv2

-----------------------------------------------------------------------------
(* The user and the system                                                  *)

\* Disconnect and revocation come when nothing is under way.
LEMMA StopTwo ==
    ASSUME Types, Inv1, Inv2, Through,
           \/ mManagement = None /\ UNCHANGED <<mgmt, proc>>
           \/ mManagement # None /\ StopVPN(mManagement),
           ~dialog',
           \/ UNCHANGED <<end, status>>
           \/ /\ UNCHANGED end /\ status' = "DISCONNECTING"
              /\ late \/ \E k \in Sessions : proc[k] = "alive" /\ ~noExitStatus[k]
           \/ EndAs(Main) /\ status' = status,
           late' = late,
           UNCHANGED <<pthread, starter, mManagement, noExitStatus, mStarting, stopRequested,
                       mOpenVPNThread, mProcessThread, posted, receiver, interrupted, serviceUp>>
    PROVE  Inv2'
  <1>1. \A k \in Sessions : starter[k] \in {"none", "done"} /\ ~Up(k)'
    BY ThroughOne, StopDown
  <1>2. /\ UNCHANGED <<active, unread, line>>
        /\ \A k \in Sessions : socket'[k] = socket[k] \/ socket'[k] = "closed"
    BY DEF StopVPN, Types
  <1>3. \A t \in Threads : t # Main => AtRest(t)' = AtRest(t)
    BY DEF AtRest, EndAs, Types
  <1>4. \A k \in Sessions : Over(k) => Over(k)'
    BY <1>3, ThreadsAre, ThreadsDiffer DEF Over
  <1>5. OldIsOver'
    BY <1>1, <1>4 DEF Inv2, OldIsOver, BeforeStop, BeforeSpawn, Marked
  <1>6. EndsAreJustified'
    BY <1>1, <1>3, ThreadsAre, ThreadsDiffer DEF Inv2, EndsAreJustified
  <1>7. UpIsOwnedNow'
    BY <1>1 DEF Inv2, UpIsOwnedNow, Starting, BeforeSpawn
  <1>8. LatestIsLast' /\ LinesHaveThreads' /\ DestroyedIsStopped' /\ DialogIsCurrent'
    BY <1>2 DEF Inv2, LatestIsLast, LinesHaveThreads, DestroyedIsStopped, DialogIsCurrent, Types,
                OrNone
  <1>9. ReplacedEndSilently'
    BY DEF Inv2, ReplacedEndSilently
  <1>10. ActiveIsThere'
    <2>1. CASE status' = status
      BY <2>1 DEF Inv2, ActiveIsThere, IsVPNActive
    <2>2. ASSUME NEW k \in Sessions, proc[k] = "alive", ~noExitStatus[k] PROVE ActiveIsThere'
      BY <2>2, ConstantsAssumption DEF Inv1, LatestIsUp, StagesMatch, Up, ActiveIsThere
    <2>3. CASE late
      BY <2>3 DEF ActiveIsThere
    <2> QED
      BY <2>1, <2>2, <2>3
  <1> QED
    BY <1>5, <1>6, <1>7, <1>8, <1>9, <1>10 DEF Inv2

LEMMA UserTwo ==
    ASSUME Types, Inv1, Inv2, Sequential,
           \/ SetConnectedProfile \/ OpenDialog \/ ConfirmDialog \/ CancelDialog
           \/ DisconnectIntent \/ OnRevoke \/ OnDestroy
    PROVE  Inv2'
  <1>1. CASE SetConnectedProfile
    BY <1>1, SameTwo DEF SetConnectedProfile, TwoVars
  <1>2. CASE OpenDialog \/ CancelDialog
    <2>1. UNCHANGED <<pthread, end, starter, mManagement, proc, noExitStatus, mStarting,
                      stopRequested, mOpenVPNThread, mProcessThread, posted, receiver, interrupted,
                      shown, socket, active, unread, line, serviceUp>>
      BY <1>2 DEF OpenDialog, CancelDialog
    <2>2. (OldIsOver /\ EndsAreJustified /\ UpIsOwnedNow)'
      BY <2>1 DEF Inv2, OldIsOver, EndsAreJustified, UpIsOwnedNow, Over, AllAtRest, AtRest, Up,
                  Owned
    <2>3. (LatestIsLast /\ ReplacedEndSilently /\ ActiveIsThere /\ LinesHaveThreads
           /\ DestroyedIsStopped)'
      BY <2>1 DEF Inv2, LatestIsLast, ReplacedEndSilently, ActiveIsThere, LinesHaveThreads,
                  DestroyedIsStopped, IsVPNActive
    <2>4. DialogIsCurrent'
      <3>1. CASE CancelDialog
        BY <3>1 DEF CancelDialog, DialogIsCurrent
      <3>2. CASE OpenDialog
        <4>1. Through /\ IsVPNActive
          BY <3>2 DEF OpenDialog, MayHappen, Sequential
        <4>2. \A k \in Sessions : starter[k] \in {"none", "done"}
          BY <4>1, ThroughOne
        <4>3. ASSUME NEW k \in Sessions
              PROVE  pthread[k] \in {"none", "ended"} \/ (proc[k] = "alive" /\ ~noExitStatus[k])
          <5>1. pthread[k] \in {"none", "ended"} \/ proc[k] = "alive"
            BY <4>1 DEF Through
          <5>2. proc[k] = "alive" => mManagement = k
            BY DEF Inv1, LatestIsUp, Up
          <5>3. noExitStatus[k] => mManagement # k
            BY <4>2 DEF Inv2, ReplacedEndSilently, BeforeOpen
          <5> QED
            BY <5>1, <5>2, <5>3
        <4>4. ASSUME ~late PROVE \E k \in Sessions : proc[k] = "alive" /\ ~noExitStatus[k]
          <5>1. /\ mManagement \in Sessions /\ ~noExitStatus[mManagement]
                /\ pthread[mManagement] \in {"exec", "reading", "waitFor", "died"}
            BY <4>1, <4>2, <4>4 DEF Inv2, ActiveIsThere, Starting, BeforeSpawn, Types, OrNone
          <5>2. proc[mManagement] = "alive"
            BY <4>1, <5>1 DEF Through
          <5> QED
            BY <5>1, <5>2
        <4> QED
          BY <2>1, <4>2, <4>3, <4>4 DEF DialogIsCurrent, StarterBusy
      <3> QED
        BY <1>2, <3>1, <3>2
    <2> QED
      BY <2>2, <2>3, <2>4 DEF Inv2
  <1>3. CASE ConfirmDialog
    BY <1>3, StopTwo DEF ConfirmDialog, StopSession, Sequential, Inv2, DialogIsCurrent
  <1>4. CASE DisconnectIntent \/ OnRevoke
    BY <1>4, StopTwo DEF DisconnectIntent, OnRevoke, StopSession, MayHappen, Sequential
  <1>5. CASE OnDestroy
    <2>1. /\ stopRequested
          /\ UNCHANGED <<pthread, end, starter, mManagement, noExitStatus, mStarting,
                         stopRequested, mOpenVPNThread, mProcessThread, posted, interrupted,
                         shown, dialog>>
      BY <1>5 DEF OnDestroy
    <2>2. \A k \in Sessions : ~Up(k) /\ starter[k] \in {"none", "post", "done"}
      BY <2>1 DEF Inv2, EndsAreJustified
    <2>3. /\ UNCHANGED <<active, unread, line>>
          /\ \A k \in Sessions : /\ socket'[k] = socket[k] \/ socket'[k] = "closed"
                                 /\ proc'[k] = "alive" => proc[k] = "alive"
                                 /\ proc[k] = "alive" => proc'[k] = "stopping" \/ proc'[k] = "alive"
      BY <1>5 DEF OnDestroy, StopVPN, Types
    <2>4. \A k \in Sessions : ~Up(k)'
      BY <2>1, <2>2, <2>3 DEF Up
    <2>5. OldIsOver'
      BY <2>1, <2>2 DEF Inv2, OldIsOver, Over, AtRest, BeforeStop, BeforeSpawn, Marked
    <2>6. EndsAreJustified' /\ UpIsOwnedNow'
      BY <2>1, <2>4 DEF Inv2, EndsAreJustified, UpIsOwnedNow, AtRest
    <2>7. (LatestIsLast /\ ReplacedEndSilently /\ ActiveIsThere /\ LinesHaveThreads
           /\ DestroyedIsStopped)'
      BY <2>1, <2>3 DEF Inv2, LatestIsLast, ReplacedEndSilently, ActiveIsThere, LinesHaveThreads,
                        DestroyedIsStopped, IsVPNActive, Types, OrNone
    <2>8. DialogIsCurrent'
      BY <1>5 DEF OnDestroy, DialogIsCurrent
    <2> QED
      BY <2>5, <2>6, <2>7, <2>8 DEF Inv2
  <1> QED
    BY <1>1, <1>2, <1>3, <1>4, <1>5

-----------------------------------------------------------------------------
(* The theorems                                                             *)

\* Starts, stops and exits one after the other leave no session behind, whatever
\* their number and the delays in each of them.
THEOREM SequenceHolds ==
    ASSUME Sequential
    PROVE  Spec => [](Inv1 /\ Inv2)
  <1>1. "start" \notin Overlap
    BY DEF Sequential
  <1>2. Types /\ Inv1 /\ Inv2 /\ [Next]_vars => Inv2'
    <2> SUFFICES ASSUME Types, Inv1, Inv2, [Next]_vars PROVE Inv2'
      OBVIOUS
    <2>1. CASE UNCHANGED vars
      BY <2>1, SameTwo DEF TwoVars
    <2> QED
      BY <2>1, EndTwo, StartTwo, MgmtTwo, LineTwo, ShowTwo, ThreadTwo, DiedTwo, ExitTwo,
         UserTwo DEF Next, MgmtThread, ProcessThread
  <1>3. Spec => []Inv1
    BY <1>1, OneSessionUp
  <1> QED
    BY InitTwo, <1>2, <1>3, TypeCorrect, TypesAre, PTL DEF Spec

\* Once the service is destroyed, no openvpn process is left behind.
THEOREM NothingOrphaned ==
    ASSUME Sequential
    PROVE  Spec => []NoOrphan
  <1>1. Inv2 => NoOrphan
    <2> SUFFICES ASSUME Inv2, ~serviceUp, NEW k \in Running PROVE FALSE
      BY DEF NoOrphan
    <2> QED
      BY RunningAre DEF Inv2, DestroyedIsStopped, EndsAreJustified
  <1> QED
    BY <1>1, SequenceHolds, PTL

\* The state a running VPN shows is never that of no process: the end of the
\* session it replaced is not shown over it.
THEOREM RunningShown ==
    ASSUME Sequential
    PROVE  Spec => []RunningIsShown
  <1>1. Inv2 => RunningIsShown
    BY RunningAre DEF Inv2, UpIsOwnedNow, RunningIsShown
  <1> QED
    BY <1>1, SequenceHolds, PTL

\* When everything has settled without a process, the state shown is not one of a VPN that
\* is active, and the user can start another, or it is that of a line handled after
\* processDied() of its session had shown the end.
THEOREM GoneShown ==
    ASSUME Sequential
    PROVE  Spec => []GoneIsShown
  <1>1. Types /\ Inv1 /\ Inv2 => GoneIsShown
    <2> SUFFICES ASSUME Types, Inv1, Inv2, Through, IsVPNActive, ~late PROVE Running # {}
      BY DEF GoneIsShown, GoneIsNeverActive, Quiet
    <2>1. \A k \in Sessions : starter[k] \in {"none", "done"}
      BY ThroughOne
    <2>2. /\ mManagement \in Sessions
          /\ pthread[mManagement] \in {"exec", "reading", "waitFor", "died"}
      BY <2>1 DEF Inv2, ActiveIsThere, Starting, BeforeSpawn, Types, OrNone
    <2>3. proc[mManagement] = "alive"
      BY <2>2 DEF Through
    <2> QED
      BY <2>2, <2>3 DEF Running
  <1> QED
    BY <1>1, SequenceHolds, TypeCorrect, TypesAre, PTL
=============================================================================
