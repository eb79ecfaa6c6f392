----------------------------- MODULE HoldHistory -----------------------------
(***************************************************************************)
(* PauseControl with one history variable, which restricts no step.  The   *)
(* app does not know whether the hold that a HOLD line announces is still  *)
(* there when it reads the line: after a restart that crossed a release on *)
(* the socket it is not, and mWaitingForRelease then speaks of a hold that *)
(* is over.  The history variable tells this flag from a true one.         *)
(***************************************************************************)
EXTENDS PauseControl

VARIABLE late  \* mWaitingForRelease was set by a line whose hold had been released

histVars == <<vars, late>>

ReadsHold == mgmtAt = "read" /\ mgmtAt' = "hold"

\* The process is not in the hold, or on its way out of it.
HoldIsReleased == proc # "hold" \/ mainAt = "rel3" \/ In("release", toProc)

RememberLate ==
    late' = IF ReadsHold THEN HoldIsReleased ELSE late /\ waiting'

HistSpec == Init /\ late = FALSE /\ [][Next /\ RememberLate]_histVars
-----------------------------------------------------------------------------
\* A pause by the user keeps the process held: once everything has settled, either it
\* waits in its hold, whichever of pause(), the HOLD line, a release and SIGUSR1 came
\* first, or signalusr1() was kept from sending SIGUSR1 by the flag that a late HOLD line
\* had set.
PauseHolds == Settled /\ userpause = DISC => proc = "hold" \/ late
=============================================================================
