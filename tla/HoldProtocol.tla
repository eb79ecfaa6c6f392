---------------------------- MODULE HoldProtocol ----------------------------
(***************************************************************************)
(* What the pausing of one VPN session promises, without threads, timers   *)
(* and a socket: the openvpn process leaves its hold only by a release     *)
(* that was decided while the network was there and the user had not       *)
(* paused the VPN.                                                         *)
(***************************************************************************)
VARIABLES
    held,    \* the process is in its hold
    wanted,  \* neither the network nor the user speaks against running
    due      \* a release was decided and has yet to reach the process

vars == <<held, wanted, due>>

Init == held = TRUE /\ wanted = FALSE /\ due = FALSE

\* A reason to pause comes up; a release that was decided before is on its way.
Refuse == wanted' = FALSE /\ UNCHANGED <<held, due>>

\* The last reason goes away, and with it, or later, a release is decided.
Want == wanted' = TRUE /\ due' \in {due, TRUE} /\ UNCHANGED held

\* A release that was decided turns out to be of no use.
GiveUp == due /\ due' = FALSE /\ UNCHANGED <<held, wanted>>

\* The process restarts, for it was told to or lost the server.
Hold == ~held /\ held' = TRUE /\ UNCHANGED <<wanted, due>>

\* A release reaches the process; another one may be on its way.
Run == held /\ due /\ held' = FALSE /\ due' \in BOOLEAN /\ UNCHANGED wanted

Next == Refuse \/ Want \/ GiveUp \/ Hold \/ Run

Spec == Init /\ [][Next]_vars
=============================================================================
