------------------------------- MODULE Routes -------------------------------
(***************************************************************************)
(* From the routes a VPN session was given to the routes of the tun device *)
(* (NetworkSpace and the routing part of OpenVPNService).                  *)
(*                                                                         *)
(* A NetworkSpace is filled with included and excluded networks.  Android  *)
(* knows no excluded routes, so openTun() asks for a list of included ones *)
(* that has the same effect: generateIPList() walks the networks in order  *)
(* of their first address, merges what is redundant and splits what        *)
(* overlaps with a network of the other kind.  One step here is one round  *)
(* of that loop.  Addresses have Bits bits instead of 32 or 128.           *)
(***************************************************************************)
EXTENDS Integers, FiniteSets, Bags

CONSTANTS
    Bits,        \* length of an address
    NoNet,       \* null
    MaxRoutes,   \* how many networks the space may hold before openTun()
    Spaces,      \* "v4" and "v6" (mRoutes, mRoutesv6), "v4old": before Android 4.4
    Awkward      \* the awkward neighbourhoods defined below may occur

ASSUME ConstantsAssumption ==
    /\ Bits \in Nat \ {0} /\ MaxRoutes \in Nat /\ Awkward \in BOOLEAN
    /\ Spaces \subseteq {"v4", "v4old", "v6"}
    /\ NoNet \notin [net : Int, mask : Int, included : BOOLEAN]

VARIABLES
    space,       \* which of Spaces this is
    routes,      \* mIpAddresses
    networks,    \* the priority queue of generateIPList()
    currentNet,
    ipsDone,
    positive,    \* the result of getPositiveIPList()
    pc           \* "fill" (by the session), "local" (in openTun(), by
                 \* addLocalNetworksToRoutes()), "merge" (generateIPList()), "done"

work == <<networks, currentNet, ipsDone, positive>>
vars == <<space, routes, work, pc>>

\* 2^n, in a form that can be reasoned about.
PowerOfTwo[n \in Nat] == IF n = 0 THEN 1 ELSE 2 * PowerOfTwo[n - 1]

Addresses == 0..(PowerOfTwo[Bits] - 1)

\* A mask longer than an address, which split() may produce, clears no bit.
Size(mask) == IF mask < Bits THEN PowerOfTwo[Bits - mask] ELSE 1

First(n) == n.net - (n.net % Size(n.mask))
Last(n)  == First(n) + Size(n.mask) - 1

SameNet(a, b) == First(a) = First(b) /\ a.mask = b.mask

\* Mutant: larger networks come first.
BeforeLargestFirst(a, b) == \/ First(a) < First(b)
                            \/ First(a) = First(b) /\ a.mask < b.mask

\* compareTo() is negative: a smaller network comes before a larger one.
Before(a, b) == \/ First(a) < First(b)
                \/ First(a) = First(b) /\ a.mask > b.mask

ContainsNet(a, b) == First(a) <= First(b) /\ Last(a) >= Last(b)

LowerHalf(n) == [n EXCEPT !.net = First(n), !.mask = @ + 1]

\* Mutant: the upper half starts at the last address of the lower one.
UpperHalfOverlaps(n) == [n EXCEPT !.net = Last(LowerHalf(n)), !.mask = @ + 1]

UpperHalf(n) == [n EXCEPT !.net = Last(LowerHalf(n)) + 1, !.mask = @ + 1]

\* TreeSet.add(): a network that is there already stays as it is, included or not.
Add(nets, n) == IF \E m \in nets : SameNet(m, n) THEN nets ELSE nets \cup {n}
------------------------------------------------------------------------------
Init ==
    /\ space \in Spaces
    /\ routes = {} /\ networks = EmptyBag /\ currentNet = NoNet
    /\ ipsDone = {} /\ positive = {} /\ pc = "fill"

Inside(a, b) == a.mask > b.mask /\ ContainsNet(b, a)

\* A network that starts where the one around it starts, both inside a third.
StartIsShared(nets) ==
    \E k, m, n \in nets : Inside(m, k) /\ Inside(n, m) /\ First(n) = First(m)

\* An exception that is the upper half of a block whose lower half holds another one.
LowerHalfIsTaken(nets) ==
    \E k, m, n \in nets :
        /\ Inside(m, k) /\ m.included # k.included /\ (First(m) \div Size(m.mask)) % 2 = 1
        /\ Last(n) < First(m) /\ ContainsNet([m EXCEPT !.mask = @ - 1], n)

\* The networks the callers may hand over now.
Fits(nets) ==
    /\ Cardinality(routes) < MaxRoutes
    /\ Awkward \/ ~(StartIsShared(routes \cup nets) \/ LowerHalfIsTaken(routes \cup nets))

\* addRoute(): the address is normalised, the device decides whether to include.
AddRoute(net, mask, include) ==
    LET route == [net |-> net - (net % Size(mask)), mask |-> mask, included |-> include]
    IN  /\ pc = "fill" /\ space \in {"v4", "v4old"} /\ Fits({route})
        /\ routes' = Add(routes, route)
        /\ UNCHANGED <<space, work, pc>>

\* addRoutev6(): the address is taken as it comes.
AddRoutev6(net, mask, include) ==
    LET route == [net |-> net, mask |-> mask, included |-> include]
    IN  /\ pc = "fill" /\ space = "v6" /\ Fits({route})
        /\ routes' = Add(routes, route)
        /\ UNCHANGED <<space, work, pc>>

\* addLocalNetworksToRoutes(), for one interface: new devices exclude its network,
\* old ones include both halves of it, which overrules the route of the interface.
\* (The halves of a single address are rejected by Android; that is not modelled.)
AddLocalNetwork(net, mask) ==
    LET local  == [net |-> net, mask |-> mask, included |-> space = "v4old"]
    IN  /\ pc \in {"fill", "local"} /\ pc' = "local"
        /\ \/ /\ space = "v4" /\ Fits({local})
              /\ routes' = Add(routes, local)
           \/ /\ space = "v4old" /\ mask < Bits /\ Fits({LowerHalf(local), UpperHalf(local)})
              /\ routes' = Add(Add(routes, LowerHalf(local)), UpperHalf(local))
        /\ UNCHANGED <<space, work>>
------------------------------------------------------------------------------
\* networks.poll() may return any of the least networks, and null when empty.
Least(queue) ==
    IF queue = EmptyBag THEN {NoNet}
    ELSE {n \in BagToSet(queue) : \A m \in BagToSet(queue) : ~Before(m, n)}

Without(queue, n) == queue (-) SetToBag({n} \ {NoNet})

InQueue(queue, n) == \E m \in BagToSet(queue) : SameNet(m, n)

\* networks.add() of several networks, one after the other.
WithAll(queue, nets) == queue (+) SetToBag(nets)

GenerateIPList ==
    /\ pc \in {"fill", "local"}
    /\ pc' = "merge"
    /\ \E n \in Least(SetToBag(routes)) :
           /\ currentNet' = n
           /\ networks' = Without(SetToBag(routes), n)
    /\ ipsDone' = {}
    /\ UNCHANGED <<space, routes, positive>>

Overlaps(next) == next # NoNet /\ Last(currentNet) >= First(next)

\* currentNet is not larger than the next network and has the same first address.
WithinNext(next) == First(currentNet) = First(next) /\ currentNet.mask >= next.mask

\* Nothing overlaps with currentNet any more.
Finish(next) ==
    /\ ~Overlaps(next)
    /\ ipsDone' = Add(ipsDone, currentNet)
    /\ currentNet' = next
    /\ networks' = Without(networks, next)

\* Mutant: the next network replaces the current one whatever its kind.
ForgetCurrentOfAnyKind(next) ==
    /\ Overlaps(next) /\ WithinNext(next)
    /\ currentNet' = next
    /\ networks' = Without(networks, next)
    /\ UNCHANGED ipsDone

\* currentNet is part of a network of the same kind.
ForgetCurrent(next) ==
    /\ Overlaps(next) /\ WithinNext(next)
    /\ currentNet.included = next.included
    /\ currentNet' = next
    /\ networks' = Without(networks, next)
    /\ UNCHANGED ipsDone

\* currentNet is the beginning of a larger network of the other kind, which is split.
SplitNext(next) ==
    LET rest == Without(networks, next)
        halves == {UpperHalf(next)} \cup
                  (IF Last(LowerHalf(next)) = Last(currentNet) THEN {} ELSE {LowerHalf(next)})
    IN  /\ Overlaps(next) /\ WithinNext(next)
        /\ currentNet.included # next.included
        /\ networks' = WithAll(rest, {h \in halves : ~InQueue(rest, h)})
        /\ UNCHANGED <<currentNet, ipsDone>>

\* Mutant: the next network is put back.
ForgetNextPutsBack(next) ==
    /\ Overlaps(next) /\ ~WithinNext(next)
    /\ currentNet.included = next.included
    /\ UNCHANGED <<currentNet, networks, ipsDone>>

\* The next network is part of currentNet and of the same kind.
ForgetNext(next) ==
    /\ Overlaps(next) /\ ~WithinNext(next)
    /\ currentNet.included = next.included
    /\ networks' = Without(networks, next)
    /\ UNCHANGED <<currentNet, ipsDone>>

\* The next network is part of currentNet and of the other kind: currentNet is split.
SplitCurrent(next) ==
    /\ Overlaps(next) /\ ~WithinNext(next)
    /\ currentNet.included # next.included
    /\ currentNet' = LowerHalf(currentNet)
    /\ networks' = IF UpperHalf(currentNet).mask = next.mask
                   THEN networks
                   ELSE WithAll(networks, {UpperHalf(currentNet)})
    /\ UNCHANGED ipsDone

Merge ==
    /\ pc = "merge" /\ currentNet # NoNet
    /\ \E next \in Least(networks) :
           \/ Finish(next) \/ ForgetCurrent(next) \/ SplitNext(next)
           \/ ForgetNext(next) \/ SplitCurrent(next)
    /\ UNCHANGED <<space, routes, positive, pc>>

\* Routes of the original space that old devices need besides the calculated ones,
\* unless part of them is excluded.
AddedBack ==
    {r \in routes : /\ r.included /\ ~\E n \in ipsDone : SameNet(n, r)
                    /\ \A n \in ipsDone : n.included \/ ~ContainsNet(r, n)}

\* getPositiveIPList(), once generateIPList() has returned.
GetPositiveIPList ==
    /\ pc = "merge" /\ currentNet = NoNet
    /\ pc' = "done"
    /\ positive' = {n \in ipsDone : n.included} \cup (IF space = "v4old" THEN AddedBack ELSE {})
    /\ UNCHANGED <<space, routes, networks, currentNet, ipsDone>>

\* openTun() clears the space for the next configuration.
Clear ==
    /\ pc = "done"
    /\ pc' = "fill"
    /\ routes' = {} /\ positive' = {} /\ ipsDone' = {}
    /\ UNCHANGED <<space, networks, currentNet>>

Next ==
    \/ \E net \in Addresses, mask \in 0..Bits :
           \/ \E include \in BOOLEAN :
                  AddRoute(net, mask, include) \/ AddRoutev6(net, mask, include)
           \/ AddLocalNetwork(net, mask)
    \/ GenerateIPList \/ Merge \/ GetPositiveIPList \/ Clear

Spec == Init /\ [][Next]_vars

\* openTun() runs its loop to the end.
FairSpec == Spec /\ WF_vars(Merge) /\ WF_vars(GetPositiveIPList)
------------------------------------------------------------------------------
(* Properties                                                               *)

Within(a, n) == First(n) <= a /\ a <= Last(n)

Network == [net : Addresses, mask : 0..(Bits + 1), included : BOOLEAN]

\* Every variable keeps its type, every network lies within the address space, and
\* the space never holds the same network twice.
TypeOK ==
    /\ routes \cup ipsDone \cup positive \cup BagToSet(networks) \subseteq Network
    /\ IsABag(networks)
    /\ currentNet \in Network \cup {NoNet}
    /\ pc \in {"fill", "local", "merge", "done"}
    /\ \A m, n \in routes : SameNet(m, n) => m = n

\* What a set of networks says of an address: the kinds of its smallest networks.
Verdict(nets, a) ==
    LET around == {n \in nets : Within(a, n)}
    IN  {n.included : n \in {m \in around : \A k \in around : k.mask <= m.mask}}

\* The networks not yet dealt with, the current one and the finished ones always
\* decide about every address as the original space does: no round of the loop in
\* generateIPList() forgets, covers up or lets through an address (awkward neighbours, the
\* two neighbourhoods above, apart: Awkward = FALSE).
SpaceIsKept ==
    pc = "merge" =>
        \A a \in Addresses :
            Verdict(ipsDone \cup BagToSet(networks) \cup ({currentNet} \ {NoNet}), a)
                = Verdict(routes, a)

\* The list of getPositiveIPList() covers exactly the addresses whose smallest
\* network is included: nothing that should bypass the VPN goes through it, and
\* nothing that should go through it leaks (awkward neighbours apart).
PositiveIsExact ==
    pc = "done" =>
        \A a \in Addresses : (\E n \in positive : Within(a, n)) <=> Verdict(routes, a) = {TRUE}

\* generateIPList() returns networks that do not overlap ("no overlapping nothing
\* to do"), also while it is still at work.
DoneIsDisjoint ==
    \A m, n \in ipsDone : m = n \/ Last(m) < First(n) \/ Last(n) < First(m)

SplitNextIsRight(next) ==
    /\ Last(UpperHalf(next)) = Last(next)
    /\ Last(LowerHalf(next)) = Last(currentNet) => LowerHalf(next).mask = currentNet.mask

SplitCurrentIsRight(next) ==
    LET upper == UpperHalf(currentNet)
    IN  /\ Last(upper) = Last(currentNet)
        /\ upper.mask = next.mask => First(upper) = First(next)

\* The assertions of a debug build in generateIPList() and split(): the halves have the
\* sizes and places the comments claim, if no networks are awkward neighbours; with
\* Awkward = TRUE (routes_awkward.cfg) they fail.
AssertionsHold ==
    pc = "merge" /\ currentNet # NoNet =>
        \A next \in Least(networks) : Overlaps(next) =>
            IF WithinNext(next)
            THEN currentNet.included # next.included => SplitNextIsRight(next)
            ELSE /\ currentNet.mask < next.mask
                 /\ First(next) > First(currentNet)
                 /\ Last(currentNet) >= Last(next)
                 /\ currentNet.included # next.included => SplitCurrentIsRight(next)

\* generateIPList() comes to an end although it puts networks back into its queue.
Terminates == pc = "merge" ~> pc = "done"
=============================================================================
