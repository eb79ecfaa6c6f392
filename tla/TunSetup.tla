------------------------------ MODULE TunSetup ------------------------------
(***************************************************************************)
(* Setting up the tun device of a VPN session.                             *)
(*                                                                         *)
(* When the server has pushed its options, the openvpn process asks the    *)
(* app line by line (NEED-OK) to note address, routes, DNS servers and     *)
(* domain, whether an open tun may be kept, and at last to open one.  The  *)
(* management thread of the session notes them in fields of the service,   *)
(* which openTun() uses and clears.  The service lives longer than a       *)
(* setup: a process that reconnects or ends in between, and a tun that is  *)
(* kept, leave their options behind.                                       *)
(*                                                                         *)
(* The process waits for the answer to each line, so a line and its answer *)
(* are one step.  Which networks the routes of a tun add up to is the      *)
(* business of module Routes; mRoutes and mRoutesv6 hold different         *)
(* networks and are one variable.                                          *)
(***************************************************************************)
EXTENDS Naturals, Sequences, FiniteSets

CONSTANTS
    Configs,        \* what a server may push
    LocalNets,      \* networks of the other interfaces of the device
    AllowLocalLAN,  \* mAllowLocalLAN of the profile, on Android 4.4 or newer
    PersistTun,     \* mPersistTun of the profile
    Interrupts,     \* a process may restart or end in the middle of a setup
    Faults,         \* what the system may refuse: "address", "establish"
    MaxSetups,      \* how many setups there are in all
    None            \* null

Elements(q) == {q[i] : i \in 1..Len(q)}

\* A server names an address, a server and a network once; the interface has its
\* own network.
Consistent(c) ==
    /\ c.dns \in Seq(Elements(c.dns)) /\ c.routes \in Seq(Elements(c.routes))
    /\ \A i, j \in 1..Len(c.dns) : c.dns[i] = c.dns[j] => i = j
    /\ \A i, j \in 1..Len(c.routes) : c.routes[i].net = c.routes[j].net => i = j
    /\ \A i \in 1..Len(c.routes) : c.routes[i].net # c.ip

ASSUME ConstantsAssumption ==
    /\ \A c \in Configs : Consistent(c)
    /\ {AllowLocalLAN, PersistTun, Interrupts} \subseteq BOOLEAN
    /\ Faults \subseteq {"address", "establish"} /\ MaxSetups \in Nat

VARIABLES
    localIP, localIPv6, dnslist, domain, routes, lastTunCfg,  \* OpenVPNService
    tun,        \* the interface the system routes by, None without one
    proc,       \* the process: "none", "setup", "up"
    todo,       \* the lines it still has to send
    asked,      \* the options it was pushed last
    hasTun,     \* it holds the descriptor of a tun
    setups,     \* setups so far
    left,       \* history: since the fields were last used up or new, a tun was
                \* kept or a setup was given up,
    tidy,       \*   which was not so when the present setup began
    found       \* history: the domain and the routes the present setup found noted

fields  == <<localIP, localIPv6, dnslist, domain, routes>>
process == <<proc, todo, asked, hasTun, setups>>
vars    == <<fields, lastTunCfg, tun, process, left, tidy, found>>

------------------------------------------------------------------------------
(* The service                                                              *)

\* getTunConfigString(): equal strings for equal fields.
TunConfig(rts) == [ip |-> localIP, ipv6 |-> localIPv6, dns |-> dnslist,
                   domain |-> domain, routes |-> rts]

FieldsAreEmpty ==
    localIP = None /\ localIPv6 = None /\ dnslist = <<>> /\ domain = None /\ routes = {}

Init ==
    /\ FieldsAreEmpty /\ lastTunCfg = None
    /\ tun = None
    /\ proc = "none" /\ todo = <<>> /\ asked = None /\ hasTun = FALSE
    /\ setups = 0 /\ left = FALSE /\ tidy = TRUE
    /\ found = [domain |-> None, routes |-> {}]

\* NetworkSpace.addIP(): a network that is known already stays as it is.
AddIP(rts, r) == IF \E q \in rts : q.net = r.net THEN rts ELSE rts \cup {r}

Included(net) == [net |-> net, included |-> TRUE]
Excluded(net) == [net |-> net, included |-> FALSE]

AddDNS(server) ==
    /\ dnslist' = Append(dnslist, server)
    /\ UNCHANGED <<localIP, localIPv6, domain, routes>>

SetDomain(d) ==
    /\ domain' = IF domain = None THEN d ELSE domain
    /\ UNCHANGED <<localIP, localIPv6, dnslist, routes>>

\* addRoute() of an IPv4 route needs the address of the interface.
AddRoute(r) ==
    /\ routes' = IF localIP = None THEN routes ELSE AddIP(routes, r)
    /\ UNCHANGED <<localIP, localIPv6, dnslist, domain>>

AddRoutev6(r) ==
    /\ routes' = AddIP(routes, r)
    /\ UNCHANGED <<localIP, localIPv6, dnslist, domain>>

\* setLocalIP() also routes the network of the interface.
SetLocalIP(ip) ==
    /\ localIP' = ip
    /\ routes' = AddIP(routes, Included(ip))
    /\ UNCHANGED <<localIPv6, dnslist, domain>>

SetLocalIPv6(ip) ==
    /\ localIPv6' = ip
    /\ UNCHANGED <<localIP, dnslist, domain, routes>>

\* addLocalNetworksToRoutes(), which openTun() calls if there is an IPv4 address.
WithLocalNetworks ==
    routes \cup (IF AllowLocalLAN /\ localIP # None
                 THEN {Excluded(n) : n \in {m \in LocalNets \ {localIP} :
                                               \A r \in routes : r.net # m}}
                 ELSE {})
------------------------------------------------------------------------------
(* The process, as far as it shows on the management socket (external)      *)

Line(need, arg) == [need |-> need, arg |-> arg]

\* The lines of a setup: the address first, the decision about the tun last.
Lines(c) ==
    (IF c.ip = None THEN <<>> ELSE <<Line("IFCONFIG", c.ip)>>) \o
    (IF c.ipv6 = None THEN <<>> ELSE <<Line("IFCONFIG6", c.ipv6)>>) \o
    [i \in 1..Len(c.routes) |->
        Line(IF c.routes[i].v6 THEN "ROUTE6" ELSE "ROUTE",
             [net |-> c.routes[i].net, included |-> c.routes[i].included])] \o
    [i \in 1..Len(c.dns) |-> Line("DNSSERVER", c.dns[i])] \o
    (IF c.domain = None THEN <<>> ELSE <<Line("DNSDOMAIN", c.domain)>>)

\* Without persist-tun the process closes its tun before it connects again.
BeginSetup(c) ==
    /\ setups < MaxSetups
    /\ setups' = setups + 1
    /\ proc' = "setup" /\ asked' = c
    /\ hasTun' = (hasTun /\ PersistTun)
    /\ tun' = IF hasTun' THEN tun ELSE None
    /\ todo' = Lines(c) \o <<Line(IF hasTun' THEN "PERSIST_TUN_ACTION" ELSE "OPENTUN", None)>>
    /\ left' = (left \/ proc = "setup") /\ tidy' = ~left'
    /\ found' = [domain |-> domain, routes |-> routes]
    /\ UNCHANGED <<fields, lastTunCfg>>

MayStop == proc = "up" \/ (proc = "setup" /\ Interrupts)

\* A new session of the same service, whose process has no tun yet.
StartSession == proc = "none" /\ \E c \in Configs : BeginSetup(c)

\* The process reconnects (SIGUSR1, a lost server) and is pushed options again.
Reconnect == MayStop /\ \E c \in Configs : BeginSetup(c)

\* The process ends, and the descriptor of its tun is closed.
ProcessIsGone ==
    /\ proc' = "none" /\ todo' = <<>> /\ hasTun' = FALSE /\ tun' = None
    /\ UNCHANGED <<asked, setups, tidy, found>>

ProcessEnds ==
    /\ MayStop /\ ProcessIsGone
    /\ left' = (left \/ proc = "setup")
    /\ UNCHANGED <<fields, lastTunCfg>>

\* A service without a session may be destroyed; the next one starts afresh.
ServiceEnds ==
    /\ proc = "none"
    /\ localIP' = None /\ localIPv6' = None /\ dnslist' = <<>> /\ domain' = None
    /\ routes' = {} /\ lastTunCfg' = None /\ left' = FALSE
    /\ UNCHANGED <<tun, process, tidy, found>>
------------------------------------------------------------------------------
(* processNeedCommand()                                                     *)

Asks(need) == proc = "setup" /\ Head(todo).need = need

Answered == todo' = Tail(todo) /\ UNCHANGED <<proc, asked, hasTun, setups, left, tidy, found>>

\* The options that are noted and answered with "ok".
NoteOption ==
    /\ LET line == Head(todo)
       IN  \/ Asks("DNSSERVER") /\ AddDNS(line.arg)
           \/ Asks("DNSDOMAIN") /\ SetDomain(line.arg)
           \/ Asks("ROUTE") /\ AddRoute(line.arg)
           \/ Asks("ROUTE6") /\ AddRoutev6(line.arg)
           \/ Asks("IFCONFIG") /\ SetLocalIP(line.arg)
           \/ Asks("IFCONFIG6") /\ SetLocalIPv6(line.arg)
    /\ Answered
    /\ UNCHANGED <<lastTunCfg, tun>>

\* Mutant: the routes are not compared.
ConfigStayedTheSameButRoutes ==
    /\ lastTunCfg # None
    /\ TunConfig(lastTunCfg.routes) = lastTunCfg

ConfigStayedTheSame == lastTunCfg # None /\ TunConfig(routes) = lastTunCfg

\* getTunReopenStatus() is "NOACTION": the process goes on with the tun it has.
KeepTun ==
    /\ Asks("PERSIST_TUN_ACTION") /\ ConfigStayedTheSame
    /\ proc' = "up" /\ todo' = <<>> /\ left' = TRUE
    /\ UNCHANGED <<asked, hasTun, setups, fields, lastTunCfg, tun, tidy, found>>

\* getTunReopenStatus() is "OPEN_BEFORE_CLOSE": the process asks for a new tun.
ReopenTun ==
    /\ Asks("PERSIST_TUN_ACTION") /\ ~ConfigStayedTheSame
    /\ todo' = <<Line("OPENTUN", None)>>
    /\ UNCHANGED <<proc, asked, hasTun, setups, fields, lastTunCfg, tun, left, tidy,
                   found>>

\* Mutant: the DNS servers are not cleared.
ClearFieldsButDNS ==
    /\ localIP' = None /\ localIPv6' = None /\ domain' = None /\ routes' = {}
    /\ UNCHANGED dnslist

ClearFields ==
    /\ localIP' = None /\ localIPv6' = None /\ dnslist' = <<>> /\ domain' = None
    /\ routes' = {}

\* openTun() has no address to use: the answer is "cancel" and the process gives up.
NoAddress ==
    /\ Asks("OPENTUN") /\ localIP = None /\ localIPv6 = None
    /\ ProcessIsGone /\ left' = TRUE
    /\ UNCHANGED <<fields, lastTunCfg>>

\* Builder.addAddress() refuses: "cancel", after the local networks were added.
AddressRefused ==
    /\ Asks("OPENTUN") /\ "address" \in Faults /\ (localIP # None \/ localIPv6 # None)
    /\ routes' = WithLocalNetworks
    /\ ProcessIsGone /\ left' = TRUE
    /\ UNCHANGED <<localIP, localIPv6, dnslist, domain, lastTunCfg>>

\* openTun() logs the IPv4 address whether there is one or not: the management thread
\* dies of the null reference, and the app and its process with it.
NoIPv4Address ==
    /\ Asks("OPENTUN") /\ localIP = None /\ localIPv6 # None
    /\ ClearFields /\ lastTunCfg' = None
    /\ ProcessIsGone /\ left' = FALSE

\* establish() fails: "cancel", after the fields were used up.
EstablishRefused ==
    /\ Asks("OPENTUN") /\ "establish" \in Faults /\ localIP # None
    /\ lastTunCfg' = TunConfig(WithLocalNetworks)
    /\ ClearFields
    /\ ProcessIsGone /\ left' = FALSE

OpenTun ==
    /\ Asks("OPENTUN") /\ localIP # None
    /\ tun' = TunConfig(WithLocalNetworks)
    /\ lastTunCfg' = TunConfig(WithLocalNetworks)
    /\ ClearFields
    /\ proc' = "up" /\ todo' = <<>> /\ hasTun' = TRUE /\ left' = FALSE
    /\ UNCHANGED <<asked, setups, tidy, found>>

ProcessNeedCommand ==
    \/ NoteOption \/ KeepTun \/ ReopenTun
    \/ NoAddress \/ AddressRefused \/ NoIPv4Address \/ EstablishRefused \/ OpenTun

Next == StartSession \/ Reconnect \/ ProcessEnds \/ ServiceEnds \/ ProcessNeedCommand

Spec == Init /\ [][Next]_vars

\* The management thread reads the lines it is sent.
FairSpec == Spec /\ WF_vars(ProcessNeedCommand)
------------------------------------------------------------------------------
(* Properties                                                               *)

RoutesAsked(c) ==
    (IF c.ip = None THEN {} ELSE {Included(c.ip)}) \cup
    {[net |-> r.net, included |-> r.included] : r \in Elements(c.routes)}

LocalExceptions == IF AllowLocalLAN THEN {Excluded(n) : n \in LocalNets} ELSE {}

\* A tun with the options of c, local networks that are let out apart.
AsAsked(t, c) ==
    /\ t.ip = c.ip /\ t.ipv6 = c.ipv6 /\ t.dns = c.dns /\ t.domain = c.domain
    /\ RoutesAsked(c) \subseteq t.routes
    /\ t.routes \subseteq RoutesAsked(c) \cup LocalExceptions

\* Every variable keeps its type; a network is never noted both ways.
TypeOK ==
    /\ proc \in {"none", "setup", "up"} /\ asked \in Configs \cup {None}
    /\ (proc = "setup") = (todo # <<>>)
    /\ {hasTun, left, tidy} \subseteq BOOLEAN /\ setups \in 0..MaxSetups
    /\ \A q, r \in routes : q.net = r.net => q = r

\* If every setup before it ended with a new tun, a session gets exactly the tun it
\* asked for, whether openTun() opens one or getTunReopenStatus() keeps the old one:
\* the options of one setup never get into the tun of another.
TunIsAsAsked == proc = "up" /\ tidy => AsAsked(tun, asked)

\* No option gets lost on its way through the service but to one that an earlier setup
\* left behind: a session that is up has a tun with the addresses and all the DNS servers
\* its server named; its domain, unless setDomain() found one noted before; and each of
\* its networks the way it asked for, unless addIP() found that very network noted before
\* (IPv4 networks if it was given an IPv4 address, which addRoute() needs).
LostOnlyToLeftovers ==
    proc = "up" =>
        /\ hasTun
        /\ asked.ip # None => tun.ip = asked.ip
        /\ asked.ipv6 # None => tun.ipv6 = asked.ipv6
        /\ asked.domain # None => tun.domain \in {asked.domain, found.domain} \ {None}
        /\ Elements(asked.dns) \subseteq Elements(tun.dns)
        /\ \A r \in Elements(asked.routes) :
              r.v6 \/ asked.ip # None =>
                 \E q \in tun.routes :
                     q.net = r.net /\ (q.included = r.included \/ q \in found.routes)

\* Every setup comes to an end: each line is answered, and the process with a tun or
\* gone at last (processNeedCommand() answers all it is asked).
SetupEnds == proc = "setup" ~> proc # "setup"

\* "check if tun cfg stayed the same": a session that is up has the tun it asked for.
TunCfgStayedTheSame == proc = "up" => AsAsked(tun, asked)
=============================================================================
