--------------------------- MODULE TunSetupProofs ---------------------------
(***************************************************************************)
(* What is proved of TunSetup: whatever a server pushes, however often a   *)
(* process reconnects or ends in the middle of a setup and whatever the    *)
(* system refuses, an option is lost to a leftover only, and nothing is    *)
(* mixed up as long as nothing was left behind.                            *)
(*                                                                         *)
(* The argument: in a setup the lines still to come are an end of Lines of *)
(* what was pushed, and the fields hold what the lines before them say     *)
(* (AtLeast), or what was found there before (FieldsAreFrom), and nothing  *)
(* else if they were empty at first (Exactly).                             *)
(***************************************************************************)
EXTENDS TunSetup, SequenceTheorems, TLAPS

\* The places of the lines of a setup: how many there are up to the address, ...
AfterIP(c)     == IF c.ip = None THEN 0 ELSE 1
AfterIPv6(c)   == AfterIP(c) + (IF c.ipv6 = None THEN 0 ELSE 1)
AfterRoutes(c) == AfterIPv6(c) + Len(c.routes)
AfterDNS(c)    == AfterRoutes(c) + Len(c.dns)
AfterDomain(c) == AfterDNS(c) + (IF c.domain = None THEN 0 ELSE 1)

RouteArg(r)  == [net |-> r.net, included |-> r.included]
RouteLine(r) == Line(IF r.v6 THEN "ROUTE6" ELSE "ROUTE", RouteArg(r))

\* The line at place j.
LineAt(c, j) ==
    IF j <= AfterIP(c) THEN Line("IFCONFIG", c.ip)
    ELSE IF j <= AfterIPv6(c) THEN Line("IFCONFIG6", c.ipv6)
    ELSE IF j <= AfterRoutes(c) THEN RouteLine(c.routes[j - AfterIPv6(c)])
    ELSE IF j <= AfterDNS(c) THEN Line("DNSSERVER", c.dns[j - AfterRoutes(c)])
    ELSE Line("DNSDOMAIN", c.domain)

Decisions == {Line("PERSIST_TUN_ACTION", None), Line("OPENTUN", None)}

LineSet(c) ==
    {Line("IFCONFIG", c.ip), Line("IFCONFIG6", c.ipv6), Line("DNSDOMAIN", c.domain)}
    \cup {RouteLine(c.routes[i]) : i \in 1..Len(c.routes)}
    \cup {Line("DNSSERVER", c.dns[i]) : i \in 1..Len(c.dns)}
    \cup Decisions

------------------------------------------------------------------------------
(* Lemmas about the lines                                                     *)

\* The options of a server are sequences.
LEMMA ConfigsAre ==
    ASSUME NEW c \in Configs
    PROVE  /\ c.dns \in Seq(Elements(c.dns)) /\ c.routes \in Seq(Elements(c.routes))
           /\ Len(c.dns) \in Nat /\ Len(c.routes) \in Nat
  BY ConstantsAssumption DEF Consistent

\* The places come one after the other.
LEMMA PlacesAre ==
    ASSUME NEW c \in Configs
    PROVE  /\ AfterIP(c) \in 0..1 /\ AfterIPv6(c) \in AfterIP(c)..(AfterIP(c) + 1)
           /\ AfterRoutes(c) \in Nat /\ AfterDNS(c) \in Nat /\ AfterDomain(c) \in Nat
           /\ AfterIPv6(c) <= AfterRoutes(c) /\ AfterRoutes(c) <= AfterDNS(c)
           /\ AfterDomain(c) \in AfterDNS(c)..(AfterDNS(c) + 1)
  <1>1. Len(c.dns) \in Nat /\ Len(c.routes) \in Nat
    BY ConfigsAre
  <1>2. AfterIP(c) \in 0..1
    BY DEF AfterIP
  <1>3. AfterIPv6(c) \in AfterIP(c)..(AfterIP(c) + 1)
    BY <1>2 DEF AfterIPv6
  <1>4. AfterRoutes(c) \in Nat /\ AfterIPv6(c) <= AfterRoutes(c)
    BY <1>1, <1>2, <1>3 DEF AfterRoutes
  <1>5. AfterDNS(c) \in Nat /\ AfterRoutes(c) <= AfterDNS(c)
    BY <1>1, <1>4 DEF AfterDNS
  <1>6. AfterDomain(c) \in AfterDNS(c)..(AfterDNS(c) + 1) /\ AfterDomain(c) \in Nat
    BY <1>5 DEF AfterDomain
  <1> QED
    BY <1>2, <1>3, <1>4, <1>5, <1>6

\* A line that is left out if there is nothing to say.
LEMMA OptionalLine ==
    ASSUME NEW S, NEW x \in S, NEW y, NEW q, q = IF y = None THEN <<>> ELSE <<x>>
    PROVE  /\ q \in Seq(S) /\ Len(q) = (IF y = None THEN 0 ELSE 1)
           /\ \A j \in 1..Len(q) : q[j] = x
  <1>1. CASE y = None
    BY <1>1
  <1>2. CASE y # None
    <2>1. q = <<x>>
      BY <1>2
    <2> QED
      BY <1>2, <2>1
  <1> QED
    BY <1>1, <1>2

\* Lines after lines: n lines in all, the first m of them those of p.
LEMMA LinesAfter ==
    ASSUME NEW S, NEW p \in Seq(S), NEW q \in Seq(S)
    PROVE  /\ p \o q \in Seq(S) /\ Len(p \o q) = Len(p) + Len(q)
           /\ \A m, n \in Nat : Len(p) = m /\ Len(q) = n - m =>
                 /\ Len(p \o q) = n
                 /\ \A j \in 1..n :
                       /\ j <= m => (p \o q)[j] = p[j]
                       /\ j > m => (p \o q)[j] = q[j - m]
  <1>1. p \o q \in Seq(S) /\ Len(p \o q) = Len(p) + Len(q)
    BY ConcatProperties
  <1>2. \A i \in 1..(Len(p) + Len(q)) :
            (p \o q)[i] = IF i <= Len(p) THEN p[i] ELSE q[i - Len(p)]
    BY ConcatProperties
  <1>3. ASSUME NEW m \in Nat, NEW n \in Nat, Len(p) = m, Len(q) = n - m
        PROVE  /\ Len(p \o q) = n
               /\ \A j \in 1..n :
                     /\ j <= m => (p \o q)[j] = p[j]
                     /\ j > m => (p \o q)[j] = q[j - m]
    <2>1. Len(p) + Len(q) = n
      BY <1>3
    <2>2. \A j \in 1..n : (p \o q)[j] = IF j <= m THEN p[j] ELSE q[j - m]
      BY <1>2, <1>3, <2>1
    <2> QED
      BY <1>1, <1>3, <2>1, <2>2
  <1> QED
    BY <1>1, <1>3

\* The lines of a setup, each at its place.
LEMMA LinesAre ==
    ASSUME NEW c \in Configs
    PROVE  /\ Lines(c) \in Seq(LineSet(c)) /\ Len(Lines(c)) = AfterDomain(c)
           /\ \A j \in 1..AfterDomain(c) : Lines(c)[j] = LineAt(c, j)
  <1> DEFINE S == LineSet(c)
             a == IF c.ip = None THEN <<>> ELSE <<Line("IFCONFIG", c.ip)>>
             b == IF c.ipv6 = None THEN <<>> ELSE <<Line("IFCONFIG6", c.ipv6)>>
             r == [i \in 1..Len(c.routes) |-> RouteLine(c.routes[i])]
             d == [i \in 1..Len(c.dns) |-> Line("DNSSERVER", c.dns[i])]
             e == IF c.domain = None THEN <<>> ELSE <<Line("DNSDOMAIN", c.domain)>>
  <1>0. Lines(c) = a \o b \o r \o d \o e
    BY DEF Lines, RouteLine, RouteArg
  <1>1. Len(c.dns) \in Nat /\ Len(c.routes) \in Nat
    BY ConfigsAre
  <1>2. a \in Seq(S) /\ Len(a) = AfterIP(c)
        /\ \A j \in 1..Len(a) : a[j] = Line("IFCONFIG", c.ip)
    <2>1. Line("IFCONFIG", c.ip) \in S
      BY DEF LineSet
    <2> QED
      BY <2>1, OptionalLine DEF AfterIP
  <1>3. b \in Seq(S) /\ Len(b) = AfterIPv6(c) - AfterIP(c)
        /\ \A j \in 1..Len(b) : b[j] = Line("IFCONFIG6", c.ipv6)
    <2>1. Line("IFCONFIG6", c.ipv6) \in S
      BY DEF LineSet
    <2>2. Len(b) = AfterIPv6(c) - AfterIP(c)
      <3>1. Len(b) = (IF c.ipv6 = None THEN 0 ELSE 1)
        BY <2>1, OptionalLine
      <3> QED
        BY <3>1, PlacesAre DEF AfterIPv6
    <2> QED
      BY <2>1, <2>2, OptionalLine
  <1>4. r \in Seq(S) /\ Len(r) = Len(c.routes)
        /\ \A j \in 1..Len(r) : r[j] = RouteLine(c.routes[j])
    <2>1. \A i \in 1..Len(c.routes) : RouteLine(c.routes[i]) \in S
      BY DEF LineSet
    <2>2. r \in [1..Len(c.routes) -> S]
      BY <2>1
    <2> HIDE DEF S
    <2>3. r \in Seq(S)
      BY <1>1, <2>2, SeqDef
    <2>4. Len(r) = Len(c.routes)
      <3>1. DOMAIN r = 1..Len(c.routes)
        OBVIOUS
      <3>2. DOMAIN r = 1..Len(r) /\ Len(r) \in Nat
        BY <2>3, LenProperties
      <3> HIDE DEF r
      <3> QED
        BY <1>1, <3>1, <3>2
    <2> QED
      BY <2>3, <2>4
  <1>5. d \in Seq(S) /\ Len(d) = Len(c.dns)
        /\ \A j \in 1..Len(d) : d[j] = Line("DNSSERVER", c.dns[j])
    <2>1. \A i \in 1..Len(c.dns) : Line("DNSSERVER", c.dns[i]) \in S
      BY DEF LineSet
    <2>2. d \in [1..Len(c.dns) -> S]
      BY <2>1
    <2> HIDE DEF S
    <2>3. d \in Seq(S)
      BY <1>1, <2>2, SeqDef
    <2>4. Len(d) = Len(c.dns)
      <3>1. DOMAIN d = 1..Len(c.dns)
        OBVIOUS
      <3>2. DOMAIN d = 1..Len(d) /\ Len(d) \in Nat
        BY <2>3, LenProperties
      <3> HIDE DEF d
      <3> QED
        BY <1>1, <3>1, <3>2
    <2> QED
      BY <2>3, <2>4
  <1>6. e \in Seq(S) /\ Len(e) = AfterDomain(c) - AfterDNS(c)
        /\ \A j \in 1..Len(e) : e[j] = Line("DNSDOMAIN", c.domain)
    <2>1. Line("DNSDOMAIN", c.domain) \in S
      BY DEF LineSet
    <2>2. Len(e) = AfterDomain(c) - AfterDNS(c)
      <3>1. Len(e) = (IF c.domain = None THEN 0 ELSE 1)
        BY <2>1, OptionalLine
      <3> QED
        BY <3>1, PlacesAre DEF AfterDomain
    <2> QED
      BY <2>1, <2>2, OptionalLine
  <1> HIDE DEF a, b, r, d, e, S
  <1> DEFINE ab == a \o b
             abr == ab \o r
             abrd == abr \o d
  <1>0a. Lines(c) = abrd \o e
    BY <1>0
  <1>7. /\ ab \in Seq(S) /\ Len(ab) = AfterIPv6(c)
        /\ \A j \in 1..AfterIPv6(c) :
              /\ j <= AfterIP(c) => ab[j] = a[j]
              /\ j > AfterIP(c) => ab[j] = b[j - AfterIP(c)]
    <2>2. AfterIP(c) \in Nat /\ AfterIPv6(c) \in Nat
      BY PlacesAre
    <2>3. a \in Seq(S) /\ Len(a) = AfterIP(c) /\ b \in Seq(S)
      BY <1>2, <1>3
    <2>4. \A m, n \in Nat : Len(a) = m /\ Len(b) = n - m =>
             /\ Len(a \o b) = n
             /\ \A j \in 1..n :
                   /\ j <= m => (a \o b)[j] = a[j]
                   /\ j > m => (a \o b)[j] = b[j - m]
      BY <2>3, LinesAfter
    <2>5. a \o b \in Seq(S)
      BY <2>3, LinesAfter
    <2> QED
      BY <1>3, <2>2, <2>3, <2>4, <2>5
  <1>8. /\ abr \in Seq(S) /\ Len(abr) = AfterRoutes(c)
        /\ \A j \in 1..AfterRoutes(c) :
              /\ j <= AfterIPv6(c) => abr[j] = ab[j]
              /\ j > AfterIPv6(c) => abr[j] = r[j - AfterIPv6(c)]
    <2>1. Len(r) = AfterRoutes(c) - AfterIPv6(c)
      BY <1>1, <1>4, PlacesAre DEF AfterRoutes
    <2>2. AfterIPv6(c) \in Nat /\ AfterRoutes(c) \in Nat
      BY PlacesAre
    <2> HIDE DEF ab, r
    <2>3. ab \in Seq(S) /\ Len(ab) = AfterIPv6(c) /\ r \in Seq(S)
      BY <1>4, <1>7
    <2>4. \A m, n \in Nat : Len(ab) = m /\ Len(r) = n - m =>
             /\ Len(ab \o r) = n
             /\ \A j \in 1..n :
                   /\ j <= m => (ab \o r)[j] = ab[j]
                   /\ j > m => (ab \o r)[j] = r[j - m]
      BY <2>3, LinesAfter
    <2>5. ab \o r \in Seq(S)
      BY <2>3, LinesAfter
    <2> QED
      BY <2>1, <2>2, <2>3, <2>4, <2>5
  <1>9. /\ abrd \in Seq(S) /\ Len(abrd) = AfterDNS(c)
        /\ \A j \in 1..AfterDNS(c) :
              /\ j <= AfterRoutes(c) => abrd[j] = abr[j]
              /\ j > AfterRoutes(c) => abrd[j] = d[j - AfterRoutes(c)]
    <2>1. Len(d) = AfterDNS(c) - AfterRoutes(c)
      BY <1>1, <1>5, PlacesAre DEF AfterDNS
    <2>2. AfterRoutes(c) \in Nat /\ AfterDNS(c) \in Nat
      BY PlacesAre
    <2> HIDE DEF abr, d
    <2>3. abr \in Seq(S) /\ Len(abr) = AfterRoutes(c) /\ d \in Seq(S)
      BY <1>5, <1>8
    <2>4. \A m, n \in Nat : Len(abr) = m /\ Len(d) = n - m =>
             /\ Len(abr \o d) = n
             /\ \A j \in 1..n :
                   /\ j <= m => (abr \o d)[j] = abr[j]
                   /\ j > m => (abr \o d)[j] = d[j - m]
      BY <2>3, LinesAfter
    <2>5. abr \o d \in Seq(S)
      BY <2>3, LinesAfter
    <2> QED
      BY <2>1, <2>2, <2>3, <2>4, <2>5
  <1>10. /\ Lines(c) \in Seq(S) /\ Len(Lines(c)) = AfterDomain(c)
         /\ \A j \in 1..AfterDomain(c) :
              /\ j <= AfterDNS(c) => Lines(c)[j] = abrd[j]
              /\ j > AfterDNS(c) => Lines(c)[j] = e[j - AfterDNS(c)]
    <2>1. Len(e) = AfterDomain(c) - AfterDNS(c)
      BY <1>6
    <2>2. AfterDNS(c) \in Nat /\ AfterDomain(c) \in Nat
      BY PlacesAre
    <2> HIDE DEF abrd, e
    <2>3. abrd \in Seq(S) /\ Len(abrd) = AfterDNS(c) /\ e \in Seq(S)
      BY <1>6, <1>9
    <2>4. \A m, n \in Nat : Len(abrd) = m /\ Len(e) = n - m =>
             /\ Len(abrd \o e) = n
             /\ \A j \in 1..n :
                   /\ j <= m => (abrd \o e)[j] = abrd[j]
                   /\ j > m => (abrd \o e)[j] = e[j - m]
      BY <2>3, LinesAfter
    <2>5. abrd \o e \in Seq(S)
      BY <2>3, LinesAfter
    <2> QED
      BY <1>0a, <2>1, <2>2, <2>3, <2>4, <2>5
  <1> HIDE DEF ab, abr, abrd
  <1>11. ASSUME NEW j \in 1..AfterDomain(c) PROVE Lines(c)[j] = LineAt(c, j)
    <2>1. /\ j \in Nat \ {0} /\ AfterIP(c) \in Nat /\ AfterIPv6(c) \in Nat
          /\ AfterRoutes(c) \in Nat /\ AfterDNS(c) \in Nat /\ AfterDomain(c) \in Nat
          /\ AfterIP(c) <= AfterIPv6(c) /\ AfterIPv6(c) <= AfterRoutes(c)
          /\ AfterRoutes(c) <= AfterDNS(c)
      BY PlacesAre
    <2>2. j <= AfterDNS(c) => Lines(c)[j] = abrd[j]
      BY <1>10
    <2>3. j <= AfterRoutes(c) => abrd[j] = abr[j]
      BY <1>9, <2>1
    <2>4. j <= AfterIPv6(c) => abr[j] = ab[j]
      BY <1>8, <2>1
    <2>5. j <= AfterIP(c) => ab[j] = a[j]
      BY <1>7, <2>1
    <2>6. CASE j <= AfterIP(c)
      <3>1. Lines(c)[j] = a[j]
        BY <2>6, <2>1, <2>2, <2>3, <2>4, <2>5
      <3> QED
        BY <2>6, <3>1, <1>2, <2>1 DEF LineAt
    <2>7. CASE j > AfterIP(c) /\ j <= AfterIPv6(c)
      <3>1. Lines(c)[j] = ab[j]
        BY <2>7, <2>1, <2>2, <2>3, <2>4
      <3>2. ab[j] = b[j - AfterIP(c)]
        BY <2>7, <2>1, <1>7
      <3>3. j - AfterIP(c) \in 1..Len(b)
        BY <2>7, <2>1, <1>3
      <3>4. LineAt(c, j) = Line("IFCONFIG6", c.ipv6)
        BY <2>7, <2>1 DEF LineAt
      <3> QED
        BY <3>1, <3>2, <3>3, <3>4, <1>3
    <2>8. CASE j > AfterIPv6(c) /\ j <= AfterRoutes(c)
      <3>1. Lines(c)[j] = r[j - AfterIPv6(c)]
        BY <2>8, <2>1, <2>2, <2>3, <1>8
      <3>2. j - AfterIPv6(c) \in 1..Len(r)
        BY <2>8, <1>1, <1>4, PlacesAre DEF AfterRoutes
      <3>3. LineAt(c, j) = RouteLine(c.routes[j - AfterIPv6(c)])
        BY <2>8, <2>1 DEF LineAt
      <3> QED
        BY <3>1, <3>2, <3>3, <1>4
    <2>9. CASE j > AfterRoutes(c) /\ j <= AfterDNS(c)
      <3>1. Lines(c)[j] = d[j - AfterRoutes(c)]
        BY <2>9, <2>1, <2>2, <1>9
      <3>2. j - AfterRoutes(c) \in 1..Len(d)
        BY <2>9, <1>1, <1>5, PlacesAre DEF AfterDNS
      <3>3. LineAt(c, j) = Line("DNSSERVER", c.dns[j - AfterRoutes(c)])
        BY <2>9, <2>1 DEF LineAt
      <3> QED
        BY <3>1, <3>2, <3>3, <1>5
    <2>10. CASE j > AfterDNS(c)
      <3>1. Lines(c)[j] = e[j - AfterDNS(c)]
        BY <2>10, <1>10, PlacesAre
      <3>2. j - AfterDNS(c) \in 1..Len(e)
        BY <2>10, <1>6, PlacesAre
      <3>3. LineAt(c, j) = Line("DNSDOMAIN", c.domain)
        BY <2>10, <2>1 DEF LineAt
      <3> QED
        BY <3>1, <3>2, <3>3, <1>6
    <2> QED
      BY <2>6, <2>7, <2>8, <2>9, <2>10, PlacesAre
  <1> QED
    BY <1>10, <1>11 DEF S

\* What a line asks tells its place.
LEMMA WhichLine ==
    ASSUME NEW c \in Configs, NEW j \in 1..AfterDomain(c)
    PROVE  LET line == LineAt(c, j) IN
           /\ line.need = "IFCONFIG" =>
                /\ c.ip # None /\ j = 1 /\ AfterIP(c) = 1 /\ line.arg = c.ip
           /\ line.need = "IFCONFIG6" =>
                /\ c.ipv6 # None /\ j = AfterIPv6(c) /\ AfterIPv6(c) = AfterIP(c) + 1
                /\ line.arg = c.ipv6
           /\ line.need \in {"ROUTE", "ROUTE6"} =>
                /\ j - AfterIPv6(c) \in 1..Len(c.routes)
                /\ line.arg = RouteArg(c.routes[j - AfterIPv6(c)])
           /\ line.need = "ROUTE" => ~c.routes[j - AfterIPv6(c)].v6
           /\ line.need = "ROUTE6" => c.routes[j - AfterIPv6(c)].v6
           /\ line.need = "DNSSERVER" =>
                /\ j - AfterRoutes(c) \in 1..Len(c.dns) /\ line.arg = c.dns[j - AfterRoutes(c)]
           /\ line.need = "DNSDOMAIN" =>
                /\ c.domain # None /\ j = AfterDomain(c) /\ AfterDomain(c) = AfterDNS(c) + 1
                /\ line.arg = c.domain
           /\ line.need \notin {"PERSIST_TUN_ACTION", "OPENTUN"}
  <1> DEFINE line == LineAt(c, j)
  <1>0. Len(c.dns) \in Nat /\ Len(c.routes) \in Nat
    BY ConfigsAre
  <1>1. CASE j <= AfterIP(c)
    <2>1. c.ip # None /\ j = 1 /\ AfterIP(c) = 1
      BY <1>1 DEF AfterIP
    <2>2. line = Line("IFCONFIG", c.ip)
      BY <1>1 DEF LineAt
    <2>3. line.need = "IFCONFIG" /\ line.arg = c.ip
      BY <2>2 DEF Line
    <2> QED
      BY <2>1, <2>3
  <1>2. CASE j > AfterIP(c) /\ j <= AfterIPv6(c)
    <2>1. c.ipv6 # None /\ j = AfterIPv6(c) /\ AfterIPv6(c) = AfterIP(c) + 1
      BY <1>2, PlacesAre DEF AfterIPv6
    <2>2. line = Line("IFCONFIG6", c.ipv6)
      BY <1>2, PlacesAre DEF LineAt
    <2>3. line.need = "IFCONFIG6" /\ line.arg = c.ipv6
      BY <2>2 DEF Line
    <2> QED
      BY <2>1, <2>3
  <1>3. CASE j > AfterIPv6(c) /\ j <= AfterRoutes(c)
    <2> DEFINE i == j - AfterIPv6(c)
    <2>1. i \in 1..Len(c.routes)
      BY <1>0, <1>3, PlacesAre DEF AfterRoutes
    <2>2. line = RouteLine(c.routes[i])
      BY <1>3, PlacesAre DEF LineAt
    <2>3. line.arg = RouteArg(c.routes[i])
      BY <2>2 DEF Line, RouteLine
    <2>4. CASE c.routes[i].v6
      <3>1. line.need = "ROUTE6"
        BY <2>2, <2>4 DEF Line, RouteLine
      <3> QED
        BY <2>1, <2>3, <2>4, <3>1
    <2>5. CASE ~c.routes[i].v6
      <3>1. line.need = "ROUTE"
        BY <2>2, <2>5 DEF Line, RouteLine
      <3> QED
        BY <2>1, <2>3, <2>5, <3>1
    <2> QED
      BY <2>4, <2>5
  <1>4. CASE j > AfterRoutes(c) /\ j <= AfterDNS(c)
    <2>1. j - AfterRoutes(c) \in 1..Len(c.dns)
      BY <1>0, <1>4, PlacesAre DEF AfterDNS
    <2>2. line = Line("DNSSERVER", c.dns[j - AfterRoutes(c)])
      BY <1>4, PlacesAre DEF LineAt
    <2>3. line.need = "DNSSERVER" /\ line.arg = c.dns[j - AfterRoutes(c)]
      BY <2>2 DEF Line
    <2> QED
      BY <2>1, <2>3
  <1>5. CASE j > AfterDNS(c)
    <2>1. c.domain # None /\ j = AfterDomain(c) /\ AfterDomain(c) = AfterDNS(c) + 1
      BY <1>5, PlacesAre DEF AfterDomain
    <2>2. line = Line("DNSDOMAIN", c.domain)
      BY <1>5, PlacesAre DEF LineAt
    <2>3. line.need = "DNSDOMAIN" /\ line.arg = c.domain
      BY <2>2 DEF Line
    <2> QED
      BY <2>1, <2>3
  <1> QED
    BY <1>1, <1>2, <1>3, <1>4, <1>5, PlacesAre
------------------------------------------------------------------------------
(* The inductive invariant                                                    *)

Servers == UNION {Elements(c.dns) : c \in Configs}

\* How many options of the present setup have been noted.
Noted == AfterDomain(asked) + 1 - Len(todo)

\* The lines still to come are the end of those of a setup.
LinesRemain ==
    proc = "setup" =>
        /\ asked \in Configs
        /\ todo \in Seq(LineSet(asked)) /\ Len(todo) \in 1..(AfterDomain(asked) + 1)
        /\ \A i \in 1..(Len(todo) - 1) : todo[i] = LineAt(asked, Noted + i)
        /\ todo[Len(todo)] \in Decisions
        /\ todo[Len(todo)].need = "PERSIST_TUN_ACTION" => hasTun

\* What n lines have said is in the fields, ...
HasIP(n)   == AfterIP(asked) <= n /\ asked.ip # None => localIP = asked.ip
HasIPv6(n) == AfterIPv6(asked) <= n /\ asked.ipv6 # None => localIPv6 = asked.ipv6
HasRoutes(n) ==
    \A i \in 1..Len(asked.routes) :
        AfterIPv6(asked) + i <= n /\ (asked.routes[i].v6 \/ asked.ip # None) =>
            \E q \in routes : q.net = asked.routes[i].net
HasDNS(n) ==
    \A i \in 1..Len(asked.dns) :
        AfterRoutes(asked) + i <= n => asked.dns[i] \in Elements(dnslist)
HasDomain(n) == AfterDomain(asked) <= n /\ asked.domain # None => domain # None

AtLeast(n) == HasIP(n) /\ HasIPv6(n) /\ HasRoutes(n) /\ HasDNS(n) /\ HasDomain(n)

\* ... and nothing else.
IPIs(n)   == localIP = IF AfterIP(asked) <= n THEN asked.ip ELSE None
IPv6Is(n) == localIPv6 = IF AfterIPv6(asked) <= n THEN asked.ipv6 ELSE None
RoutesNoted(c, n) ==
    {i \in 1..Len(c.routes) : AfterIPv6(c) + i <= n /\ (c.routes[i].v6 \/ c.ip # None)}
RoutesAre(n) ==
    routes = (IF localIP = None THEN {} ELSE {Included(localIP)})
                 \cup {RouteArg(asked.routes[i]) : i \in RoutesNoted(asked, n)}
DNSNoted(c, n) ==
    IF n <= AfterRoutes(c) THEN 0
    ELSE IF n <= AfterDNS(c) THEN n - AfterRoutes(c) ELSE Len(c.dns)
DNSAre(n) ==
    /\ Len(dnslist) = DNSNoted(asked, n)
    /\ \A i \in 1..Len(dnslist) : dnslist[i] = asked.dns[i]
DomainIs(n) == domain = IF AfterDomain(asked) <= n THEN asked.domain ELSE None

Exactly(n) == IPIs(n) /\ IPv6Is(n) /\ RoutesAre(n) /\ DNSAre(n) /\ DomainIs(n)

\* The domain and the routes are the ones found there or the ones asked for.
FieldsAreFrom ==
    proc = "setup" => /\ domain \in {found.domain, asked.domain}
                      /\ routes \subseteq found.routes \cup RoutesAsked(asked)

NotedAtLeast == proc = "setup" => AtLeast(Noted)
NotedExactly == proc = "setup" /\ tidy => Exactly(Noted)

\* Between setups the fields are empty, or left says so.
LeftIsTold == proc # "setup" /\ ~left => FieldsAreEmpty

\* The tun of a process is the last one that was configured, with an IPv4 address.
TunIsKnown ==
    /\ hasTun => tun = lastTunCfg
    /\ lastTunCfg # None => lastTunCfg.ip # None
    /\ proc = "none" => ~hasTun
    /\ proc = "up" => asked \in Configs

DNSAreServers == dnslist \in Seq(Servers)

\* The invariant that is inductive.
Inv ==
    /\ TypeOK /\ DNSAreServers /\ LinesRemain /\ NotedAtLeast /\ NotedExactly
    /\ FieldsAreFrom /\ LeftIsTold /\ TunIsKnown /\ TunIsAsAsked /\ LostOnlyToLeftovers
------------------------------------------------------------------------------
(* Lemmas about the lines that remain                                         *)

\* A setup begins with all its lines.
LEMMA AllLinesRemain ==
    ASSUME NEW c \in Configs, BeginSetup(c)
    PROVE  LinesRemain' /\ Noted' = 0
  <1> DEFINE last == Line(IF hasTun' THEN "PERSIST_TUN_ACTION" ELSE "OPENTUN", None)
             n == AfterDomain(c)
  <1>1. n \in Nat /\ asked' = c /\ todo' = Lines(c) \o <<last>>
    BY PlacesAre DEF BeginSetup
  <1>2. last \in Decisions /\ (last.need = "PERSIST_TUN_ACTION" => hasTun')
    BY DEF Line, Decisions
  <1>3. last \in LineSet(c)
    BY <1>2 DEF LineSet
  <1>4. Lines(c) \in Seq(LineSet(c)) /\ Len(Lines(c)) = n
    BY LinesAre
  <1> HIDE DEF last
  <1>5. <<last>> \in Seq(LineSet(c)) /\ Len(<<last>>) = (n + 1) - n /\ <<last>>[1] = last
    BY <1>1, <1>3
  <1>6. /\ todo' \in Seq(LineSet(c)) /\ Len(todo') = n + 1
        /\ \A j \in 1..(n + 1) :
              /\ j <= n => todo'[j] = Lines(c)[j]
              /\ j > n => todo'[j] = <<last>>[j - n]
    <2> DEFINE p == Lines(c)
               q == <<last>>
    <2>1. n \in Nat /\ n + 1 \in Nat /\ Len(p) = n /\ Len(q) = (n + 1) - n
      BY <1>1, <1>4, <1>5
    <2>2. p \in Seq(LineSet(c)) /\ q \in Seq(LineSet(c)) /\ todo' = p \o q
      BY <1>1, <1>4, <1>5
    <2> HIDE DEF p, q, n
    <2>3. /\ p \o q \in Seq(LineSet(c))
          /\ \A m, k \in Nat : Len(p) = m /\ Len(q) = k - m =>
                /\ Len(p \o q) = k
                /\ \A j \in 1..k :
                      /\ j <= m => (p \o q)[j] = p[j]
                      /\ j > m => (p \o q)[j] = q[j - m]
      BY <2>2, LinesAfter
    <2>4. /\ Len(p \o q) = n + 1
          /\ \A j \in 1..(n + 1) :
                /\ j <= n => (p \o q)[j] = p[j]
                /\ j > n => (p \o q)[j] = q[j - n]
      BY <2>1, <2>3
    <2> QED
      BY <2>2, <2>3, <2>4 DEF p, q, n
  <1>7. Noted' = 0
    <2>1. Noted' = n + 1 - Len(todo')
      BY <1>1 DEF Noted
    <2>2. Len(todo') = n + 1 /\ n \in Nat
      BY <1>1, <1>6
    <2> HIDE DEF n
    <2> QED
      BY <2>1, <2>2
  <1>8. todo'[Len(todo')] = last
    BY <1>1, <1>5, <1>6
  <1>9. \A i \in 1..(Len(todo') - 1) : todo'[i] = LineAt(c, Noted' + i)
    BY <1>1, <1>6, <1>7, LinesAre
  <1>10. /\ asked' = c /\ todo' \in Seq(LineSet(c))
         /\ Len(todo') \in 1..(AfterDomain(c) + 1)
    BY <1>1, <1>6
  <1>11. LinesRemain'
    BY <1>2, <1>8, <1>9, <1>10 DEF LinesRemain
  <1> QED
    BY <1>7, <1>11

\* An option that is asked is the next one that has not been noted.
LEMMA NextOption ==
    ASSUME LinesRemain, proc = "setup",
           Head(todo).need \notin {"PERSIST_TUN_ACTION", "OPENTUN"}
    PROVE  /\ asked \in Configs /\ Len(todo) \in Nat /\ Len(todo) > 1
           /\ Noted \in Nat /\ Noted + 1 \in 1..AfterDomain(asked)
           /\ Head(todo) = LineAt(asked, Noted + 1)
  <1>1. asked \in Configs /\ todo \in Seq(LineSet(asked))
        /\ Len(todo) \in 1..(AfterDomain(asked) + 1)
        /\ todo[Len(todo)] \in Decisions
        /\ \A i \in 1..(Len(todo) - 1) : todo[i] = LineAt(asked, Noted + i)
    BY DEF LinesRemain
  <1>2. AfterDomain(asked) \in Nat
    BY <1>1, PlacesAre
  <1>3. Head(todo) = todo[1]
    BY <1>1
  <1>4. \A line \in Decisions : line.need \in {"PERSIST_TUN_ACTION", "OPENTUN"}
    BY DEF Decisions, Line
  <1>5. Len(todo) > 1
    BY <1>1, <1>2, <1>3, <1>4
  <1>6. Noted \in Nat /\ Noted + 1 \in 1..AfterDomain(asked)
    BY <1>1, <1>2, <1>5 DEF Noted
  <1> QED
    BY <1>1, <1>2, <1>3, <1>5, <1>6

\* Once it is answered there is one line less.
LEMMA OneLineLess ==
    ASSUME LinesRemain, proc = "setup", Answered,
           Head(todo).need \notin {"PERSIST_TUN_ACTION", "OPENTUN"}
    PROVE  LinesRemain' /\ Noted' = Noted + 1 /\ todo' # <<>>
  <1>1. asked \in Configs /\ todo \in Seq(LineSet(asked))
        /\ Len(todo) \in 1..(AfterDomain(asked) + 1)
        /\ todo[Len(todo)] \in Decisions
        /\ (todo[Len(todo)].need = "PERSIST_TUN_ACTION" => hasTun)
        /\ \A i \in 1..(Len(todo) - 1) : todo[i] = LineAt(asked, Noted + i)
    BY DEF LinesRemain
  <1>2. Len(todo) > 1 /\ Noted \in Nat
    BY NextOption
  <1>3. AfterDomain(asked) \in Nat
    BY <1>1, PlacesAre
  <1>4. /\ todo' = Tail(todo) /\ asked' = asked /\ hasTun' = hasTun
    BY DEF Answered
  <1>5. /\ todo' \in Seq(LineSet(asked)) /\ Len(todo') = Len(todo) - 1
        /\ \A i \in 1..Len(todo') : todo'[i] = todo[i + 1]
    BY <1>1, <1>2, <1>4
  <1>6. Noted' = Noted + 1
    BY <1>1, <1>3, <1>4, <1>5 DEF Noted
  <1>7. Len(todo') \in 1..(AfterDomain(asked) + 1)
    BY <1>1, <1>2, <1>3, <1>5
  <1>8. todo'[Len(todo')] = todo[Len(todo)]
    BY <1>1, <1>2, <1>5
  <1>9. \A i \in 1..(Len(todo') - 1) : todo'[i] = LineAt(asked, Noted' + i)
    <2>1. SUFFICES ASSUME NEW i \in 1..(Len(todo') - 1)
                   PROVE  todo'[i] = LineAt(asked, Noted' + i)
      OBVIOUS
    <2>2. i + 1 \in 1..(Len(todo) - 1) /\ i \in 1..Len(todo') /\ i \in Nat
      BY <1>1, <1>5
    <2>3. todo'[i] = LineAt(asked, Noted + (i + 1))
      BY <1>1, <1>5, <2>2
    <2>4. Noted + (i + 1) = Noted' + i
      BY <1>2, <1>6, <2>2
    <2> QED
      BY <2>3, <2>4
  <1>10. todo' # <<>>
    BY <1>3, <1>5, <1>7
  <1>11. LinesRemain'
    BY <1>1, <1>4, <1>5, <1>7, <1>8, <1>9 DEF LinesRemain
  <1> QED
    BY <1>6, <1>10, <1>11

\* When the decision about the tun is asked, every option has been noted.
LEMMA LastLine ==
    ASSUME LinesRemain, proc = "setup",
           Head(todo).need \in {"PERSIST_TUN_ACTION", "OPENTUN"}
    PROVE  /\ asked \in Configs /\ Noted = AfterDomain(asked) /\ Len(todo) = 1
           /\ Head(todo).need = "PERSIST_TUN_ACTION" => hasTun
  <1>1. asked \in Configs /\ todo \in Seq(LineSet(asked))
        /\ Len(todo) \in 1..(AfterDomain(asked) + 1)
        /\ (todo[Len(todo)].need = "PERSIST_TUN_ACTION" => hasTun)
        /\ \A i \in 1..(Len(todo) - 1) : todo[i] = LineAt(asked, Noted + i)
    BY DEF LinesRemain
  <1>2. AfterDomain(asked) \in Nat
    BY <1>1, PlacesAre
  <1>3. Head(todo) = todo[1]
    BY <1>1
  <1>4. Len(todo) = 1
    <2>1. CASE Len(todo) > 1
      <3>1. 1 \in 1..(Len(todo) - 1) /\ Noted + 1 \in 1..AfterDomain(asked)
        BY <1>1, <1>2, <2>1 DEF Noted
      <3>2. todo[1] = LineAt(asked, Noted + 1)
        BY <1>1, <3>1
      <3>3. LineAt(asked, Noted + 1).need \notin {"PERSIST_TUN_ACTION", "OPENTUN"}
        BY <1>1, <3>1, WhichLine
      <3> QED
        BY <1>3, <3>2, <3>3
    <2> DEFINE len == Len(todo)
    <2>2. len \in Nat \ {0}
      BY <1>1, LenProperties
    <2>3. len > 1 => len = 1
      BY <2>1
    <2> HIDE DEF len
    <2>4. len = 1
      BY <2>2, <2>3
    <2> QED
      BY <2>4 DEF len
  <1> QED
    BY <1>1, <1>2, <1>3, <1>4 DEF Noted
\* What the places are made of.
LEMMA PlacesOf ==
    ASSUME NEW c \in Configs
    PROVE  /\ c.ip # None => AfterIP(c) = 1
           /\ c.ip = None => AfterIP(c) = 0
           /\ c.ipv6 # None => AfterIPv6(c) = AfterIP(c) + 1
           /\ c.ipv6 = None => AfterIPv6(c) = AfterIP(c)
           /\ AfterRoutes(c) = AfterIPv6(c) + Len(c.routes)
           /\ AfterDNS(c) = AfterRoutes(c) + Len(c.dns)
           /\ c.domain # None => AfterDomain(c) = AfterDNS(c) + 1
           /\ c.domain = None => AfterDomain(c) = AfterDNS(c)
  <1>1. AfterIP(c) \in Nat /\ AfterDNS(c) \in Nat
    BY PlacesAre
  <1>2. (c.ip # None => AfterIP(c) = 1) /\ (c.ip = None => AfterIP(c) = 0)
    BY DEF AfterIP
  <1>3. /\ c.ipv6 # None => AfterIPv6(c) = AfterIP(c) + 1
        /\ c.ipv6 = None => AfterIPv6(c) = AfterIP(c)
    BY <1>1 DEF AfterIPv6
  <1>4. /\ c.domain # None => AfterDomain(c) = AfterDNS(c) + 1
        /\ c.domain = None => AfterDomain(c) = AfterDNS(c)
    BY <1>1 DEF AfterDomain
  <1> QED
    BY <1>2, <1>3, <1>4 DEF AfterRoutes, AfterDNS

------------------------------------------------------------------------------
(* A field keeps up with the lines that are not about it                      *)

LEMMA IPStays ==
    ASSUME NEW c \in Configs, NEW n \in Nat, asked = c, asked' = c,
           localIP' = localIP, AfterIP(c) <= n
    PROVE  /\ HasIP(n) => HasIP(n + 1)'
           /\ IPIs(n) => IPIs(n + 1)'
  BY PlacesAre DEF HasIP, IPIs

LEMMA IPv6Stays ==
    ASSUME NEW c \in Configs, NEW n \in Nat, asked = c, asked' = c,
           localIPv6' = localIPv6, AfterIPv6(c) # n + 1 \/ c.ipv6 = None
    PROVE  /\ HasIPv6(n) => HasIPv6(n + 1)'
           /\ IPv6Is(n) => IPv6Is(n + 1)'
  <1>1. AfterIPv6(c) \in Nat
    BY PlacesAre
  <1>2. c.ipv6 # None => (AfterIPv6(c) <= n <=> AfterIPv6(c) <= n + 1)
    BY <1>1
  <1>3. HasIPv6(n) => HasIPv6(n + 1)'
    BY <1>2 DEF HasIPv6
  <1>4. IPv6Is(n) => IPv6Is(n + 1)'
    BY <1>2 DEF IPv6Is
  <1> QED
    BY <1>3, <1>4

LEMMA RoutesStay ==
    ASSUME NEW c \in Configs, NEW n \in Nat, asked = c, asked' = c,
           localIP' = localIP, routes' = routes,
           n < AfterIPv6(c) \/ AfterRoutes(c) <= n
    PROVE  /\ HasRoutes(n) => HasRoutes(n + 1)'
           /\ RoutesAre(n) => RoutesAre(n + 1)'
  <1>1. Len(c.routes) \in Nat /\ AfterIPv6(c) \in Nat
        /\ AfterRoutes(c) = AfterIPv6(c) + Len(c.routes)
    BY ConfigsAre, PlacesAre, PlacesOf
  <1>2. \A i \in 1..Len(c.routes) : AfterIPv6(c) + i <= n <=> AfterIPv6(c) + i <= n + 1
    BY <1>1
  <1>3. HasRoutes(n) => HasRoutes(n + 1)'
    BY <1>2 DEF HasRoutes
  <1>4. RoutesNoted(c, n) = RoutesNoted(c, n + 1)
    BY <1>2 DEF RoutesNoted
  <1>5. RoutesAre(n) => RoutesAre(n + 1)'
    BY <1>4 DEF RoutesAre
  <1> QED
    BY <1>3, <1>5

LEMMA DNSStays ==
    ASSUME NEW c \in Configs, NEW n \in Nat, asked = c, asked' = c,
           dnslist' = dnslist,
           n < AfterRoutes(c) \/ AfterDNS(c) <= n
    PROVE  /\ HasDNS(n) => HasDNS(n + 1)'
           /\ DNSAre(n) => DNSAre(n + 1)'
  <1>1. Len(c.dns) \in Nat /\ AfterRoutes(c) \in Nat
        /\ AfterDNS(c) = AfterRoutes(c) + Len(c.dns)
    BY ConfigsAre, PlacesAre, PlacesOf
  <1>2. \A i \in 1..Len(c.dns) : AfterRoutes(c) + i <= n <=> AfterRoutes(c) + i <= n + 1
    BY <1>1
  <1>3. HasDNS(n) => HasDNS(n + 1)'
    BY <1>2 DEF HasDNS, Elements
  <1>4. DNSNoted(c, n) = DNSNoted(c, n + 1)
    BY <1>1 DEF DNSNoted
  <1>5. DNSAre(n) => DNSAre(n + 1)'
    BY <1>4 DEF DNSAre
  <1> QED
    BY <1>3, <1>5

LEMMA DomainStays ==
    ASSUME NEW c \in Configs, NEW n \in Nat, asked = c, asked' = c,
           domain' = domain, AfterDomain(c) # n + 1 \/ c.domain = None
    PROVE  /\ HasDomain(n) => HasDomain(n + 1)'
           /\ DomainIs(n) => DomainIs(n + 1)'
  <1>1. AfterDomain(c) \in Nat
    BY PlacesAre
  <1>2. c.domain # None => (AfterDomain(c) <= n <=> AfterDomain(c) <= n + 1)
    BY <1>1
  <1>3. HasDomain(n) => HasDomain(n + 1)'
    BY <1>2 DEF HasDomain
  <1>4. DomainIs(n) => DomainIs(n + 1)'
    BY <1>2 DEF DomainIs
  <1> QED
    BY <1>3, <1>4

------------------------------------------------------------------------------
(* The setters of the service                                                 *)

\* setLocalIP() is first: no route and no DNS server has been noted.
LEMMA SetLocalIPNotes ==
    ASSUME NEW c \in Configs, asked = c, asked' = c,
           AfterIP(c) = 1, c.ip # None, SetLocalIP(c.ip)
    PROVE  /\ AtLeast(1)'
           /\ Exactly(0) => Exactly(1)'
  <1>1. /\ localIP' = c.ip /\ routes' = AddIP(routes, Included(c.ip))
        /\ localIPv6' = localIPv6 /\ dnslist' = dnslist /\ domain' = domain
    BY DEF SetLocalIP
  <1>2. Len(c.dns) \in Nat /\ Len(c.routes) \in Nat
    BY ConfigsAre
  <1>3. /\ AfterIPv6(c) \in Nat /\ AfterIPv6(c) >= 1 /\ AfterRoutes(c) \in Nat
        /\ AfterRoutes(c) >= 1 /\ AfterDNS(c) \in Nat /\ AfterDNS(c) >= 1
        /\ AfterDomain(c) \in Nat /\ AfterDomain(c) >= 1
        /\ (c.ipv6 # None => AfterIPv6(c) = 2) /\ (c.domain # None => AfterDomain(c) >= 2)
    BY PlacesAre, PlacesOf
  <1>4. HasIP(1)' /\ IPIs(1)'
    BY <1>1 DEF HasIP, IPIs
  <1>5. HasIPv6(1)' /\ (IPv6Is(0) => IPv6Is(1)')
    BY <1>1, <1>3 DEF HasIPv6, IPv6Is
  <1>6. HasRoutes(1)'
    BY <1>2, <1>3 DEF HasRoutes
  <1>7. HasDNS(1)' /\ (DNSAre(0) => DNSAre(1)')
    <2>1. DNSNoted(c, 0) = 0 /\ DNSNoted(c, 1) = 0
      BY <1>3 DEF DNSNoted
    <2> QED
      BY <1>1, <1>2, <1>3, <2>1 DEF HasDNS, DNSAre
  <1>8. HasDomain(1)' /\ (DomainIs(0) => DomainIs(1)')
    BY <1>1, <1>3 DEF HasDomain, DomainIs
  <1>9. IPIs(0) /\ RoutesAre(0) => RoutesAre(1)'
    <2>1. RoutesNoted(c, 0) = {} /\ RoutesNoted(c, 1) = {}
      BY <1>2, <1>3 DEF RoutesNoted
    <2>2. SUFFICES ASSUME IPIs(0), RoutesAre(0) PROVE RoutesAre(1)'
      OBVIOUS
    <2>3. routes = {}
      BY <2>1, <2>2 DEF IPIs, RoutesAre
    <2>4. routes' = {Included(c.ip)}
      BY <1>1, <2>3 DEF AddIP
    <2> QED
      BY <1>1, <2>1, <2>4 DEF RoutesAre
  <1>10. AtLeast(1)'
    BY <1>4, <1>5, <1>6, <1>7, <1>8 DEF AtLeast
  <1> QED
    BY <1>4, <1>5, <1>7, <1>8, <1>9, <1>10 DEF Exactly

\* addRoute() and addRoutev6(): a route that needs an address finds it noted, and in
\* a tidy setup its network is new.
LEMMA AddRouteNotes ==
    ASSUME NEW c \in Configs, NEW n \in Nat, NEW i \in 1..Len(c.routes),
           asked = c, asked' = c, n + 1 = AfterIPv6(c) + i,
           \/ AddRoute(RouteArg(c.routes[i])) /\ ~c.routes[i].v6
           \/ AddRoutev6(RouteArg(c.routes[i])) /\ c.routes[i].v6
    PROVE  /\ AtLeast(n) => AtLeast(n + 1)'
           /\ Exactly(n) => Exactly(n + 1)'
  <1> DEFINE arg == RouteArg(c.routes[i])
  <1>1. /\ localIP' = localIP /\ localIPv6' = localIPv6 /\ dnslist' = dnslist
        /\ domain' = domain
    BY DEF AddRoute, AddRoutev6
  <1>2. /\ ~c.routes[i].v6 /\ localIP = None => routes' = routes
        /\ c.routes[i].v6 \/ localIP # None => routes' = AddIP(routes, arg)
    BY DEF AddRoute, AddRoutev6
  <1>3. Len(c.dns) \in Nat /\ Len(c.routes) \in Nat
    BY ConfigsAre
  <1>4. /\ AfterIP(c) <= n /\ AfterIPv6(c) <= n /\ n < AfterRoutes(c)
        /\ AfterIPv6(c) \in Nat /\ AfterRoutes(c) \in Nat
        /\ (c.domain # None => AfterDomain(c) # n + 1)
    <2>1. /\ AfterIP(c) \in Nat /\ AfterIPv6(c) \in Nat /\ AfterIP(c) <= AfterIPv6(c)
          /\ AfterDNS(c) \in Nat /\ AfterRoutes(c) \in Nat /\ AfterRoutes(c) <= AfterDNS(c)
      BY PlacesAre
    <2>2. AfterRoutes(c) = AfterIPv6(c) + Len(c.routes)
          /\ (c.domain # None => AfterDomain(c) = AfterDNS(c) + 1)
      BY PlacesOf
    <2>3. AfterIPv6(c) <= n /\ n < AfterRoutes(c)
      BY <1>3, <2>1, <2>2
    <2> QED
      BY <2>1, <2>2, <2>3
  <1>5. (HasIP(n) => HasIP(n + 1)') /\ (IPIs(n) => IPIs(n + 1)')
    BY <1>1, <1>4, IPStays
  <1>6. (HasIPv6(n) => HasIPv6(n + 1)') /\ (IPv6Is(n) => IPv6Is(n + 1)')
    BY <1>1, <1>4, IPv6Stays
  <1>7. (HasDNS(n) => HasDNS(n + 1)') /\ (DNSAre(n) => DNSAre(n + 1)')
    BY <1>1, <1>4, DNSStays
  <1>8. (HasDomain(n) => HasDomain(n + 1)') /\ (DomainIs(n) => DomainIs(n + 1)')
    BY <1>1, <1>4, DomainStays
  <1>9. \A q \in routes : q \in routes'
    BY <1>2 DEF AddIP
  <1>10. arg.net = c.routes[i].net
    BY DEF RouteArg
  <1>11. HasIP(n) /\ HasRoutes(n) => HasRoutes(n + 1)'
    <2>1. SUFFICES ASSUME HasIP(n), HasRoutes(n), NEW j \in 1..Len(c.routes),
                          AfterIPv6(c) + j <= n + 1, c.routes[j].v6 \/ c.ip # None
                   PROVE  \E q \in routes' : q.net = c.routes[j].net
      BY DEF HasRoutes
    <2>2. CASE j = i
      <3>1. c.routes[i].v6 \/ localIP # None
        BY <1>4, <2>1, <2>2 DEF HasIP
      <3>2. \E q \in AddIP(routes, arg) : q.net = arg.net
        BY DEF AddIP
      <3> QED
        BY <1>2, <1>10, <2>2, <3>1, <3>2
    <2>3. CASE j # i
      <3>1. AfterIPv6(c) + j <= n
        BY <1>3, <1>4, <2>1, <2>3
      <3> QED
        BY <1>9, <2>1, <3>1 DEF HasRoutes
    <2> QED
      BY <2>2, <2>3
  <1>12. IPIs(n) /\ RoutesAre(n) => RoutesAre(n + 1)'
    <2>1. SUFFICES ASSUME IPIs(n), RoutesAre(n) PROVE RoutesAre(n + 1)'
      OBVIOUS
    <2>2. localIP = c.ip
      BY <1>4, <2>1 DEF IPIs
    <2> DEFINE before == {RouteArg(c.routes[j]) : j \in RoutesNoted(c, n)}
               own == IF localIP = None THEN {} ELSE {Included(localIP)}
    <2>3. routes = own \cup before
      BY <2>1 DEF RoutesAre
    <2>4. CASE ~c.routes[i].v6 /\ c.ip = None
      <3>1. RoutesNoted(c, n + 1) = RoutesNoted(c, n)
        <4>1. \A j \in 1..Len(c.routes) :
                 j # i => (AfterIPv6(c) + j <= n <=> AfterIPv6(c) + j <= n + 1)
          BY <1>3, <1>4
        <4> QED
          BY <2>4, <4>1 DEF RoutesNoted
      <3> QED
        BY <1>1, <1>2, <2>1, <2>2, <2>4, <3>1 DEF RoutesAre
    <2>5. CASE c.routes[i].v6 \/ c.ip # None
      <3>1. RoutesNoted(c, n + 1) = RoutesNoted(c, n) \cup {i}
        BY <1>3, <1>4, <2>5 DEF RoutesNoted
      <3>2. /\ \A j \in 1..Len(c.routes) : c.routes[i].net = c.routes[j].net => i = j
            /\ c.routes[i].net # c.ip
        BY ConstantsAssumption DEF Consistent
      <3>3. \A q \in own : q.net # arg.net
        BY <1>10, <2>2, <3>2 DEF Included
      <3>4. \A q \in before : q.net # arg.net
        <4>1. \A j \in RoutesNoted(c, n) : j \in 1..Len(c.routes) /\ j # i
          BY <1>3, <1>4 DEF RoutesNoted
        <4> QED
          BY <1>10, <3>2, <4>1 DEF RouteArg
      <3>5. routes' = AddIP(routes, arg)
        BY <1>2, <2>2, <2>5
      <3>6. routes' = routes \cup {arg}
        BY <2>3, <3>3, <3>4, <3>5 DEF AddIP
      <3>7. {RouteArg(c.routes[j]) : j \in RoutesNoted(c, n + 1)} = before \cup {arg}
        BY <3>1
      <3> HIDE DEF before, arg
      <3> QED
        BY <1>1, <2>3, <3>6, <3>7 DEF RoutesAre
    <2> QED
      BY <2>4, <2>5
  <1>13. AtLeast(n) => AtLeast(n + 1)'
    BY <1>5, <1>6, <1>7, <1>8, <1>11 DEF AtLeast
  <1> QED
    BY <1>5, <1>6, <1>7, <1>8, <1>12, <1>13 DEF Exactly
LEMMA SetLocalIPv6Notes ==
    ASSUME NEW c \in Configs, NEW n \in Nat, asked = c, asked' = c,
           n + 1 = AfterIPv6(c), c.ipv6 # None, SetLocalIPv6(c.ipv6)
    PROVE  /\ AtLeast(n) => AtLeast(n + 1)'
           /\ Exactly(n) => Exactly(n + 1)'
  <1>1. /\ localIPv6' = c.ipv6
        /\ localIP' = localIP /\ routes' = routes /\ dnslist' = dnslist /\ domain' = domain
    BY DEF SetLocalIPv6
  <1>2. /\ AfterIP(c) <= n /\ n < AfterIPv6(c) /\ n < AfterRoutes(c)
        /\ (c.domain # None => AfterDomain(c) # n + 1)
    <2>1. /\ AfterIP(c) \in Nat /\ AfterIPv6(c) \in Nat /\ AfterIPv6(c) <= AfterRoutes(c)
          /\ AfterDNS(c) \in Nat /\ AfterRoutes(c) \in Nat /\ AfterRoutes(c) <= AfterDNS(c)
      BY PlacesAre
    <2>2. /\ AfterIPv6(c) = AfterIP(c) + 1
          /\ (c.domain # None => AfterDomain(c) = AfterDNS(c) + 1)
      BY PlacesOf
    <2> QED
      BY <2>1, <2>2
  <1>3. (HasIP(n) => HasIP(n + 1)') /\ (IPIs(n) => IPIs(n + 1)')
    BY <1>1, <1>2, IPStays
  <1>4. HasIPv6(n + 1)' /\ IPv6Is(n + 1)'
    BY <1>1 DEF HasIPv6, IPv6Is
  <1>5. (HasRoutes(n) => HasRoutes(n + 1)') /\ (RoutesAre(n) => RoutesAre(n + 1)')
    BY <1>1, <1>2, RoutesStay
  <1>6. (HasDNS(n) => HasDNS(n + 1)') /\ (DNSAre(n) => DNSAre(n + 1)')
    BY <1>1, <1>2, DNSStays
  <1>7. (HasDomain(n) => HasDomain(n + 1)') /\ (DomainIs(n) => DomainIs(n + 1)')
    BY <1>1, <1>2, DomainStays
  <1>8. AtLeast(n) => AtLeast(n + 1)'
    BY <1>3, <1>4, <1>5, <1>6, <1>7 DEF AtLeast
  <1> QED
    BY <1>3, <1>4, <1>5, <1>6, <1>7, <1>8 DEF Exactly

LEMMA AddDNSNotes ==
    ASSUME NEW c \in Configs, NEW n \in Nat, NEW i \in 1..Len(c.dns),
           asked = c, asked' = c, n + 1 = AfterRoutes(c) + i,
           DNSAreServers, AddDNS(c.dns[i])
    PROVE  /\ AtLeast(n) => AtLeast(n + 1)'
           /\ Exactly(n) => Exactly(n + 1)'
           /\ DNSAreServers'
  <1>1. /\ dnslist' = Append(dnslist, c.dns[i])
        /\ localIP' = localIP /\ localIPv6' = localIPv6 /\ routes' = routes
        /\ domain' = domain
    BY DEF AddDNS
  <1>2. Len(c.dns) \in Nat
    BY ConfigsAre
  <1>3. c.dns[i] \in Servers
    BY DEF Servers, Elements
  <1>4. dnslist \in Seq(Servers)
    BY DEF DNSAreServers
  <1>5. /\ dnslist' \in Seq(Servers) /\ Len(dnslist') = Len(dnslist) + 1
        /\ Len(dnslist) \in Nat /\ dnslist'[Len(dnslist) + 1] = c.dns[i]
        /\ \A j \in 1..Len(dnslist) : dnslist'[j] = dnslist[j]
    BY <1>1, <1>3, <1>4
  <1>6. /\ AfterRoutes(c) \in Nat /\ AfterIP(c) <= n /\ AfterIPv6(c) \in Nat
        /\ AfterIPv6(c) < n + 1 /\ AfterRoutes(c) <= n
        /\ n < AfterDNS(c) /\ AfterDNS(c) \in Nat
        /\ (c.domain # None => AfterDomain(c) # n + 1)
    <2>1. /\ AfterIP(c) \in Nat /\ AfterIPv6(c) \in Nat /\ AfterIP(c) <= AfterIPv6(c)
          /\ AfterIPv6(c) <= AfterRoutes(c) /\ AfterDNS(c) \in Nat /\ AfterRoutes(c) \in Nat
      BY PlacesAre
    <2>2. /\ AfterDNS(c) = AfterRoutes(c) + Len(c.dns)
          /\ (c.domain # None => AfterDomain(c) = AfterDNS(c) + 1)
      BY PlacesOf
    <2> QED
      BY <1>2, <2>1, <2>2
  <1>7. (HasIP(n) => HasIP(n + 1)') /\ (IPIs(n) => IPIs(n + 1)')
    BY <1>1, <1>6, IPStays
  <1>8. (HasIPv6(n) => HasIPv6(n + 1)') /\ (IPv6Is(n) => IPv6Is(n + 1)')
    BY <1>1, <1>6, IPv6Stays
  <1>9. (HasRoutes(n) => HasRoutes(n + 1)') /\ (RoutesAre(n) => RoutesAre(n + 1)')
    BY <1>1, <1>6, RoutesStay
  <1>10. (HasDomain(n) => HasDomain(n + 1)') /\ (DomainIs(n) => DomainIs(n + 1)')
    BY <1>1, <1>6, DomainStays
  <1>11. HasDNS(n) => HasDNS(n + 1)'
    <2>1. SUFFICES ASSUME HasDNS(n), NEW j \in 1..Len(c.dns), AfterRoutes(c) + j <= n + 1
                   PROVE  c.dns[j] \in Elements(dnslist')
      BY DEF HasDNS, Elements
    <2>2. CASE j = i
      BY <1>5, <2>2 DEF Elements
    <2>3. CASE j # i
      <3>1. AfterRoutes(c) + j <= n
        BY <1>2, <1>6, <2>1, <2>3
      <3>2. c.dns[j] \in Elements(dnslist)
        BY <2>1, <3>1 DEF HasDNS, Elements
      <3>3. PICK k \in 1..Len(dnslist) : c.dns[j] = dnslist[k]
        BY <3>2 DEF Elements
      <3>4. k \in 1..Len(dnslist') /\ c.dns[j] = dnslist'[k]
        BY <1>5, <3>3
      <3> QED
        BY <3>4 DEF Elements
    <2> QED
      BY <2>2, <2>3
  <1>12. DNSAre(n) => DNSAre(n + 1)'
    <2>1. DNSNoted(c, n) = i - 1 /\ DNSNoted(c, n + 1) = i
      BY <1>2, <1>6 DEF DNSNoted
    <2>2. SUFFICES ASSUME DNSAre(n) PROVE DNSAre(n + 1)'
      OBVIOUS
    <2>3. Len(dnslist) = i - 1 /\ \A j \in 1..Len(dnslist) : dnslist[j] = c.dns[j]
      BY <2>1, <2>2 DEF DNSAre
    <2>4. Len(dnslist') = i
      BY <1>2, <1>5, <2>3
    <2>5. \A j \in 1..Len(dnslist') : dnslist'[j] = c.dns[j]
      BY <1>2, <1>5, <2>3, <2>4
    <2> QED
      BY <2>1, <2>4, <2>5 DEF DNSAre
  <1>13. AtLeast(n) => AtLeast(n + 1)'
    BY <1>7, <1>8, <1>9, <1>10, <1>11 DEF AtLeast
  <1>14. DNSAreServers'
    BY <1>5 DEF DNSAreServers, Servers, Elements
  <1> QED
    BY <1>7, <1>8, <1>9, <1>10, <1>12, <1>13, <1>14 DEF Exactly

\* setDomain() keeps a domain that is there already: in a tidy setup there is none.
LEMMA SetDomainNotes ==
    ASSUME NEW c \in Configs, NEW n \in Nat, asked = c, asked' = c,
           n + 1 = AfterDomain(c), c.domain # None, SetDomain(c.domain)
    PROVE  /\ AtLeast(n) => AtLeast(n + 1)'
           /\ Exactly(n) => Exactly(n + 1)'
  <1>1. /\ domain' = IF domain = None THEN c.domain ELSE domain
        /\ localIP' = localIP /\ localIPv6' = localIPv6 /\ routes' = routes
        /\ dnslist' = dnslist
    BY DEF SetDomain
  <1>2. /\ AfterIP(c) <= n /\ AfterIPv6(c) # n + 1 /\ AfterRoutes(c) <= n
        /\ AfterDNS(c) <= n
    <2>1. /\ AfterIP(c) \in Nat /\ AfterIPv6(c) \in Nat /\ AfterIP(c) <= AfterIPv6(c)
          /\ AfterIPv6(c) <= AfterRoutes(c) /\ AfterDNS(c) \in Nat /\ AfterRoutes(c) \in Nat
          /\ AfterRoutes(c) <= AfterDNS(c)
      BY PlacesAre
    <2>2. AfterDomain(c) = AfterDNS(c) + 1
      BY PlacesOf
    <2> QED
      BY <2>1, <2>2
  <1>3. (HasIP(n) => HasIP(n + 1)') /\ (IPIs(n) => IPIs(n + 1)')
    BY <1>1, <1>2, IPStays
  <1>4. (HasIPv6(n) => HasIPv6(n + 1)') /\ (IPv6Is(n) => IPv6Is(n + 1)')
    BY <1>1, <1>2, IPv6Stays
  <1>5. (HasRoutes(n) => HasRoutes(n + 1)') /\ (RoutesAre(n) => RoutesAre(n + 1)')
    BY <1>1, <1>2, RoutesStay
  <1>6. (HasDNS(n) => HasDNS(n + 1)') /\ (DNSAre(n) => DNSAre(n + 1)')
    BY <1>1, <1>2, DNSStays
  <1>7. HasDomain(n + 1)'
    BY <1>1 DEF HasDomain
  <1>8. DomainIs(n) => DomainIs(n + 1)'
    BY <1>1 DEF DomainIs
  <1>9. AtLeast(n) => AtLeast(n + 1)'
    BY <1>3, <1>4, <1>5, <1>6, <1>7 DEF AtLeast
  <1> QED
    BY <1>3, <1>4, <1>5, <1>6, <1>8, <1>9 DEF Exactly
\* A network is never noted both ways.
NetsOnce == \A q, r \in routes : q.net = r.net => q = r

LEMMA AddIPKeepsNetsOnce ==
    ASSUME NetsOnce, NEW r, routes' \in {routes, AddIP(routes, r)}
    PROVE  NetsOnce'
  <1>1. CASE routes' = routes
    BY <1>1 DEF NetsOnce
  <1>2. CASE routes' = AddIP(routes, r)
    BY <1>2 DEF NetsOnce, AddIP
  <1> QED
    BY <1>1, <1>2

\* Whichever option is noted, the fields keep up with the lines.
LEMMA NoteOptionNotes ==
    ASSUME NEW c \in Configs, NEW n \in Nat, n + 1 \in 1..AfterDomain(c),
           asked = c, asked' = c, Head(todo) = LineAt(c, n + 1), NoteOption,
           NetsOnce, DNSAreServers
    PROVE  /\ AtLeast(n) => AtLeast(n + 1)'
           /\ Exactly(n) => Exactly(n + 1)'
           /\ NetsOnce' /\ DNSAreServers'
  <1> DEFINE line == Head(todo)
             Goal == /\ AtLeast(n) => AtLeast(n + 1)'
                     /\ Exactly(n) => Exactly(n + 1)'
                     /\ NetsOnce' /\ DNSAreServers'
  <1>0. AfterIP(c) \in Nat /\ AfterIPv6(c) \in Nat /\ AfterRoutes(c) \in Nat
    BY PlacesAre
  <1>0a. PICK j \in 1..AfterDomain(c) : j = n + 1
    OBVIOUS
  <1>0b. line = LineAt(c, j)
    BY <1>0a
  <1>1. ASSUME line.need = "IFCONFIG", SetLocalIP(line.arg)
        PROVE  Goal
    <2>1. c.ip # None /\ n + 1 = 1 /\ AfterIP(c) = 1 /\ line.arg = c.ip
      BY <1>1, WhichLine
    <2>2. AtLeast(1)' /\ (Exactly(0) => Exactly(1)')
      BY <1>1, <2>1, SetLocalIPNotes
    <2>3. n = 0
      BY <2>1
    <2>4. /\ routes' = AddIP(routes, Included(line.arg)) /\ dnslist' = dnslist
      BY <1>1 DEF SetLocalIP
    <2> QED
      BY <2>1, <2>2, <2>3, <2>4, AddIPKeepsNetsOnce DEF DNSAreServers
  <1>2. ASSUME line.need = "IFCONFIG6", SetLocalIPv6(line.arg)
        PROVE  Goal
    <2>1. c.ipv6 # None /\ n + 1 = AfterIPv6(c) /\ line.arg = c.ipv6
      BY <1>2, WhichLine
    <2>2. routes' = routes /\ dnslist' = dnslist
      BY <1>2 DEF SetLocalIPv6
    <2>3. NetsOnce' /\ DNSAreServers'
      BY <2>2 DEF NetsOnce, DNSAreServers
    <2> QED
      BY <1>2, <2>1, <2>3, SetLocalIPv6Notes
  <1>3. ASSUME line.need \in {"ROUTE", "ROUTE6"},
               \/ line.need = "ROUTE" /\ AddRoute(line.arg)
               \/ line.need = "ROUTE6" /\ AddRoutev6(line.arg)
        PROVE  Goal
    <2> DEFINE i == j - AfterIPv6(c)
    <2>1. /\ i \in 1..Len(c.routes) /\ line.arg = RouteArg(c.routes[i])
          /\ line.need = "ROUTE" => ~c.routes[i].v6
          /\ line.need = "ROUTE6" => c.routes[i].v6
      BY <1>0b, <1>3, WhichLine
    <2>2. n + 1 = AfterIPv6(c) + i
      BY <1>0, <1>0a
    <2>3. \/ AddRoute(RouteArg(c.routes[i])) /\ ~c.routes[i].v6
          \/ AddRoutev6(RouteArg(c.routes[i])) /\ c.routes[i].v6
      BY <1>3, <2>1
    <2>4. routes' \in {routes, AddIP(routes, line.arg)} /\ dnslist' = dnslist
      BY <1>3 DEF AddRoute, AddRoutev6
    <2>5. NetsOnce' /\ DNSAreServers'
      BY <2>4, AddIPKeepsNetsOnce DEF DNSAreServers
    <2> HIDE DEF i
    <2> QED
      BY <2>1, <2>2, <2>3, <2>5, AddRouteNotes
  <1>4. ASSUME line.need = "DNSSERVER", AddDNS(line.arg)
        PROVE  Goal
    <2> DEFINE i == j - AfterRoutes(c)
    <2>1. i \in 1..Len(c.dns) /\ line.arg = c.dns[i]
      BY <1>0b, <1>4, WhichLine
    <2>2. n + 1 = AfterRoutes(c) + i
      BY <1>0, <1>0a
    <2>3. NetsOnce'
      BY <1>4 DEF NetsOnce, AddDNS
    <2> HIDE DEF i
    <2> QED
      BY <1>4, <2>1, <2>2, <2>3, AddDNSNotes
  <1>5. ASSUME line.need = "DNSDOMAIN", SetDomain(line.arg)
        PROVE  Goal
    <2>1. c.domain # None /\ n + 1 = AfterDomain(c) /\ line.arg = c.domain
      BY <1>5, WhichLine
    <2>2. NetsOnce' /\ DNSAreServers'
      BY <1>5 DEF NetsOnce, DNSAreServers, SetDomain
    <2> QED
      BY <1>5, <2>1, <2>2, SetDomainNotes
  <1> QED
    BY <1>1, <1>2, <1>3, <1>4, <1>5 DEF NoteOption, Asks

\* What it notes was asked for.
LEMMA NoteOptionIsAsked ==
    ASSUME NEW c \in Configs, NEW j \in 1..AfterDomain(c), asked = c, asked' = c,
           Head(todo) = LineAt(c, j), NoteOption, found' = found, proc = "setup", FieldsAreFrom
    PROVE  FieldsAreFrom'
  <1> DEFINE line == Head(todo)
  <1>1. domain \in {found.domain, c.domain} /\ routes \subseteq found.routes \cup RoutesAsked(c)
    BY DEF FieldsAreFrom
  <1>2. SUFFICES /\ domain' \in {domain, c.domain}
                 /\ routes' \subseteq routes \cup RoutesAsked(c)
    BY <1>1 DEF FieldsAreFrom
  <1>3. CASE line.need = "IFCONFIG" /\ SetLocalIP(line.arg)
    <2>1. c.ip # None /\ line.arg = c.ip
      BY <1>3, WhichLine
    <2> QED
      BY <1>3, <2>1 DEF SetLocalIP, AddIP, RoutesAsked
  <1>4. CASE line.need = "IFCONFIG6" /\ SetLocalIPv6(line.arg)
    BY <1>4 DEF SetLocalIPv6
  <1>5. CASE \/ line.need = "ROUTE" /\ AddRoute(line.arg)
             \/ line.need = "ROUTE6" /\ AddRoutev6(line.arg)
    <2>1. PICK i \in 1..Len(c.routes) : line.arg = RouteArg(c.routes[i])
      BY <1>5, WhichLine
    <2>2. line.arg \in RoutesAsked(c)
      BY <2>1 DEF RoutesAsked, RouteArg, Elements
    <2>3. routes' \in {routes, AddIP(routes, line.arg)} /\ domain' = domain
      BY <1>5 DEF AddRoute, AddRoutev6
    <2> QED
      BY <2>2, <2>3 DEF AddIP
  <1>6. CASE line.need = "DNSSERVER" /\ AddDNS(line.arg)
    BY <1>6 DEF AddDNS
  <1>7. CASE line.need = "DNSDOMAIN" /\ SetDomain(line.arg)
    <2>1. line.arg = c.domain
      BY <1>7, WhichLine
    <2> QED
      BY <1>7, <2>1 DEF SetDomain
  <1> QED
    BY <1>3, <1>4, <1>5, <1>6, <1>7 DEF NoteOption, Asks

LEMMA NoteOptionKeeps ==
    ASSUME Inv, NoteOption
    PROVE  Inv'
  <1>1. /\ TypeOK /\ DNSAreServers /\ LinesRemain /\ NotedAtLeast /\ NotedExactly
        /\ FieldsAreFrom /\ LeftIsTold /\ TunIsKnown
    BY DEF Inv
  <1>2. /\ proc = "setup" /\ Answered /\ lastTunCfg' = lastTunCfg /\ tun' = tun
        /\ Head(todo).need \notin {"PERSIST_TUN_ACTION", "OPENTUN"}
    BY DEF NoteOption, Asks
  <1>3. /\ proc' = proc /\ asked' = asked /\ hasTun' = hasTun /\ setups' = setups
        /\ left' = left /\ tidy' = tidy /\ found' = found
    BY <1>2 DEF Answered
  <1>4. LinesRemain' /\ Noted' = Noted + 1 /\ todo' # <<>>
    BY <1>1, <1>2, OneLineLess
  <1>5. /\ asked \in Configs /\ Noted \in Nat /\ Noted + 1 \in 1..AfterDomain(asked)
        /\ Head(todo) = LineAt(asked, Noted + 1)
    BY <1>1, <1>2, NextOption
  <1>6. PICK c \in Configs, n \in Nat : c = asked /\ n = Noted
    BY <1>5
  <1>7. AtLeast(n) /\ (tidy => Exactly(n))
    BY <1>1, <1>2, <1>6 DEF NotedAtLeast, NotedExactly
  <1>8. NetsOnce
    BY <1>1 DEF TypeOK, NetsOnce
  <1>9. /\ AtLeast(n + 1)' /\ (tidy => Exactly(n + 1)')
        /\ NetsOnce' /\ DNSAreServers'
    BY <1>1, <1>3, <1>5, <1>6, <1>7, <1>8, NoteOptionNotes
  <1>10. Noted' = n + 1
    BY <1>4, <1>6
  <1>11. NotedAtLeast' /\ NotedExactly'
    BY <1>3, <1>9, <1>10 DEF NotedAtLeast, NotedExactly
  <1>12. TypeOK'
    BY <1>1, <1>2, <1>3, <1>4, <1>9 DEF TypeOK, NetsOnce
  <1>13. LeftIsTold' /\ TunIsKnown' /\ TunIsAsAsked' /\ LostOnlyToLeftovers'
    BY <1>1, <1>2, <1>3 DEF LeftIsTold, TunIsKnown, TunIsAsAsked, LostOnlyToLeftovers
  <1>14. FieldsAreFrom'
    BY <1>1, <1>2, <1>3, <1>5, NoteOptionIsAsked
  <1> QED
    BY <1>4, <1>9, <1>11, <1>12, <1>13, <1>14 DEF Inv
------------------------------------------------------------------------------
(* A setup begins, is given up or has to ask once more                        *)

LEMMA InitInv ==
    ASSUME Init
    PROVE  Inv
  <1>1. TypeOK
    <2>1. {hasTun, left, tidy} \subseteq BOOLEAN
      BY DEF Init
    <2>2. setups \in 0..MaxSetups
      BY ConstantsAssumption DEF Init
    <2> QED
      BY <2>1, <2>2 DEF Init, FieldsAreEmpty, TypeOK
  <1>2. DNSAreServers
    BY DEF Init, FieldsAreEmpty, DNSAreServers
  <1> QED
    BY <1>1, <1>2
       DEF Init, FieldsAreEmpty, Inv, LinesRemain, NotedAtLeast, NotedExactly, FieldsAreFrom,
           LeftIsTold, TunIsKnown, TunIsAsAsked, LostOnlyToLeftovers

LEMMA BeginSetupKeeps ==
    ASSUME Inv, NEW c \in Configs, BeginSetup(c), proc = "none" \/ MayStop
    PROVE  Inv'
  <1>1. /\ TypeOK /\ DNSAreServers /\ LeftIsTold /\ TunIsKnown
    BY DEF Inv
  <1>2. /\ proc' = "setup" /\ asked' = c /\ lastTunCfg' = lastTunCfg
        /\ localIP' = localIP /\ localIPv6' = localIPv6 /\ dnslist' = dnslist
        /\ domain' = domain /\ routes' = routes
        /\ tidy' = ~left' /\ setups < MaxSetups /\ setups' = setups + 1
    BY DEF BeginSetup, fields
  <1>3. /\ hasTun' = (hasTun /\ PersistTun)
        /\ tun' = IF hasTun' THEN tun ELSE None
        /\ left' = (left \/ proc = "setup")
    BY DEF BeginSetup
  <1>4. LinesRemain' /\ Noted' = 0
    BY AllLinesRemain
  <1>5. /\ AfterIP(c) \in Nat /\ AfterIPv6(c) \in Nat /\ AfterRoutes(c) \in Nat
        /\ AfterDNS(c) \in Nat /\ AfterDomain(c) \in Nat
        /\ AfterIP(c) <= AfterIPv6(c) /\ AfterRoutes(c) <= AfterDNS(c)
    BY PlacesAre
  <1>6. /\ (c.ip # None => AfterIP(c) = 1) /\ (c.ipv6 # None => AfterIPv6(c) >= 1)
        /\ (c.domain # None => AfterDomain(c) >= 1)
    BY <1>5, PlacesOf
  <1>7. Len(c.dns) \in Nat /\ Len(c.routes) \in Nat
    BY ConfigsAre
  <1>8. AtLeast(0)'
    <2>1. HasIP(0)' /\ HasIPv6(0)' /\ HasDomain(0)'
      BY <1>2, <1>5, <1>6 DEF HasIP, HasIPv6, HasDomain
    <2>2. HasRoutes(0)' /\ HasDNS(0)'
      BY <1>2, <1>5, <1>7 DEF HasRoutes, HasDNS
    <2> QED
      BY <2>1, <2>2 DEF AtLeast
  <1>9. tidy' => Exactly(0)'
    <2>1. SUFFICES ASSUME tidy' PROVE Exactly(0)'
      OBVIOUS
    <2>2. FieldsAreEmpty
      BY <1>1, <1>2, <1>3, <2>1 DEF LeftIsTold
    <2>3. RoutesNoted(c, 0) = {} /\ DNSNoted(c, 0) = 0
      BY <1>5, <1>7 DEF RoutesNoted, DNSNoted
    <2>4. IPIs(0)' /\ IPv6Is(0)' /\ DomainIs(0)'
      BY <1>2, <1>5, <1>6, <2>2 DEF IPIs, IPv6Is, DomainIs, FieldsAreEmpty
    <2>5. RoutesAre(0)' /\ DNSAre(0)'
      BY <1>2, <2>2, <2>3 DEF RoutesAre, DNSAre, FieldsAreEmpty
    <2> QED
      BY <2>4, <2>5 DEF Exactly
  <1>10. NotedAtLeast' /\ NotedExactly'
    BY <1>2, <1>4, <1>8, <1>9 DEF NotedAtLeast, NotedExactly
  <1>11. todo' # <<>>
    BY <1>2, <1>4 DEF LinesRemain
  <1>12. {hasTun', left', tidy'} \subseteq BOOLEAN
    BY <1>2, <1>3
  <1>13. setups' \in 0..MaxSetups /\ \A q, r \in routes' : q.net = r.net => q = r
    BY <1>1, <1>2, ConstantsAssumption DEF TypeOK
  <1>14. TypeOK'
    BY <1>2, <1>11, <1>12, <1>13 DEF TypeOK
  <1>15. /\ hasTun' => tun' = lastTunCfg'
         /\ lastTunCfg' # None => lastTunCfg'.ip # None
    BY <1>1, <1>2, <1>3 DEF TunIsKnown
  <1>16. /\ DNSAreServers' /\ LeftIsTold' /\ TunIsKnown' /\ TunIsAsAsked'
         /\ LostOnlyToLeftovers'
    BY <1>1, <1>2, <1>15
       DEF DNSAreServers, LeftIsTold, TunIsKnown, TunIsAsAsked, LostOnlyToLeftovers
  <1>17. FieldsAreFrom'
    BY DEF BeginSetup, fields, FieldsAreFrom
  <1> QED
    BY <1>4, <1>10, <1>14, <1>16, <1>17 DEF Inv

\* The process is gone, and the fields are empty or left says that they are not.
LEMMA ProcessIsGoneKeeps ==
    ASSUME Inv, ProcessIsGone, left' \in BOOLEAN, ~left' => FieldsAreEmpty',
           DNSAreServers', NetsOnce',
           lastTunCfg' # None => lastTunCfg'.ip # None
    PROVE  Inv'
  <1>1. TypeOK
    BY DEF Inv
  <1>2. /\ proc' = "none" /\ todo' = <<>> /\ hasTun' = FALSE /\ tun' = None
        /\ asked' = asked /\ setups' = setups /\ tidy' = tidy
    BY DEF ProcessIsGone
  <1>3. {hasTun', left', tidy'} \subseteq BOOLEAN
    BY <1>1, <1>2 DEF TypeOK
  <1>4. TypeOK'
    BY <1>1, <1>2, <1>3 DEF TypeOK, NetsOnce
  <1> QED
    BY <1>2, <1>4
       DEF Inv, LinesRemain, NotedAtLeast, NotedExactly, FieldsAreFrom, LeftIsTold,
           TunIsKnown, TunIsAsAsked, LostOnlyToLeftovers

LEMMA ProcessEndsKeeps ==
    ASSUME Inv, ProcessEnds
    PROVE  Inv'
  <1>1. TypeOK /\ DNSAreServers /\ LeftIsTold /\ TunIsKnown
    BY DEF Inv
  <1>2. /\ ProcessIsGone /\ left' = (left \/ proc = "setup") /\ lastTunCfg' = lastTunCfg
        /\ localIP' = localIP /\ localIPv6' = localIPv6 /\ dnslist' = dnslist
        /\ domain' = domain /\ routes' = routes
    BY DEF ProcessEnds, fields
  <1>3. left' \in BOOLEAN
    BY <1>1, <1>2 DEF TypeOK
  <1>4. DNSAreServers' /\ NetsOnce'
    BY <1>1, <1>2 DEF DNSAreServers, NetsOnce, TypeOK
  <1>5. ~left' => FieldsAreEmpty'
    BY <1>1, <1>2 DEF LeftIsTold, FieldsAreEmpty
  <1>6. lastTunCfg' # None => lastTunCfg'.ip # None
    BY <1>1, <1>2 DEF TunIsKnown
  <1> QED
    BY <1>2, <1>3, <1>4, <1>5, <1>6, ProcessIsGoneKeeps

LEMMA ServiceEndsKeeps ==
    ASSUME Inv, ServiceEnds
    PROVE  Inv'
  <1>1. TypeOK /\ TunIsKnown
    BY DEF Inv
  <1>2. /\ proc = "none" /\ FieldsAreEmpty' /\ lastTunCfg' = None /\ left' = FALSE
        /\ proc' = proc /\ todo' = todo /\ asked' = asked /\ hasTun' = hasTun
        /\ setups' = setups /\ tidy' = tidy
    BY DEF ServiceEnds, process, FieldsAreEmpty
  <1>3. {hasTun', left', tidy'} \subseteq BOOLEAN
    BY <1>1, <1>2 DEF TypeOK
  <1>4. TypeOK'
    BY <1>1, <1>2, <1>3 DEF TypeOK, FieldsAreEmpty
  <1>5. DNSAreServers'
    BY <1>2 DEF FieldsAreEmpty, DNSAreServers
  <1> QED
    BY <1>1, <1>2, <1>4, <1>5
       DEF Inv, LinesRemain, NotedAtLeast, NotedExactly, FieldsAreFrom, LeftIsTold,
           TunIsKnown, TunIsAsAsked, LostOnlyToLeftovers

\* The process asks for a new tun: the options are still those that were noted.
LEMMA ReopenTunKeeps ==
    ASSUME Inv, ReopenTun
    PROVE  Inv'
  <1>1. /\ TypeOK /\ DNSAreServers /\ LinesRemain /\ NotedAtLeast /\ NotedExactly
        /\ FieldsAreFrom /\ LeftIsTold /\ TunIsKnown
    BY DEF Inv
  <1>2. /\ proc = "setup" /\ Head(todo).need = "PERSIST_TUN_ACTION"
        /\ todo' = <<Line("OPENTUN", None)>>
        /\ proc' = proc /\ asked' = asked /\ hasTun' = hasTun /\ setups' = setups
        /\ left' = left /\ tidy' = tidy /\ lastTunCfg' = lastTunCfg /\ tun' = tun
        /\ found' = found
    BY DEF ReopenTun, Asks
  <1>3. /\ localIP' = localIP /\ localIPv6' = localIPv6 /\ dnslist' = dnslist
        /\ domain' = domain /\ routes' = routes
    BY DEF ReopenTun, fields
  <1>4. asked \in Configs /\ Noted = AfterDomain(asked) /\ Len(todo) = 1
    BY <1>1, <1>2, LastLine
  <1>5. AfterDomain(asked) \in Nat
    BY <1>4, PlacesAre
  <1>6. Line("OPENTUN", None) \in Decisions /\ Line("OPENTUN", None) \in LineSet(asked)
        /\ Line("OPENTUN", None).need = "OPENTUN"
    BY DEF Decisions, LineSet, Line
  <1> DEFINE last == Line("OPENTUN", None)
  <1> HIDE DEF last
  <1>7. todo' \in Seq(LineSet(asked)) /\ Len(todo') = 1 /\ todo'[1] = last
    BY <1>2, <1>6 DEF last
  <1>8. LinesRemain'
    BY <1>2, <1>4, <1>5, <1>6, <1>7 DEF LinesRemain, last
  <1>9. Noted' = Noted
    BY <1>2, <1>4, <1>7 DEF Noted
  <1>10. NotedAtLeast'
    BY <1>1, <1>2, <1>3, <1>9
       DEF NotedAtLeast, AtLeast, HasIP, HasIPv6, HasRoutes, HasDNS, HasDomain
  <1>11. NotedExactly'
    BY <1>1, <1>2, <1>3, <1>9
       DEF NotedExactly, Exactly, IPIs, IPv6Is, RoutesAre, DNSAre, DomainIs
  <1>12. todo' # <<>>
    BY <1>2
  <1>13. TypeOK'
    BY <1>1, <1>2, <1>3, <1>12 DEF TypeOK
  <1>14. /\ DNSAreServers' /\ FieldsAreFrom' /\ LeftIsTold' /\ TunIsKnown' /\ TunIsAsAsked'
         /\ LostOnlyToLeftovers'
    BY <1>1, <1>2, <1>3
       DEF DNSAreServers, FieldsAreFrom, LeftIsTold, TunIsKnown, TunIsAsAsked, LostOnlyToLeftovers
  <1> QED
    BY <1>8, <1>10, <1>11, <1>13, <1>14 DEF Inv
------------------------------------------------------------------------------
(* The decision about the tun                                                 *)

\* A tun that is configured with the fields, and with their routes or more, has all
\* that was asked, ...
LEMMA TunHasAll ==
    ASSUME NEW t, NEW R, t = TunConfig(R), routes \subseteq R, proc = "setup", FieldsAreFrom,
           asked \in Configs, AtLeast(AfterDomain(asked))
    PROVE  /\ asked.ip # None => t.ip = asked.ip
           /\ asked.ipv6 # None => t.ipv6 = asked.ipv6
           /\ asked.domain # None => t.domain \in {asked.domain, found.domain} \ {None}
           /\ Elements(asked.dns) \subseteq Elements(t.dns)
           /\ \A r \in Elements(asked.routes) :
                 r.v6 \/ asked.ip # None =>
                    \E q \in t.routes :
                        q.net = r.net /\ (q.included = r.included \/ q \in found.routes)
  <1>1. /\ t.ip = localIP /\ t.ipv6 = localIPv6 /\ t.domain = domain /\ t.dns = dnslist
        /\ t.routes = R
    BY DEF TunConfig
  <1>2. PICK n \in Nat : n = AfterDomain(asked)
    BY PlacesAre
  <1>3. HasIP(n) /\ HasIPv6(n) /\ HasRoutes(n) /\ HasDNS(n) /\ HasDomain(n)
    BY <1>2 DEF AtLeast
  <1>4. Len(asked.dns) \in Nat /\ Len(asked.routes) \in Nat
    BY ConfigsAre
  <1>5. /\ AfterIP(asked) <= n /\ AfterIPv6(asked) <= n
        /\ AfterIPv6(asked) + Len(asked.routes) <= n
        /\ AfterRoutes(asked) + Len(asked.dns) <= n
        /\ AfterIPv6(asked) \in Nat /\ AfterRoutes(asked) \in Nat
    <2>1. /\ AfterIP(asked) \in Nat /\ AfterIPv6(asked) \in Nat
          /\ AfterRoutes(asked) \in Nat /\ AfterDNS(asked) \in Nat
          /\ AfterIP(asked) <= AfterIPv6(asked) /\ AfterDNS(asked) <= n
      BY <1>2, PlacesAre
    <2>2. /\ AfterRoutes(asked) = AfterIPv6(asked) + Len(asked.routes)
          /\ AfterDNS(asked) = AfterRoutes(asked) + Len(asked.dns)
      BY PlacesOf
    <2> QED
      BY <1>4, <2>1, <2>2
  <1>6. asked.ip # None => t.ip = asked.ip
    BY <1>1, <1>3, <1>5 DEF HasIP
  <1>7. asked.ipv6 # None => t.ipv6 = asked.ipv6
    BY <1>1, <1>3, <1>5 DEF HasIPv6
  <1>8. asked.domain # None => t.domain \in {asked.domain, found.domain} \ {None}
    BY <1>1, <1>2, <1>3 DEF HasDomain, FieldsAreFrom
  <1>9. Elements(asked.dns) \subseteq Elements(t.dns)
    <2>1. \A i \in 1..Len(asked.dns) : AfterRoutes(asked) + i <= n
      BY <1>4, <1>5
    <2>2. \A i \in 1..Len(asked.dns) : asked.dns[i] \in Elements(dnslist)
      BY <1>3, <2>1 DEF HasDNS
    <2>3. \A d \in Elements(asked.dns) : d \in Elements(dnslist)
      BY <2>2 DEF Elements
    <2> QED
      BY <1>1, <2>3
  <1>10. ASSUME NEW r \in Elements(asked.routes), r.v6 \/ asked.ip # None
         PROVE  \E q \in t.routes :
                    q.net = r.net /\ (q.included = r.included \/ q \in found.routes)
    <2>1. PICK i \in 1..Len(asked.routes) : r = asked.routes[i]
      BY DEF Elements
    <2>2. AfterIPv6(asked) + i <= n
      BY <1>4, <1>5
    <2>3. PICK q \in routes : q.net = r.net
      BY <1>3, <1>10, <2>1, <2>2 DEF HasRoutes
    <2>4. CASE q \in found.routes
      BY <1>1, <2>3, <2>4
    <2>5. CASE q \in RoutesAsked(asked)
      <3>1. /\ \A k \in 1..Len(asked.routes) : asked.routes[i].net = asked.routes[k].net => i = k
            /\ asked.routes[i].net # asked.ip
        BY ConstantsAssumption DEF Consistent
      <3>2. q # Included(asked.ip)
        BY <2>1, <2>3, <3>1 DEF Included
      <3>3. PICK k \in 1..Len(asked.routes) : q = RouteArg(asked.routes[k])
        BY <2>5, <3>2 DEF RoutesAsked, RouteArg, Elements
      <3>4. k = i
        BY <2>1, <2>3, <3>1, <3>3 DEF RouteArg
      <3>5. q.included = r.included
        BY <2>1, <3>3, <3>4 DEF RouteArg
      <3> QED
        BY <1>1, <2>3, <3>5
    <2> QED
      BY <2>3, <2>4, <2>5 DEF FieldsAreFrom
  <1> QED
    BY <1>6, <1>7, <1>8, <1>9, <1>10

\* ... and in a tidy setup nothing else but networks that are let out.
LEMMA TunIsExact ==
    ASSUME NEW t, NEW R, t = TunConfig(R), routes \subseteq R,
           R \subseteq routes \cup LocalExceptions, DNSAreServers,
           asked \in Configs, asked.ip # None, Exactly(AfterDomain(asked))
    PROVE  AsAsked(t, asked)
  <1>1. /\ t.ip = localIP /\ t.ipv6 = localIPv6 /\ t.domain = domain /\ t.dns = dnslist
        /\ t.routes = R
    BY DEF TunConfig
  <1>2. PICK n \in Nat : n = AfterDomain(asked)
    BY PlacesAre
  <1>3. IPIs(n) /\ IPv6Is(n) /\ RoutesAre(n) /\ DNSAre(n) /\ DomainIs(n)
    BY <1>2 DEF Exactly
  <1>4. Len(asked.dns) \in Nat /\ Len(asked.routes) \in Nat
    BY ConfigsAre
  <1>5. /\ AfterIP(asked) <= n /\ AfterIPv6(asked) <= n
        /\ AfterIPv6(asked) + Len(asked.routes) <= n
        /\ AfterRoutes(asked) + Len(asked.dns) <= n
        /\ AfterDNS(asked) <= n /\ AfterDNS(asked) = AfterRoutes(asked) + Len(asked.dns)
        /\ AfterIPv6(asked) \in Nat /\ AfterRoutes(asked) \in Nat
    <2>1. /\ AfterIP(asked) \in Nat /\ AfterIPv6(asked) \in Nat
          /\ AfterRoutes(asked) \in Nat /\ AfterDNS(asked) \in Nat
          /\ AfterIP(asked) <= AfterIPv6(asked) /\ AfterDNS(asked) <= n
      BY <1>2, PlacesAre
    <2>2. /\ AfterRoutes(asked) = AfterIPv6(asked) + Len(asked.routes)
          /\ AfterDNS(asked) = AfterRoutes(asked) + Len(asked.dns)
      BY PlacesOf
    <2> QED
      BY <1>4, <2>1, <2>2
  <1>6. t.ip = asked.ip /\ t.ipv6 = asked.ipv6 /\ t.domain = asked.domain
    BY <1>1, <1>2, <1>3, <1>5 DEF IPIs, IPv6Is, DomainIs
  <1>7. t.dns = asked.dns
    <2>1. DNSNoted(asked, n) = Len(asked.dns)
      BY <1>4, <1>5 DEF DNSNoted
    <2>2. /\ Len(dnslist) = Len(asked.dns)
          /\ \A i \in 1..Len(dnslist) : dnslist[i] = asked.dns[i]
      BY <1>3, <2>1 DEF DNSAre
    <2>3. asked.dns \in Seq(Servers)
      <3>1. Elements(asked.dns) \subseteq Servers
        BY DEF Servers
      <3> QED
        BY <3>1, ConfigsAre, SeqMonotonic
    <2>4. dnslist \in Seq(Servers)
      BY DEF DNSAreServers
    <2> QED
      BY <1>1, <2>2, <2>3, <2>4, SeqEqual
  <1>8. RoutesNoted(asked, n) = 1..Len(asked.routes)
    BY <1>4, <1>5 DEF RoutesNoted
  <1>9. routes = {Included(asked.ip)} \cup {RouteArg(asked.routes[i]) : i \in 1..Len(asked.routes)}
    BY <1>1, <1>3, <1>6, <1>8 DEF RoutesAre
  <1>10. routes = RoutesAsked(asked)
    <2>1. {[net |-> r.net, included |-> r.included] : r \in Elements(asked.routes)}
              = {RouteArg(asked.routes[i]) : i \in 1..Len(asked.routes)}
      BY DEF Elements, RouteArg
    <2> QED
      BY <1>9, <2>1 DEF RoutesAsked
  <1> QED
    BY <1>1, <1>6, <1>7, <1>10 DEF AsAsked

\* addLocalNetworksToRoutes() adds networks that are let out, and no network twice.
LEMMA LocalNetworksAdd ==
    ASSUME NetsOnce
    PROVE  /\ routes \subseteq WithLocalNetworks
           /\ WithLocalNetworks \subseteq routes \cup LocalExceptions
           /\ \A q, r \in WithLocalNetworks : q.net = r.net => q = r
  <1> DEFINE added == {Excluded(n) : n \in {m \in LocalNets \ {localIP} :
                                              \A r \in routes : r.net # m}}
  <1>1. \A q \in added : \A r \in routes : q.net # r.net
    <2>1. \A n : Excluded(n).net = n
      BY DEF Excluded
    <2> QED
      BY <2>1
  <1>2. \A q, r \in added : q.net = r.net => q = r
    <2>1. \A n : Excluded(n).net = n
      BY DEF Excluded
    <2>2. \A q \in added : q = Excluded(q.net)
      BY <2>1
    <2> HIDE DEF added
    <2> QED
      BY <2>2
  <1>3. AllowLocalLAN => added \subseteq LocalExceptions
    BY DEF LocalExceptions
  <1>4. WithLocalNetworks = routes \/ (AllowLocalLAN /\ WithLocalNetworks = routes \cup added)
    BY DEF WithLocalNetworks
  <1> HIDE DEF added
  <1>5. CASE WithLocalNetworks = routes
    BY <1>5 DEF NetsOnce
  <1>6. CASE AllowLocalLAN /\ WithLocalNetworks = routes \cup added
    <2>1. \A q, r \in routes \cup added : q.net = r.net => q = r
      BY <1>1, <1>2 DEF NetsOnce
    <2>2. added \subseteq LocalExceptions
      BY <1>3, <1>6
    <2> QED
      BY <1>6, <2>1, <2>2
  <1> QED
    BY <1>4, <1>5, <1>6

LEMMA NetsOnceHolds ==
    ASSUME TypeOK
    PROVE  NetsOnce
  BY DEF TypeOK, NetsOnce

\* getTunReopenStatus(): the tun that is kept was configured with the same options.
LEMMA KeepTunKeeps ==
    ASSUME Inv, KeepTun
    PROVE  Inv'
  <1>1. /\ TypeOK /\ DNSAreServers /\ LinesRemain /\ NotedAtLeast /\ NotedExactly
        /\ FieldsAreFrom /\ TunIsKnown
    BY DEF Inv
  <1>2. /\ proc = "setup" /\ Head(todo).need = "PERSIST_TUN_ACTION"
        /\ ConfigStayedTheSame
        /\ proc' = "up" /\ todo' = <<>> /\ left' = TRUE
        /\ asked' = asked /\ hasTun' = hasTun /\ setups' = setups
        /\ tidy' = tidy /\ found' = found /\ lastTunCfg' = lastTunCfg /\ tun' = tun
    BY DEF KeepTun, Asks
  <1>3. /\ localIP' = localIP /\ localIPv6' = localIPv6 /\ dnslist' = dnslist
        /\ domain' = domain /\ routes' = routes
    BY DEF KeepTun, fields
  <1>4. asked \in Configs /\ Noted = AfterDomain(asked) /\ hasTun
    BY <1>1, <1>2, LastLine
  <1>5. tun = TunConfig(routes) /\ lastTunCfg # None /\ lastTunCfg = TunConfig(routes)
    BY <1>1, <1>2, <1>4 DEF TunIsKnown, ConfigStayedTheSame
  <1>6. localIP # None
    BY <1>1, <1>5 DEF TunIsKnown, TunConfig
  <1>7. AtLeast(AfterDomain(asked)) /\ (tidy => Exactly(AfterDomain(asked)))
    BY <1>1, <1>2, <1>4 DEF NotedAtLeast, NotedExactly
  <1>8. LostOnlyToLeftovers'
    <2>1. /\ asked.ip # None => tun.ip = asked.ip
          /\ asked.ipv6 # None => tun.ipv6 = asked.ipv6
          /\ asked.domain # None => tun.domain \in {asked.domain, found.domain} \ {None}
          /\ Elements(asked.dns) \subseteq Elements(tun.dns)
          /\ \A r \in Elements(asked.routes) :
                r.v6 \/ asked.ip # None =>
                   \E q \in tun.routes :
                       q.net = r.net /\ (q.included = r.included \/ q \in found.routes)
      BY <1>1, <1>2, <1>4, <1>5, <1>7, TunHasAll
    <2> QED
      BY <1>2, <1>4, <2>1 DEF LostOnlyToLeftovers
  <1>9. TunIsAsAsked'
    <2>1. ASSUME tidy PROVE AsAsked(tun, asked)
      <3>1. asked.ip # None
        BY <1>6, <1>7, <2>1 DEF Exactly, IPIs
      <3> QED
        BY <1>1, <1>4, <1>5, <1>7, <2>1, <3>1, TunIsExact
    <2> QED
      BY <1>2, <2>1 DEF TunIsAsAsked
  <1>10. {hasTun', left', tidy'} \subseteq BOOLEAN
    BY <1>1, <1>2 DEF TypeOK
  <1>11. TypeOK'
    BY <1>1, <1>2, <1>3, <1>10 DEF TypeOK
  <1>12. /\ DNSAreServers' /\ LinesRemain' /\ NotedAtLeast' /\ NotedExactly'
         /\ FieldsAreFrom' /\ LeftIsTold' /\ TunIsKnown'
    BY <1>1, <1>2, <1>3, <1>4
       DEF DNSAreServers, LinesRemain, NotedAtLeast, NotedExactly, FieldsAreFrom, LeftIsTold,
           TunIsKnown
  <1> QED
    BY <1>8, <1>9, <1>11, <1>12 DEF Inv

\* openTun(): the new tun is configured with what was noted, and the fields are cleared.
LEMMA OpenTunKeeps ==
    ASSUME Inv, OpenTun
    PROVE  Inv'
  <1>1. /\ TypeOK /\ DNSAreServers /\ LinesRemain /\ NotedAtLeast /\ NotedExactly
        /\ FieldsAreFrom /\ TunIsKnown
    BY DEF Inv
  <1>2. /\ proc = "setup" /\ Head(todo).need = "OPENTUN" /\ localIP # None
        /\ proc' = "up" /\ todo' = <<>> /\ left' = FALSE /\ hasTun' = TRUE
        /\ asked' = asked /\ setups' = setups /\ tidy' = tidy /\ found' = found
        /\ FieldsAreEmpty'
    BY DEF OpenTun, Asks, ClearFields, FieldsAreEmpty
  <1>3. tun' = TunConfig(WithLocalNetworks) /\ lastTunCfg' = TunConfig(WithLocalNetworks)
    BY DEF OpenTun
  <1>4. asked \in Configs /\ Noted = AfterDomain(asked)
    BY <1>1, <1>2, LastLine
  <1>5. AtLeast(AfterDomain(asked)) /\ (tidy => Exactly(AfterDomain(asked)))
    BY <1>1, <1>2, <1>4 DEF NotedAtLeast, NotedExactly
  <1>6. /\ routes \subseteq WithLocalNetworks
        /\ WithLocalNetworks \subseteq routes \cup LocalExceptions
    BY <1>1, NetsOnceHolds, LocalNetworksAdd
  <1>7. PICK t, R : t = TunConfig(R) /\ R = WithLocalNetworks
    OBVIOUS
  <1>8. LostOnlyToLeftovers'
    <2>1. /\ asked.ip # None => t.ip = asked.ip
          /\ asked.ipv6 # None => t.ipv6 = asked.ipv6
          /\ asked.domain # None => t.domain \in {asked.domain, found.domain} \ {None}
          /\ Elements(asked.dns) \subseteq Elements(t.dns)
          /\ \A r \in Elements(asked.routes) :
                r.v6 \/ asked.ip # None =>
                   \E q \in t.routes :
                       q.net = r.net /\ (q.included = r.included \/ q \in found.routes)
      BY <1>1, <1>2, <1>4, <1>5, <1>6, <1>7, TunHasAll
    <2> QED
      BY <1>2, <1>3, <1>7, <2>1 DEF LostOnlyToLeftovers
  <1>9. TunIsAsAsked'
    <2>1. ASSUME tidy PROVE AsAsked(t, asked)
      <3>1. asked.ip # None
        BY <1>2, <1>5, <2>1 DEF Exactly, IPIs
      <3> QED
        BY <1>1, <1>4, <1>5, <1>6, <1>7, <2>1, <3>1, TunIsExact
    <2> QED
      BY <1>2, <1>3, <1>7, <2>1 DEF TunIsAsAsked
  <1>10. {hasTun', left', tidy'} \subseteq BOOLEAN
    BY <1>1, <1>2 DEF TypeOK
  <1>11. TypeOK'
    BY <1>1, <1>2, <1>10 DEF TypeOK, FieldsAreEmpty
  <1>12. TunConfig(WithLocalNetworks).ip # None
    BY <1>2 DEF TunConfig
  <1>13. TunIsKnown'
    BY <1>2, <1>3, <1>4, <1>12 DEF TunIsKnown
  <1>14. /\ DNSAreServers' /\ LinesRemain' /\ NotedAtLeast' /\ NotedExactly'
         /\ FieldsAreFrom' /\ LeftIsTold'
    BY <1>2 DEF FieldsAreEmpty, DNSAreServers, LinesRemain, NotedAtLeast, NotedExactly,
                FieldsAreFrom, LeftIsTold
  <1> QED
    BY <1>8, <1>9, <1>11, <1>13, <1>14 DEF Inv

\* openTun() fails: the fields stay, or are cleared, and the process gives up.
LEMMA NoTunKeeps ==
    ASSUME Inv, NoAddress \/ AddressRefused \/ NoIPv4Address \/ EstablishRefused
    PROVE  Inv'
  <1>1. TypeOK /\ DNSAreServers /\ TunIsKnown /\ NetsOnce
    BY NetsOnceHolds DEF Inv
  <1>2. CASE NoAddress
    <2>1. /\ ProcessIsGone /\ left' = TRUE /\ lastTunCfg' = lastTunCfg
          /\ dnslist' = dnslist /\ routes' = routes
      BY <1>2 DEF NoAddress, fields
    <2> QED
      BY <1>1, <2>1, ProcessIsGoneKeeps DEF DNSAreServers, NetsOnce, TunIsKnown
  <1>3. CASE AddressRefused
    <2>1. /\ ProcessIsGone /\ left' = TRUE /\ lastTunCfg' = lastTunCfg
          /\ dnslist' = dnslist /\ routes' = WithLocalNetworks
      BY <1>3 DEF AddressRefused
    <2>2. NetsOnce'
      BY <1>1, <2>1, LocalNetworksAdd DEF NetsOnce
    <2> QED
      BY <1>1, <2>1, <2>2, ProcessIsGoneKeeps DEF DNSAreServers, TunIsKnown
  <1>4. CASE NoIPv4Address
    <2>1. ProcessIsGone /\ left' = FALSE /\ lastTunCfg' = None /\ FieldsAreEmpty'
      BY <1>4 DEF NoIPv4Address, ClearFields, FieldsAreEmpty
    <2>2. DNSAreServers' /\ NetsOnce'
      BY <2>1 DEF DNSAreServers, NetsOnce, FieldsAreEmpty
    <2> QED
      BY <2>1, <2>2, ProcessIsGoneKeeps
  <1>5. CASE EstablishRefused
    <2>1. ProcessIsGone /\ left' = FALSE /\ FieldsAreEmpty'
      BY <1>5 DEF EstablishRefused, ClearFields, FieldsAreEmpty
    <2>2. DNSAreServers' /\ NetsOnce'
      BY <2>1 DEF DNSAreServers, NetsOnce, FieldsAreEmpty
    <2>3. lastTunCfg'.ip # None
      BY <1>5 DEF EstablishRefused, TunConfig
    <2> QED
      BY <2>1, <2>2, <2>3, ProcessIsGoneKeeps
  <1> QED
    BY <1>2, <1>3, <1>4, <1>5

------------------------------------------------------------------------------
(* The theorems                                                               *)

LEMMA NextKeepsInv ==
    ASSUME Inv, [Next]_vars
    PROVE  Inv'
  <1>1. CASE StartSession
    BY <1>1, BeginSetupKeeps DEF StartSession
  <1>2. CASE Reconnect
    BY <1>2, BeginSetupKeeps DEF Reconnect
  <1>3. CASE ProcessEnds
    BY <1>3, ProcessEndsKeeps
  <1>4. CASE ServiceEnds
    BY <1>4, ServiceEndsKeeps
  <1>5. CASE ProcessNeedCommand
    BY <1>5, NoteOptionKeeps, KeepTunKeeps, ReopenTunKeeps, OpenTunKeeps, NoTunKeeps
       DEF ProcessNeedCommand
  <1>6. CASE UNCHANGED vars
    <2>1. /\ localIP' = localIP /\ localIPv6' = localIPv6 /\ dnslist' = dnslist
          /\ domain' = domain /\ routes' = routes /\ lastTunCfg' = lastTunCfg
          /\ tun' = tun /\ proc' = proc /\ todo' = todo /\ asked' = asked
          /\ hasTun' = hasTun /\ setups' = setups /\ left' = left /\ tidy' = tidy
          /\ found' = found
      BY <1>6 DEF vars, fields, process
    <2>2. TypeOK' /\ DNSAreServers' /\ LinesRemain' /\ LeftIsTold' /\ TunIsKnown'
      BY <2>1 DEF Inv, TypeOK, DNSAreServers, LinesRemain, Noted, LeftIsTold,
                  FieldsAreEmpty, TunIsKnown
    <2>3. NotedAtLeast'
      BY <2>1 DEF Inv, NotedAtLeast, Noted, AtLeast, HasIP, HasIPv6, HasRoutes, HasDNS, HasDomain
    <2>4. NotedExactly'
      BY <2>1 DEF Inv, NotedExactly, Noted, Exactly, IPIs, IPv6Is, RoutesAre, DNSAre, DomainIs
    <2>5. FieldsAreFrom' /\ TunIsAsAsked' /\ LostOnlyToLeftovers'
      BY <2>1 DEF Inv, FieldsAreFrom, TunIsAsAsked, LostOnlyToLeftovers
    <2> QED
      BY <2>2, <2>3, <2>4, <2>5 DEF Inv
  <1> QED
    BY <1>1, <1>2, <1>3, <1>4, <1>5, <1>6 DEF Next

\* In every behaviour the lines and the fields go together, as the invariant says.
THEOREM SetupsAreInOrder == Spec => []Inv
  <1>1. Init => Inv
    BY InitInv
  <1>2. Inv /\ [Next]_vars => Inv'
    BY NextKeepsInv
  <1> QED
    BY <1>1, <1>2, PTL DEF Spec

\* The variables keep their types.
THEOREM TypeCorrect == Spec => []TypeOK
  <1>1. Inv => TypeOK
    BY DEF Inv
  <1> QED
    BY <1>1, SetupsAreInOrder, PTL

\* A session whose setup began with empty fields gets exactly the tun it asked for,
\* whether openTun() opens it or getTunReopenStatus() keeps it.
THEOREM OptionsAreNotMixedUp == Spec => []TunIsAsAsked
  <1>1. Inv => TunIsAsAsked
    BY DEF Inv
  <1> QED
    BY <1>1, SetupsAreInOrder, PTL

\* Whatever earlier setups left in the fields of the service, a session that is up has a tun
\* with all that the server pushed, but for a domain or a network where setDomain() or
\* addIP() found a leftover that kept its place.
THEOREM OnlyLeftoversDisplace == Spec => []LostOnlyToLeftovers
  <1>1. Inv => LostOnlyToLeftovers
    BY DEF Inv
  <1> QED
    BY <1>1, SetupsAreInOrder, PTL
=============================================================================
