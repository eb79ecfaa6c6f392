----------------------------- MODULE MCTunSetup -----------------------------
EXTENDS TunSetup

CONSTANTS home, far, vpnNet, vpnNet2, dns1, dns2, dom1, dom2

Route(net, include, v6) == [net |-> net, included |-> include, v6 |-> v6]

\* One server, its next answer with another domain and a route less, a second server
\* with its own network, one that knows IPv6, one with IPv6 alone, one without address.
MCConfigs ==
    { [ip |-> vpnNet, ipv6 |-> None, domain |-> dom1, dns |-> <<dns1>>,
       routes |-> <<Route(far, TRUE, FALSE)>>],
      [ip |-> vpnNet, ipv6 |-> None, domain |-> dom2, dns |-> <<>>, routes |-> <<>>],
      [ip |-> vpnNet2, ipv6 |-> None, domain |-> None, dns |-> <<dns2, dns1>>,
       routes |-> <<Route(far, FALSE, FALSE), Route(home, TRUE, FALSE)>>],
      [ip |-> vpnNet, ipv6 |-> "ip6", domain |-> None, dns |-> <<>>,
       routes |-> <<Route("net6", TRUE, TRUE)>>],
      [ip |-> None, ipv6 |-> "ip6", domain |-> None, dns |-> <<>>,
       routes |-> <<Route(far, TRUE, FALSE)>>],
      [ip |-> None, ipv6 |-> None, domain |-> dom1, dns |-> <<dns1>>, routes |-> <<>>] }

\* Servers that push an IPv4 address: no setup fails for lack of one.
MCAddressed == {c \in MCConfigs : c.ip # None}
=============================================================================
