\* MCTunSetup
SPECIFICATION Spec
CONSTANTS
    Configs <- MCConfigs
    LocalNets = {home}
    AllowLocalLAN = TRUE
    PersistTun = TRUE
    Interrupts = TRUE
    Faults = {"address", "establish"}
    MaxSetups = 4
    None = None
    home = home
    far = far
    vpnNet = vpnNet
    vpnNet2 = vpnNet2
    dns1 = dns1
    dns2 = dns2
    dom1 = dom1
    dom2 = dom2
INVARIANTS
    TunIsAsAsked
    LostOnlyToLeftovers
\* A session that is up may stay so for good.
CHECK_DEADLOCK FALSE
