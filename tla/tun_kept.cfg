\* MCTunSetup
SPECIFICATION Spec
CONSTANTS
    Configs <- MCAddressed
    LocalNets = {home}
    AllowLocalLAN = FALSE
    PersistTun = TRUE
    Interrupts = FALSE
    Faults = {}
    MaxSetups = 4
    None = None
    home = home
    far = far
    vpnNet = vpnNet
    vpnNet2 = vpnNet2
    dns1 = dns1
    dns2 = dns2
    dom1 = dom1
    dom2 = dom2
INVARIANTS
    TunCfgStayedTheSame
CHECK_DEADLOCK FALSE
