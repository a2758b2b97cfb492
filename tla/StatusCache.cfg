CONSTANTS
    Machines = {{"doh", "tampered"}, {"leak", "core", "ipv4", "tampered", "unknown_vpn"}}
    PolicyModes = {"strict"}
    MaxChanges = 1
    MaxFailures = 1
SPECIFICATION FairSpec
PROPERTY ScreenSettles
