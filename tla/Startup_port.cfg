SPECIFICATION Spec
CONSTANTS
    ip1 = ip1
    ip2 = ip2
    None = none
    Addresses = {ip1, ip2}
    Ports = {5021, 5022}
    DEFAULT_LOCAL_DATA_IP = ip1
    DEFAULT_LOCAL_DATA_PORT = 5021
    MAX_CONNECTIONS = 1
    MaxSessions = 2
    MaxStarts = 3
INVARIANTS
    PortAsConfigured
CHECK_DEADLOCK FALSE
