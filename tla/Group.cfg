SPECIFICATION FairSpec
CONSTANTS
    ip1 = ip1
    ip2 = ip2
    ip3 = ip3
    IP = {ip1, ip2, ip3}
    Port = 1
    DNS <- MCDNS
    Certs <- MCCerts
    Nets <- MCNets
    MaxBlacklist = 1
    Dialer = {d1}
    Round = {p1, p2}
    Asked = {0, 2}
    Duration = {1}
    MaxTries = 3
    Failed = Failed
    Up = {ip1}
    Down = {ip2, ip3}
    Silent = {ip2}
    None = None
INVARIANTS NoRemoteLost DialTriesRight
PROPERTIES PingAllEnds
CHECK_DEADLOCK FALSE
