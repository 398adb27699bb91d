SPECIFICATION FairSpec
CONSTANTS
    ip1 = ip1
    ip2 = ip2
    ip3 = ip3
    IP = {ip1, ip2}
    Port = 1
    DNS <- OneAnswer
    Certs = {}
    Nets = {}
    MaxBlacklist = 1
    Dialer = {d1}
    Round = {p1}
    Asked = {0, 2}
    Duration = {1, 2}
    MaxTries = 3
    Failed = Failed
    Up = {ip1, ip2}
    Down = {ip1, ip2}
    Silent = {}
    None = None
PROPERTY FastestFirst
CHECK_DEADLOCK FALSE
