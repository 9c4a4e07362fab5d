SPECIFICATION Spec
CONSTANTS
    p1 = p1
    p2 = p2
    g1 = g1
    g2 = g2
    v = v
    Proxies = {p1, p2}
    Conns = {c1, c2}
    Groups = {g1}
    Payloads = {v}
    Requests <- MixedRequests
    Running = {p1}
    Ip <- MCIp
    Ports <- MCPorts
    MaxLoad = 1
    MaxLost = 1
    None = None
SYMMETRY Symmetry
CHECK_DEADLOCK FALSE
INVARIANTS
    
    ConfigCurrent
