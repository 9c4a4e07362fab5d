SPECIFICATION Spec
CONSTANTS
    p1 = p1
    p2 = p2
    g1 = g1
    g2 = g2
    v = v
    Proxies = {p1, p2}
    Conns = {c1, c2, c3, c4}
    Groups = {g1, g2}
    Payloads = {v}
    Requests <- GroupRequests
    Running = {p1, p2}
    Ip <- MCIp
    Ports <- MCPorts
    MaxLoad = 0
    MaxLost = 0
    None = None
SYMMETRY Symmetry
CHECK_DEADLOCK FALSE
INVARIANTS
    StarComplete
    
