CONSTANTS
    c1 = c1
    c2 = c2
    d1 = d1
    x = x
    y = y
    NoConn = NoConn
    Ip = {x, y}
    Conn <- MCConn
    IpOf <- MCIpOf
    MaxConns = 2
    Share = 2
    Floor = 1
    ErrorBound = 0
SPECIFICATION Spec
INVARIANT PermitForLifetime
CHECK_DEADLOCK FALSE
