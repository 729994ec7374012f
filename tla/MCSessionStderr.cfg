CONSTANTS
    ping = ping
    bind1 = bind1
    bind2 = bind2
    ser = ser
    des = des
    mat = mat
    Calls = {ping, ser}
    Ping = ping
    OpOf <- OpTable
    IdOf <- IdTable
    NoId = NoId
    NoCall = NoCall
    Exit = Exit
    StdinCap = 2
    StdoutCap = 2
    StderrCap = 1
    StrayLimit = 0
    LogLimit = 3
SPECIFICATION Spec
INVARIANT NoStderrDeadlock
