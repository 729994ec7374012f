CONSTANTS
    ping = ping
    bind1 = bind1
    bind2 = bind2
    ser = ser
    des = des
    mat = mat
    Calls = {ping, bind1, bind2}
    Ping = ping
    OpOf <- OpTable
    IdOf <- IdTable
    NoId = NoId
    NoCall = NoCall
    Exit = Exit
    StdinCap = 1
    StdoutCap = 2
    StderrCap = 1
    StrayLimit = 1
    LogLimit = 1
SPECIFICATION FairSpec
PROPERTY CleanBindTakesEffect CallsReturn StopReaps
