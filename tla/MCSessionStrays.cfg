CONSTANTS
    ping = ping
    bind1 = bind1
    bind2 = bind2
    ser = ser
    des = des
    mat = mat
    Calls = {ping, ser, des, mat}
    Ping = ping
    OpOf <- OpTable
    IdOf <- IdTable
    NoId = NoId
    NoCall = NoCall
    Exit = Exit
    StdinCap = 4
    StdoutCap = 2
    StderrCap = 1
    StrayLimit = 1
    LogLimit = 1
SPECIFICATION Spec
INVARIANTS TypeOK SessionInv SendCorrelated AtMostOneReader
PROPERTY ImplementsRequestReply
