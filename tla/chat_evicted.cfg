SPECIFICATION ChatSpec
CONSTANTS
    customer = customer
    transporter = transporter
    SocketsC = 1
    SocketsT = 2
    SendsC = 0
    SendsT = 0
    Clients = {customer, transporter}
    StoreUsers = {customer}
    MaxSockets <- MCMaxSockets
    MaxSends <- MCMaxSends
INVARIANTS
    ConnectedIsRegistered
CHECK_DEADLOCK FALSE
