SPECIFICATION PagesSpec
CONSTANTS
    customer = customer
    transporter = transporter
    SocketsC = 2
    SocketsT = 2
    SendsC = 1
    SendsT = 1
    Clients = {customer, transporter}
    StoreUsers = {customer}
    MaxSockets <- MCMaxSockets
    MaxSends <- MCMaxSends
    Here = here
    Places = {here, there}
    MaxInputs = 3
    MaxCreated = 2
    Apps = {"customer", "transporter", "admin"}
    Admins = {"clerk", "super"}
    MaxRequests = 3
INVARIANTS
    NoneShownTwice
    HubIsServed
    RouteIsOfPoints
    DropIsWhereItSays
    OutWhenSuspended
    ProfileShowsRow
CHECK_DEADLOCK FALSE
